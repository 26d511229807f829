----------------------------- MODULE StartupProofs -----------------------------
(***************************************************************************)
(* The safety of start-up, for every set of documents, whatever the App's  *)
(* permissions do meanwhile and wherever a start ends.                     *)
(*                                                                         *)
(* The properties speak of the end of the sequence.  The invariant says    *)
(* for each step what the steps before it have established: what validate  *)
(* let through, the issuers discovered and the policies compiled so far,   *)
(* and the permissions the App was seen to have.                           *)
(***************************************************************************)
EXTENDS Startup, PermissionLemmas

\* The highest of some levels is one of them, and no other is higher.
LEMMA HighestOfLevels ==
    ASSUME NEW levels \in SUBSET Level, levels # {}
    PROVE  /\ HighestLevel(levels) \in levels
           /\ \A o \in levels : LevelOrd(o) =< LevelOrd(HighestLevel(levels))
PROOF
  <1>1. \E l \in levels : \A o \in levels : LevelOrd(l) >= LevelOrd(o)
    <2>0. \A o \in levels : o = "admin" \/ o = "write" \/ o = "read"
      BY DEF Level
    <2>1. CASE "admin" \in levels
      <3>1. \A o \in levels : LevelOrd("admin") >= LevelOrd(o)
        BY <2>0 DEF LevelOrd
      <3> QED
        BY <2>1, <3>1
    <2>2. CASE "admin" \notin levels /\ "write" \in levels
      <3>1. \A o \in levels : LevelOrd("write") >= LevelOrd(o)
        BY <2>0, <2>2 DEF LevelOrd
      <3> QED
        BY <2>2, <3>1
    <2>3. CASE "admin" \notin levels /\ "write" \notin levels
      <3>1. "read" \in levels /\ \A o \in levels : LevelOrd("read") >= LevelOrd(o)
        BY <2>0, <2>3 DEF LevelOrd
      <3> QED
        BY <3>1
    <2> QED
      BY <2>1, <2>2, <2>3
  <1>2. \A l \in levels : LevelOrd(l) \in Int
    BY DEF Level, LevelOrd
  <1>3. /\ HighestLevel(levels) \in levels
        /\ \A o \in levels : LevelOrd(HighestLevel(levels)) >= LevelOrd(o)
    BY <1>1 DEF HighestLevel
  <1> QED
    BY <1>2, <1>3

\* What the policies of a list grant, one by one, the aggregate grants.
LEMMA AggregateCovers ==
    ASSUME NEW list \in Seq(PolicyEntry), NEW n \in DOMAIN list
    PROVE  /\ AggregateGrantPermissions(list) \in PermissionMap
           /\ Authority(list[n].grant) \subseteq Authority(AggregateGrantPermissions(list))
PROOF
  <1> DEFINE agg == AggregateGrantPermissions(list)
  <1>1. \A k \in Key : GrantedLevels(list, k) \in SUBSET Level
    BY DEF GrantedLevels
  <1>2. \A k \in Key : agg[k] \in Level \cup {Absent}
    BY <1>1, HighestOfLevels DEF AggregateGrantPermissions
  <1>3. agg \in PermissionMap
    BY <1>2 DEF AggregateGrantPermissions, PermissionMap, Entry
  <1>4. list[n].grant \in PermissionMap
    <2>1. list[n] \in PolicyEntry
      OBVIOUS
    <2> QED
      BY <2>1 DEF PolicyEntry
  <1>5. ASSUME NEW k \in Key, NEW l \in Level, <<k, l>> \in Authority(list[n].grant)
        PROVE  <<k, l>> \in Authority(agg)
    <2>1. list[n].grant[k] \in Level /\ l \in Includes(list[n].grant[k])
      BY <1>4, <1>5, AuthorityOfKey
    <2>2. Catalog[k] # {}
      BY <1>5 DEF Authority
    <2>3. list[n].grant[k] \in GrantedLevels(list, k)
      BY <2>1 DEF GrantedLevels
    <2>4. /\ agg[k] = HighestLevel(GrantedLevels(list, k))
          /\ agg[k] \in Level
          /\ LevelOrd(list[n].grant[k]) =< LevelOrd(agg[k])
      BY <1>1, <2>2, <2>3, HighestOfLevels DEF AggregateGrantPermissions, ValidKey
    <2>5. Includes(list[n].grant[k]) \subseteq Includes(agg[k])
      BY <2>1, <2>4, OrdIsInclusion
    <2> QED
      BY <2>1, <2>2, <2>5 DEF Authority
  <1> QED
    BY <1>3, <1>5 DEF Authority

\* An empty aggregate means that the policies grant nothing.
LEMMA EmptyAggregate ==
    ASSUME NEW list \in Seq(PolicyEntry), NEW n \in DOMAIN list,
           Present(AggregateGrantPermissions(list)) = {}
    PROVE  Authority(list[n].grant) = {}
PROOF
  <1> DEFINE agg == AggregateGrantPermissions(list)
  <1>1. \A k \in Key : agg[k] = Absent
    BY DEF Present
  <1>2. Authority(agg) = {}
    <2> HIDE DEF agg
    <2> QED
      BY <1>1 DEF Authority, Includes, Absent
  <1> QED
    BY <1>2, AggregateCovers

\* No gaps: the App holds what every policy grants.
LEMMA NoGapsCovers ==
    ASSUME NEW list \in Seq(PolicyEntry), NEW n \in DOMAIN list,
           NEW m \in PermissionMap, Gaps(AggregateGrantPermissions(list), m) = {}
    PROVE  Authority(list[n].grant) \subseteq Authority(m)
PROOF
  <1>1. AggregateGrantPermissions(list) \in PermissionMap
    BY AggregateCovers
  <1>2. {kl[1] : kl \in Authority(AggregateGrantPermissions(list)) \ Authority(m)} = {}
    BY <1>1, GapsAuthority
  <1>3. Authority(AggregateGrantPermissions(list)) \subseteq Authority(m)
    BY <1>2
  <1> QED
    BY <1>3, AggregateCovers
-----------------------------------------------------------------------------
(* What a configuration is made of.                                        *)

C == ApplyDefaults(document)

LEMMA DefaultsType ==
    ASSUME TypeOK
    PROVE  /\ C.policies \in Seq(PolicyEntry)
           /\ C.policies = document.policies
           /\ C.issuers \in Seq(Range(C.issuers))
           /\ Len(C.issuers) \in Nat /\ DOMAIN C.issuers = 1 .. Len(C.issuers)
           /\ Len(C.policies) \in Nat /\ DOMAIN C.policies = 1 .. Len(C.policies)
           /\ \A n \in DOMAIN C.issuers : C.issuers[n] = ResolvedIssuer(document.issuers[n])
PROOF
  <1>1. document \in Document
    BY DocumentsAssumption DEF TypeOK
  <1>2. document.issuers \in Seq(IssuerEntry) /\ document.policies \in Seq(PolicyEntry)
    BY <1>1 DEF Document
  <1>3. C.issuers = [n \in DOMAIN document.issuers |-> ResolvedIssuer(document.issuers[n])]
    BY DEF C, ApplyDefaults
  <1>4. C.policies = document.policies
    BY DEF C, ApplyDefaults
  <1>5. Len(document.issuers) \in Nat /\ DOMAIN document.issuers = 1 .. Len(document.issuers)
    BY <1>2
  <1>6. DOMAIN C.issuers = 1 .. Len(document.issuers)
    BY <1>3, <1>5
  <1>7. C.issuers \in Seq(Range(C.issuers)) /\ Len(C.issuers) = Len(document.issuers)
    <2>1. C.issuers \in [1 .. Len(document.issuers) -> Range(C.issuers)]
      BY <1>3, <1>6 DEF Range
    <2> QED
      BY <2>1, <1>5
  <1> QED
    BY <1>2, <1>3, <1>4, <1>5, <1>6, <1>7

\* Issuers come with URLs of their own, so keyed stays a set of URLs.
LEMMA IssuerURLs ==
    ASSUME Valid(C), NEW n \in DOMAIN C.issuers
    PROVE  C.issuers[n].issuer \in URL
PROOF
  <1>1. ValidIssuer(C.issuers[n])
    BY DEF Valid
  <1> QED
    BY <1>1, URLAssumption DEF ValidIssuer

\* The defaults leave no issuer without algorithms.
LEMMA AlgorithmsAreGiven ==
    ASSUME NEW entry
    PROVE  ResolvedIssuer(entry).algorithms # <<>>
PROOF
  <1>1. ResolvedIssuer(entry).algorithms
            = IF entry.algorithms = <<>> THEN <<"RS256">> ELSE entry.algorithms
    BY DEF ResolvedIssuer
  <1>2. <<"RS256">> # <<>>
    OBVIOUS
  <1> QED
    BY <1>1, <1>2

LEMMA LifetimesArePositive ==
    \A n \in 1 .. MaxTokenLifetimeLimit : n \in Int /\ n >= 1 /\ ~(n =< 0)
PROOF
  <1>1. MaxTokenLifetimeLimit \in Int
    BY DEF MaxTokenLifetimeLimit
  <1>2. ASSUME NEW limit \in Int, NEW n \in 1 .. limit
        PROVE  n \in Int /\ n >= 1 /\ ~(n =< 0)
    OBVIOUS
  <1> QED
    BY <1>1, <1>2, Zenon

LEMMA AudienceAndLifetimeAreGiven ==
    ASSUME NEW iss, ValidIssuer(iss)
    PROVE  iss.audience # "" /\ ~(iss.maxTokenLifetimeSeconds =< 0)
PROOF
  <1>1. iss.audience # ""
    BY Zenon DEF ValidIssuer
  <1>2. iss.maxTokenLifetimeSeconds \in 1 .. MaxTokenLifetimeLimit
    BY Zenon DEF ValidIssuer
  <1> QED
    BY <1>1, <1>2, LifetimesArePositive, Zenon
-----------------------------------------------------------------------------
(* The invariant.                                                          *)

AfterManifest == {"app", "installation", "mint", "user", "listen", "serving"}
AfterCompile == {"key", "manifest"} \cup AfterManifest
AfterDiscover == {"compile"} \cup AfterCompile
AfterMint == {"user", "listen", "serving", "exited"}

KeyedUpTo(n) == keyed = {C.issuers[m].issuer : m \in 1 .. n}

\* The policies for one issuer among the first n.
FiledFor(name, n) == {C.policies[m] : m \in {k \in 1 .. n : C.policies[k].issuer = name}}

FiledUpTo(n) == \A name \in IssuerName : Range(compiled[name]) = FiledFor(name, n)

Backed == \A n \in DOMAIN C.policies : Authority(C.policies[n].grant) \subseteq Authority(checked)

LoadedIsValid ==
    config # <<>> => FitsSchema(document) /\ Valid(C) /\ warned = Unreferenced(C)

KeysInOrder ==
    /\ pc = "load" => keyed = {} /\ done = 0
    /\ pc = "discover" => done =< Len(C.issuers) /\ KeyedUpTo(done)
    /\ pc \in AfterDiscover => KeyedUpTo(Len(C.issuers))

PoliciesInOrder ==
    /\ pc \in {"load", "discover"} => compiled = [name \in IssuerName |-> <<>>]
    /\ pc = "compile" => FiledUpTo(done)
    /\ pc \in AfterCompile => FiledUpTo(Len(C.policies))

GrantsAreBacked == pc \in AfterManifest => Backed

MintedAreChecked ==
    minted => /\ pc \in AfterMint /\ config # <<>>
              /\ KeyedUpTo(Len(C.issuers)) /\ FiledUpTo(Len(C.policies)) /\ Backed

IInv == /\ TypeOK
        /\ LoadedIsValid
        /\ KeysInOrder
        /\ PoliciesInOrder
        /\ GrantsAreBacked
        /\ MintedAreChecked
        /\ ConstructorsNeverRefuse

LEMMA CfgIsC ==
    ASSUME TypeOK, config # <<>>
    PROVE  Cfg = C
  BY DEF TypeOK, Cfg, C

\* A document that stays is the same configuration.
LEMMA SameDocument ==
    ASSUME document' = document
    PROVE  /\ C' = C
           /\ \A n : (keyed' = keyed /\ KeyedUpTo(n)) => KeyedUpTo(n)'
           /\ \A n : (compiled' = compiled /\ FiledUpTo(n)) => FiledUpTo(n)'
           /\ (checked' = checked /\ Backed) => Backed'
PROOF
  <1>1. C' = C
    BY DEF C
  <1> QED
    BY <1>1 DEF KeyedUpTo, FiledUpTo, FiledFor, Backed

LEMMA InvariantStarts == Init => IInv
PROOF
  <1> SUFFICES ASSUME Init PROVE IInv
    OBVIOUS
  <1>1. NoPermissions \in PermissionMap
    BY DEF NoPermissions, PermissionMap, Entry
  <1>2. compiled \in [IssuerName -> Seq(PolicyEntry)]
    BY DEF Init
  <1>3. TypeOK
    <2>1. pc = "load" /\ reason = "none" /\ config = <<>> /\ done = 0
      BY DEF Init
    <2>2. pc \in Loading \cup {"serving", "exited"} /\ reason \in Reason
      BY <2>1 DEF Loading, Reason
    <2>3. done \in Nat /\ done =< IF pc = "compile" THEN Len(Cfg.policies) ELSE 0
      BY <2>1
    <2>4. warned \subseteq IssuerName /\ keyed \subseteq URL /\ minted \in BOOLEAN
      BY DEF Init
    <2>5. document \in Documents /\ manifest \in Manifests /\ online \in BOOLEAN
      BY DEF Init
    <2>6. checked \in PermissionMap
      BY <1>1 DEF Init
    <2> QED
      BY <1>2, <2>1, <2>2, <2>3, <2>4, <2>5, <2>6 DEF TypeOK
  <1> QED
    BY <1>3 DEF Init, IInv, LoadedIsValid, KeysInOrder, PoliciesInOrder, GrantsAreBacked,
       MintedAreChecked, ConstructorsNeverRefuse, AfterDiscover, AfterCompile, AfterManifest
-----------------------------------------------------------------------------
(* Ends, and steps that only go on.                                        *)

LEMMA ExitKeeps ==
    ASSUME IInv, NEW why \in Reason \ {"none", "constructor"}, Exit(why),
           UNCHANGED <<world, config, warned, keyed, compiled, done, checked>>,
           minted' = minted \/ (minted' = TRUE /\ pc = "mint")
    PROVE  IInv'
PROOF
  <1>1. document' = document /\ C' = C
    BY SameDocument DEF world
  <1>2. TypeOK'
    <2>1. minted' \in BOOLEAN
      BY DEF IInv, TypeOK
    <2> QED
      BY <1>1, <2>1 DEF IInv, TypeOK, Exit, world, Loading
  <1>3. LoadedIsValid' /\ KeysInOrder' /\ PoliciesInOrder' /\ GrantsAreBacked'
    BY <1>1 DEF IInv, LoadedIsValid, KeysInOrder, PoliciesInOrder, GrantsAreBacked, Exit,
       AfterDiscover, AfterCompile, AfterManifest
  <1>4. MintedAreChecked'
    <2> SUFFICES ASSUME minted' PROVE MintedAreChecked'
      BY DEF MintedAreChecked
    <2>1. /\ config # <<>> /\ KeyedUpTo(Len(C.issuers)) /\ FiledUpTo(Len(C.policies))
          /\ Backed
      <3>1. CASE minted
        BY <3>1 DEF IInv, MintedAreChecked
      <3>2. CASE pc = "mint"
        BY <3>2 DEF IInv, TypeOK, KeysInOrder, PoliciesInOrder, GrantsAreBacked,
           AfterDiscover, AfterCompile, AfterManifest
      <3> QED
        BY <3>1, <3>2
    <2>2. KeyedUpTo(Len(C.issuers))' /\ FiledUpTo(Len(C.policies))' /\ Backed'
      BY <1>1, <2>1 DEF KeyedUpTo, FiledUpTo, FiledFor, Backed
    <2> QED
      BY <2>1, <2>2 DEF MintedAreChecked, Exit, AfterMint
  <1>5. ConstructorsNeverRefuse'
    BY DEF Exit, ConstructorsNeverRefuse
  <1> QED
    BY <1>2, <1>3, <1>4, <1>5 DEF IInv

LEMMA FailKeeps ==
    ASSUME IInv, NEW why \in Reason \ {"none", "constructor"}, NEW step, Fail(step, why)
    PROVE  IInv'
  BY ExitKeeps DEF Fail

\* From key on, a step establishes nothing but, at the manifest, Backed.
LEMMA GoKeeps ==
    ASSUME IInv, NEW next \in AfterCompile, Go(next), pc \in AfterCompile,
           UNCHANGED <<world, config, warned, keyed, compiled, done>>,
           checked' \in PermissionMap,
           next \in AfterManifest => Backed',
           minted => checked' = checked,
           minted => next \in AfterMint,
           minted' = minted \/ (minted' = TRUE /\ next \in AfterMint)
    PROVE  IInv'
PROOF
  <1>1. document' = document /\ C' = C
    BY SameDocument DEF world
  <1>2. config # <<>> /\ done = 0
    BY DEF IInv, TypeOK, AfterCompile, AfterManifest
  <1>3. TypeOK'
    <2>1. minted' \in BOOLEAN
      BY DEF IInv, TypeOK
    <2>2. next \in Loading \cup {"serving"} /\ next \notin {"discover", "exited", "compile", "load"}
      BY DEF AfterCompile, AfterManifest, Loading
    <2>3. /\ pc' = next /\ reason' = "none" /\ config' = config /\ done' = 0
          /\ warned' = warned /\ keyed' = keyed /\ compiled' = compiled
          /\ document' = document /\ manifest' = manifest /\ online' = online
      BY <1>2 DEF Go, world
    <2>4. pc' \in Loading \cup {"serving", "exited"} /\ reason' \in Reason
          /\ (pc' = "exited" <=> reason' # "none")
      BY <2>2, <2>3 DEF Reason
    <2>5. (pc \notin {"discover", "exited"}
              => done =< IF pc = "compile" THEN Len(Cfg.policies) ELSE 0)'
      BY <2>2, <2>3
    <2>6. (pc \notin {"load", "exited"} => config # <<>>)'
      BY <1>2, <2>3
    <2> QED
      BY <2>1, <2>3, <2>4, <2>5, <2>6 DEF IInv, TypeOK
  <1>4. KeyedUpTo(Len(C.issuers)) /\ FiledUpTo(Len(C.policies))
    BY DEF IInv, KeysInOrder, PoliciesInOrder, AfterDiscover
  <1>5. KeyedUpTo(Len(C.issuers))' /\ FiledUpTo(Len(C.policies))'
    BY <1>1, <1>4 DEF KeyedUpTo, FiledUpTo, FiledFor
  <1>6. LoadedIsValid' /\ KeysInOrder' /\ PoliciesInOrder' /\ GrantsAreBacked'
    <2>1. pc' \in AfterCompile /\ pc' \notin {"load", "discover", "compile"}
      BY DEF Go, AfterCompile, AfterManifest
    <2>2. GrantsAreBacked'
      BY DEF GrantsAreBacked, Go
    <2>3. LoadedIsValid'
      BY <1>1 DEF IInv, LoadedIsValid
    <2> QED
      BY <1>5, <2>1, <2>2, <2>3 DEF KeysInOrder, PoliciesInOrder
  <1>7. MintedAreChecked'
    <2> SUFFICES ASSUME minted' PROVE MintedAreChecked'
      BY DEF MintedAreChecked
    <2>1. next \in AfterMint
      OBVIOUS
    <2>2. next \in AfterManifest
      BY <2>1 DEF AfterMint, AfterManifest, AfterCompile
    <2> QED
      BY <1>2, <1>5, <2>1, <2>2 DEF MintedAreChecked, Go
  <1>8. ConstructorsNeverRefuse'
    BY DEF Go, ConstructorsNeverRefuse
  <1> QED
    BY <1>3, <1>6, <1>7, <1>8 DEF IInv

LEMMA ProceedKeeps ==
    ASSUME IInv, NEW step \in AfterCompile, NEW next \in AfterCompile, Proceed(step, next),
           next \in AfterManifest => Backed, step \in AfterMint => next \in AfterMint
    PROVE  IInv'
PROOF
  <1>1. document' = document
    BY DEF Proceed, world
  <1>2. checked' \in PermissionMap /\ (Backed => Backed')
    BY <1>1, SameDocument DEF Proceed, IInv, TypeOK
  <1>3. minted => next \in AfterMint
    BY DEF Proceed, IInv, MintedAreChecked
  <1> QED
    BY <1>2, <1>3, GoKeeps DEF Proceed
-----------------------------------------------------------------------------
(* What the constructors need, validate has made sure of.                  *)

LEMMA IssuerIsGood ==
    ASSUME IInv, pc = "discover", done < Len(Cfg.issuers)
    PROVE  ~BadIssuer(NextIssuer)
PROOF
  <1>1. config # <<>> /\ Cfg = C /\ Valid(C)
    BY CfgIsC DEF IInv, TypeOK, LoadedIsValid
  <1>2. done \in Nat /\ done + 1 \in DOMAIN C.issuers /\ DOMAIN C.issuers = 1 .. Len(C.issuers)
    BY <1>1, DefaultsType DEF IInv, TypeOK
  <1> DEFINE iss == C.issuers[done + 1]
  <1>3. NextIssuer = iss
    BY <1>1 DEF NextIssuer
  <1>4. iss.issuer \in URL /\ iss.issuer # ""
    BY <1>1, <1>2, IssuerURLs, URLAssumption
  <1>5. ValidIssuer(iss)
    BY <1>1, <1>2 DEF Valid
  <1>6. iss.algorithms # <<>>
    <2>1. iss = ResolvedIssuer(document.issuers[done + 1])
      BY <1>2, DefaultsType DEF IInv
    <2> HIDE DEF iss
    <2> QED
      BY <2>1, AlgorithmsAreGiven
  <1>7. iss.issuer \notin keyed
    <2>1. KeyedUpTo(done) /\ IssuersDiffer(C.issuers)
      BY <1>1 DEF IInv, KeysInOrder, Valid
    <2>2. \A m \in 1 .. done : m \in DOMAIN C.issuers /\ m # done + 1
      BY <1>2
    <2> QED
      BY <1>2, <2>1, <2>2 DEF KeyedUpTo, IssuersDiffer
  <1>8. iss.audience # "" /\ ~(iss.maxTokenLifetimeSeconds =< 0)
    BY <1>5, AudienceAndLifetimeAreGiven
  <1> QED
    BY <1>3, <1>4, <1>6, <1>7, <1>8 DEF BadIssuer

LEMMA PolicyIsGood ==
    ASSUME IInv, Compiling
    PROVE  /\ KnownIssuer(NextPolicy)
           /\ NextPolicy.issuer \in IssuerName /\ NextPolicy \in PolicyEntry
           /\ done + 1 \in DOMAIN C.policies /\ NextPolicy = C.policies[done + 1]
PROOF
  <1>1. config # <<>> /\ Cfg = C /\ Valid(C)
    BY CfgIsC DEF IInv, TypeOK, LoadedIsValid, Compiling
  <1>2. done \in Nat /\ done + 1 \in DOMAIN C.policies
    BY <1>1, DefaultsType DEF IInv, TypeOK, Compiling
  <1>3. NextPolicy = C.policies[done + 1]
    BY <1>1 DEF NextPolicy
  <1>4. PICK i \in DOMAIN C.issuers : C.issuers[i].name = C.policies[done + 1].issuer
    BY <1>1, <1>2 DEF Valid, ValidPolicies
  <1>5. C.issuers[i].name \in IssuerName
    BY <1>1, NamesAssumption DEF Valid, ValidIssuer
  <1>6. C.policies[done + 1] \in PolicyEntry
    BY <1>2, DefaultsType DEF IInv
  <1> QED
    BY <1>1, <1>2, <1>3, <1>4, <1>5, <1>6 DEF KnownIssuer

LEMMA KeyIsGiven ==
    ASSUME IInv, pc = "key"
    PROVE  Cfg.keySources # {}
  BY CfgIsC DEF IInv, TypeOK, LoadedIsValid, Valid
-----------------------------------------------------------------------------
(* The steps that establish something.                                     *)

LEMMA LoadKeeps ==
    ASSUME IInv, Load
    PROVE  IInv'
PROOF
  <1>1. document' = document /\ C' = C
    BY SameDocument DEF Load, world
  <1>fits. FitsSchema(document) /\ FitsSchema(document')
    BY <1>1 DEF Load
  <1>2. config' = <<C>> /\ warned' = Unreferenced(C) /\ Valid(C) /\ ~minted /\ done = 0
    BY DEF Load, C, IInv, KeysInOrder, MintedAreChecked, AfterMint
  <1>3. Len(C.issuers) \in Nat
    BY DefaultsType DEF IInv
  <1>4. warned' \subseteq IssuerName
    BY <1>2, NamesAssumption DEF Unreferenced, Valid, ValidIssuer
  <1>5. TypeOK'
    BY <1>1, <1>2, <1>4 DEF IInv, TypeOK, Load, Go, world, Loading, Reason, C
  <1>6. KeysInOrder'
    <2>1. keyed' = {} /\ done' = 0 /\ 0 =< Len(C.issuers)
      BY <1>2, <1>3 DEF IInv, KeysInOrder, Load
    <2>2. KeyedUpTo(0)'
      BY <2>1 DEF KeyedUpTo
    <2> QED
      BY <1>1, <2>1, <2>2 DEF KeysInOrder, Load, Go, AfterDiscover, AfterCompile, AfterManifest
  <1>7. PoliciesInOrder' /\ GrantsAreBacked'
    BY DEF IInv, PoliciesInOrder, GrantsAreBacked, Load, Go, AfterCompile, AfterManifest
  <1> QED
    BY <1>1, <1>fits, <1>2, <1>5, <1>6, <1>7
       DEF IInv, LoadedIsValid, MintedAreChecked, ConstructorsNeverRefuse, Load, Go

LEMMA DiscoverKeeps ==
    ASSUME IInv, Discover
    PROVE  IInv'
PROOF
  <1>1. document' = document /\ C' = C /\ Cfg = C /\ config # <<>>
    BY SameDocument, CfgIsC DEF Discover, Discovering, world, IInv, TypeOK
  <1>2. done \in Nat /\ Len(C.issuers) \in Nat /\ done < Len(C.issuers)
        /\ DOMAIN C.issuers = 1 .. Len(C.issuers) /\ done + 1 \in DOMAIN C.issuers
    BY <1>1, DefaultsType DEF Discover, Discovering, IInv, TypeOK
  <1>3. C.issuers[done + 1].issuer \in URL
    BY <1>1, <1>2, IssuerURLs DEF IInv, LoadedIsValid
  <1>4. keyed' = keyed \cup {C.issuers[done + 1].issuer} /\ done' = done + 1
    BY <1>1 DEF Discover, NextIssuer
  <1>5. ~minted
    BY DEF Discover, Discovering, IInv, MintedAreChecked, AfterMint
  <1>6. TypeOK'
    BY <1>1, <1>2, <1>3, <1>4 DEF IInv, TypeOK, Discover, Discovering, world
  <1>7. KeysInOrder'
    <2>1. KeyedUpTo(done)
      BY DEF IInv, KeysInOrder, Discover, Discovering
    <2>2. 1 .. (done + 1) = (1 .. done) \cup {done + 1}
      BY <1>2
    <2>3. KeyedUpTo(done)  /\ keyed' = {C.issuers[m].issuer : m \in 1 .. (done + 1)}
      BY <1>4, <2>1, <2>2 DEF KeyedUpTo
    <2>4. done' =< Len(C.issuers)
      BY <1>2, <1>4
    <2> QED
      BY <1>1, <1>4, <2>3, <2>4 DEF KeyedUpTo, KeysInOrder, Discover, Discovering,
         AfterDiscover, AfterCompile, AfterManifest
  <1>8. LoadedIsValid' /\ PoliciesInOrder' /\ GrantsAreBacked' /\ ConstructorsNeverRefuse'
    BY <1>1 DEF IInv, LoadedIsValid, PoliciesInOrder, GrantsAreBacked,
       ConstructorsNeverRefuse, Discover, Discovering, AfterCompile, AfterManifest
  <1> QED
    BY <1>5, <1>6, <1>7, <1>8 DEF IInv, MintedAreChecked, Discover

LEMMA AllDiscoveredKeeps ==
    ASSUME IInv, AllDiscovered
    PROVE  IInv'
PROOF
  <1>1. document' = document /\ C' = C /\ Cfg = C /\ config # <<>>
    BY SameDocument, CfgIsC DEF AllDiscovered, world, IInv, TypeOK
  <1>2. ~minted /\ Go("compile")
    <2>1. Cfg.issuers # <<>>
      BY <1>1 DEF AllDiscovered, IInv, LoadedIsValid, Valid
    <2> QED
      BY <2>1 DEF AllDiscovered, IInv, MintedAreChecked, AfterMint
  <1>3. Len(C.policies) \in Nat
    BY DefaultsType DEF IInv
  <1>4. TypeOK'
    <2>1. pc' = "compile" /\ done' = 0 /\ reason' = "none"
      BY <1>2 DEF AllDiscovered, Go
    <2>2. config' = config /\ Cfg' = Cfg
      BY DEF AllDiscovered, Cfg
    <2> QED
      BY <1>1, <1>3, <2>1, <2>2 DEF IInv, TypeOK, AllDiscovered, world, Loading, Reason
  <1>5. KeysInOrder'
    <2>1. KeyedUpTo(Len(C.issuers))
      BY <1>1 DEF IInv, KeysInOrder, AllDiscovered
    <2> QED
      BY <1>1, <1>2, <2>1 DEF KeysInOrder, KeyedUpTo, AllDiscovered, Go
  <1>6. PoliciesInOrder'
    <2>1. compiled' = [name \in IssuerName |-> <<>>]
      BY DEF IInv, PoliciesInOrder, AllDiscovered
    <2>2. FiledUpTo(0)'
      BY <2>1 DEF FiledUpTo, FiledFor, Range
    <2> QED
      BY <1>2, <2>2 DEF PoliciesInOrder, AllDiscovered, Go, AfterCompile, AfterManifest
  <1>7. LoadedIsValid' /\ GrantsAreBacked' /\ ConstructorsNeverRefuse'
    BY <1>1, <1>2 DEF IInv, LoadedIsValid, GrantsAreBacked, ConstructorsNeverRefuse,
       AllDiscovered, Go, AfterManifest
  <1> QED
    BY <1>2, <1>4, <1>5, <1>6, <1>7 DEF IInv, MintedAreChecked, AllDiscovered

LEMMA CompileKeeps ==
    ASSUME IInv, Compile
    PROVE  IInv'
PROOF
  <1> DEFINE p == C.policies[done + 1]
  <1>1. document' = document /\ C' = C /\ Cfg = C /\ config # <<>> /\ pc = "compile"
    BY SameDocument, CfgIsC DEF Compile, Compiling, world, IInv, TypeOK
  <1>2. NextPolicy = p /\ p.issuer \in IssuerName /\ p \in PolicyEntry
    BY PolicyIsGood DEF Compile
  <1>3. done \in Nat /\ Len(C.policies) \in Nat /\ done < Len(C.policies)
    BY <1>1, DefaultsType DEF Compile, Compiling, IInv, TypeOK
  <1>4. /\ compiled' = [compiled EXCEPT ![p.issuer] = Append(compiled[p.issuer], p)]
        /\ done' = done + 1
    BY <1>2 DEF Compile
  <1>5. compiled \in [IssuerName -> Seq(PolicyEntry)]
    BY DEF IInv, TypeOK
  <1>6. ~minted
    BY <1>1 DEF IInv, MintedAreChecked, AfterMint
  <1>7. TypeOK'
    <2>1. compiled' \in [IssuerName -> Seq(PolicyEntry)]
      <3> HIDE DEF p
      <3> QED
        BY <1>2, <1>4, <1>5
    <2>2. pc' = "compile" /\ config' = config /\ Cfg' = Cfg /\ done' \in Nat
          /\ done' =< Len(Cfg.policies)'
      BY <1>1, <1>3, <1>4 DEF Compile, Cfg
    <2> QED
      BY <1>1, <2>1, <2>2 DEF IInv, TypeOK, Compile, world
  <1>8. PoliciesInOrder'
    <2>1. FiledUpTo(done)
      BY <1>1 DEF IInv, PoliciesInOrder
    <2>2. ASSUME NEW name \in IssuerName
          PROVE  Range(compiled'[name]) = FiledFor(name, done + 1)
      <3>1. 1 .. (done + 1) = (1 .. done) \cup {done + 1}
        BY <1>3
      <3>2. Range(compiled[name]) = FiledFor(name, done)
        BY <2>1 DEF FiledUpTo
      <3>3. CASE name = p.issuer
        <4>1. compiled'[name] = Append(compiled[name], p) /\ compiled[name] \in Seq(PolicyEntry)
          <5> HIDE DEF p
          <5> QED
            BY <1>4, <1>5, <3>3
        <4>2. Range(Append(compiled[name], p)) = Range(compiled[name]) \cup {p}
          <5> HIDE DEF p
          <5> QED
            BY <1>2, <4>1 DEF Range
        <4>3. FiledFor(name, done + 1) = FiledFor(name, done) \cup {p}
          BY <3>1, <3>3 DEF FiledFor
        <4> QED
          BY <3>2, <4>1, <4>2, <4>3
      <3>4. CASE name # p.issuer
        <4>1. compiled'[name] = compiled[name]
          <5> HIDE DEF p
          <5> QED
            BY <1>4, <1>5, <3>4
        <4>2. FiledFor(name, done + 1) = FiledFor(name, done)
          BY <3>1, <3>4 DEF FiledFor
        <4> QED
          BY <3>2, <4>1, <4>2
      <3> QED
        BY <3>3, <3>4
    <2>3. FiledUpTo(done)'
      BY <1>1, <1>4, <2>2 DEF FiledUpTo, FiledFor
    <2> QED
      BY <1>1, <2>3 DEF PoliciesInOrder, Compile, AfterCompile, AfterManifest
  <1>9. KeysInOrder'
    BY <1>1 DEF IInv, KeysInOrder, KeyedUpTo, Compile
  <1>10. LoadedIsValid' /\ GrantsAreBacked' /\ ConstructorsNeverRefuse'
    BY <1>1 DEF IInv, LoadedIsValid, GrantsAreBacked, ConstructorsNeverRefuse, Compile,
       AfterManifest
  <1> QED
    BY <1>6, <1>7, <1>8, <1>9, <1>10 DEF IInv, MintedAreChecked, Compile

LEMMA AllCompiledKeeps ==
    ASSUME IInv, AllCompiled
    PROVE  IInv'
PROOF
  <1>1. document' = document /\ C' = C /\ Cfg = C /\ config # <<>> /\ pc = "compile"
    BY SameDocument, CfgIsC DEF AllCompiled, world, IInv, TypeOK
  <1>2. ~minted
    BY <1>1 DEF IInv, MintedAreChecked, AfterMint
  <1>3. pc' = "key" /\ done' = 0 /\ reason' = "none" /\ config' = config
    BY DEF AllCompiled, Go
  <1>4. TypeOK'
    BY <1>1, <1>3 DEF IInv, TypeOK, AllCompiled, world, Loading, Reason
  <1>5. FiledUpTo(Len(C.policies)) /\ KeyedUpTo(Len(C.issuers))
    BY <1>1 DEF IInv, PoliciesInOrder, KeysInOrder, AllCompiled, AfterDiscover
  <1>6. PoliciesInOrder' /\ KeysInOrder'
    BY <1>1, <1>3, <1>5 DEF PoliciesInOrder, KeysInOrder, FiledUpTo, FiledFor, KeyedUpTo,
       AllCompiled
  <1>7. LoadedIsValid' /\ GrantsAreBacked' /\ ConstructorsNeverRefuse'
    BY <1>1, <1>3 DEF IInv, LoadedIsValid, GrantsAreBacked, ConstructorsNeverRefuse,
       AllCompiled, AfterManifest
  <1> QED
    BY <1>2, <1>4, <1>6, <1>7 DEF IInv, MintedAreChecked, AllCompiled

\* Without anything granted there is nothing to be backed.
LEMMA NothingToValidateKeeps ==
    ASSUME IInv, NothingToValidate
    PROVE  IInv'
PROOF
  <1>1. Cfg = C /\ C.policies \in Seq(PolicyEntry)
    BY CfgIsC, DefaultsType DEF IInv, TypeOK, NothingToValidate
  <1>2. \A n \in DOMAIN C.policies : Authority(C.policies[n].grant) = {}
    BY <1>1, EmptyAggregate DEF NothingToValidate, RequiredPerms
  <1>3. Backed
    BY <1>2 DEF Backed
  <1> QED
    BY <1>3, ProceedKeeps
       DEF NothingToValidate, AfterCompile, AfterManifest, AfterMint

LEMMA ValidateKeeps ==
    ASSUME IInv, ValidateAppPermissions
    PROVE  IInv'
PROOF
  <1>1. document' = document /\ C' = C /\ Cfg = C /\ config # <<>>
    BY SameDocument, CfgIsC DEF ValidateAppPermissions, world, IInv, TypeOK
  <1>2. C.policies \in Seq(PolicyEntry)
    BY DefaultsType DEF IInv
  <1>3. manifest \in PermissionMap /\ checked' = manifest /\ ~minted /\ minted' = minted
    BY ManifestsAssumption
       DEF IInv, TypeOK, ValidateAppPermissions, MintedAreChecked, AfterMint
  <1>4. CASE Gaps(RequiredPerms, manifest) = {}
    <2>1. \A n \in DOMAIN C.policies : Authority(C.policies[n].grant) \subseteq Authority(manifest)
      BY <1>1, <1>2, <1>3, <1>4, NoGapsCovers DEF RequiredPerms
    <2>2. Backed'
      BY <1>1, <1>3, <2>1 DEF Backed
    <2>3. Go("app") /\ UNCHANGED <<world, config, warned, keyed, compiled, done>>
      BY <1>4 DEF ValidateAppPermissions
    <2>4. "app" \in AfterCompile /\ pc \in AfterCompile
      BY DEF ValidateAppPermissions, AfterCompile, AfterManifest
    <2> QED
      BY <1>3, <2>2, <2>3, <2>4, GoKeeps
  <1>5. CASE Gaps(RequiredPerms, manifest) # {}
    <2>1. pc' = "exited" /\ reason' = "gaps"
      BY <1>5 DEF ValidateAppPermissions, Exit
    <2>2. TypeOK'
      BY <1>1, <1>3, <2>1 DEF IInv, TypeOK, ValidateAppPermissions, world, Reason
    <2>3. LoadedIsValid' /\ KeysInOrder' /\ PoliciesInOrder' /\ GrantsAreBacked'
      BY <1>1, <2>1 DEF IInv, LoadedIsValid, KeysInOrder, PoliciesInOrder, GrantsAreBacked,
         ValidateAppPermissions, AfterDiscover, AfterCompile, AfterManifest
    <2> QED
      BY <1>3, <2>1, <2>2, <2>3 DEF IInv, MintedAreChecked, ConstructorsNeverRefuse
  <1> QED
    BY <1>4, <1>5

LEMMA IdentityTokenKeeps ==
    ASSUME IInv, IdentityToken
    PROVE  IInv'
PROOF
  <1>1. pc \in AfterCompile /\ "user" \in AfterCompile /\ "user" \in AfterMint
    BY DEF IdentityToken, AfterCompile, AfterManifest, AfterMint
  <1>2. Backed
    BY DEF IdentityToken, IInv, GrantsAreBacked, AfterManifest
  <1>3. Backed' /\ checked' \in PermissionMap
    BY <1>2, SameDocument DEF IdentityToken, world, IInv, TypeOK
  <1>4. CASE Go("user") /\ minted' = TRUE
    BY <1>1, <1>3, <1>4, GoKeeps DEF IdentityToken
  <1>5. CASE Exit("github") /\ minted' \in {minted, TRUE}
    <2>1. "github" \in Reason \ {"none", "constructor"}
      BY DEF Reason
    <2>2. minted' = minted \/ (minted' = TRUE /\ pc = "mint")
      BY <1>5 DEF IdentityToken
    <2> QED
      BY <1>5, <2>1, <2>2, ExitKeeps DEF IdentityToken
  <1> QED
    BY <1>4, <1>5 DEF IdentityToken

LEMMA StartKeeps ==
    ASSUME IInv, Start
    PROVE  IInv'
PROOF
  <1>1. NoPermissions \in PermissionMap
    BY DEF NoPermissions, PermissionMap, Entry
  <1>2. pc' = "load" /\ reason' = "none" /\ config' = <<>> /\ done' = 0
    BY DEF Start, Go
  <1>3. /\ warned' = {} /\ keyed' = {} /\ minted' = FALSE /\ checked' = NoPermissions
        /\ compiled' = [name \in IssuerName |-> <<>>]
    BY DEF Start
  <1>4. TypeOK'
    <2>1. (pc \in Loading \cup {"serving", "exited"})' /\ (reason \in Reason)'
      BY <1>2 DEF Loading, Reason
    <2>2. (done \in Nat)' /\ (done =< IF pc = "compile" THEN Len(Cfg.policies) ELSE 0)'
      BY <1>2
    <2>3. (warned \subseteq IssuerName /\ keyed \subseteq URL /\ minted \in BOOLEAN)'
      BY <1>3
    <2>4. (document \in Documents /\ manifest \in Manifests /\ online \in BOOLEAN)'
      BY DEF Start, IInv, TypeOK
    <2>5. (checked \in PermissionMap)'
      BY <1>1, <1>3
    <2>6. (compiled \in [IssuerName -> Seq(PolicyEntry)])'
      BY <1>3
    <2> QED
      BY <1>2, <2>1, <2>2, <2>3, <2>4, <2>5, <2>6 DEF TypeOK
  <1> QED
    BY <1>2, <1>3, <1>4 DEF IInv, LoadedIsValid, KeysInOrder, PoliciesInOrder, GrantsAreBacked,
       MintedAreChecked, ConstructorsNeverRefuse, AfterDiscover, AfterCompile, AfterManifest

\* Steps of the sequence that fail, or go on without establishing anything.
LEMMA OtherStepsKeep ==
    ASSUME IInv,
           \/ LoadFails \/ DiscoveryFails \/ CompileFails \/ ReadKey \/ ManifestFails
           \/ FetchApp \/ ListInstallations \/ FetchUser \/ Listen
    PROVE  IInv'
PROOF
  <1>1. {"read", "shape", "schema", "invalid", "discovery", "condition", "key", "github",
         "no installation", "listen"} \subseteq Reason \ {"none", "constructor"}
    BY DEF Reason
  <1>2. CASE LoadFails
    BY <1>1, <1>2, FailKeeps DEF LoadFails
  <1>3. CASE DiscoveryFails
    <2>1. Fail("discover", "discovery")
      BY <1>3, IssuerIsGood DEF DiscoveryFails, Discovering
    <2> QED
      BY <1>1, <2>1, FailKeeps
  <1>4. CASE CompileFails
    <2>1. Fail("compile", "condition")
      BY <1>4, PolicyIsGood DEF CompileFails
    <2> QED
      BY <1>1, <2>1, FailKeeps
  <1>5. CASE ReadKey
    <2>1. Proceed("key", "manifest") \/ Fail("key", "key")
      BY <1>5, KeyIsGiven DEF ReadKey
    <2>2. CASE Proceed("key", "manifest")
      BY <2>2, ProceedKeeps DEF AfterCompile, AfterManifest, AfterMint
    <2> QED
      BY <1>1, <2>1, <2>2, FailKeeps
  <1>6. CASE ManifestFails
    BY <1>1, <1>6, FailKeeps DEF ManifestFails
  <1>7. ASSUME NEW step \in AfterManifest, NEW next \in AfterManifest, Proceed(step, next),
               step \in AfterMint => next \in AfterMint
        PROVE  IInv'
    <2>1. Backed
      BY <1>7 DEF Proceed, IInv, GrantsAreBacked
    <2>2. step \in AfterCompile /\ next \in AfterCompile
      BY <1>7 DEF AfterCompile
    <2> QED
      BY <1>7, <2>1, <2>2, ProceedKeeps
  <1>8. {"app", "installation", "mint", "user", "listen", "serving"} = AfterManifest
    BY DEF AfterManifest
  <1>9. "app" \notin AfterMint /\ "installation" \notin AfterMint
        /\ "listen" \in AfterMint /\ "serving" \in AfterMint
    BY DEF AfterMint
  <1>10. CASE FetchApp
    BY <1>1, <1>7, <1>8, <1>9, <1>10, FailKeeps DEF FetchApp, Call
  <1>11. CASE ListInstallations
    BY <1>1, <1>7, <1>8, <1>9, <1>11, FailKeeps DEF ListInstallations, Call
  <1>12. CASE FetchUser
    BY <1>1, <1>7, <1>8, <1>9, <1>12, FailKeeps DEF FetchUser, Call
  <1>13. CASE Listen
    BY <1>1, <1>7, <1>8, <1>9, <1>13, FailKeeps DEF Listen
  <1> QED
    BY <1>2, <1>3, <1>4, <1>5, <1>6, <1>10, <1>11, <1>12, <1>13

LEMMA WorldKeeps ==
    ASSUME IInv, ChangeWorld \/ UNCHANGED vars
    PROVE  IInv'
PROOF
  <1>1. /\ UNCHANGED <<document, pc, reason, config, warned, keyed, compiled, done, checked,
                      minted>>
        /\ manifest' \in Manifests /\ online' \in BOOLEAN
    BY DEF ChangeWorld, vars, IInv, TypeOK
  <1>2. C' = C /\ Cfg' = Cfg
    BY <1>1 DEF C, Cfg
  <1>3. TypeOK'
    BY <1>1, <1>2 DEF IInv, TypeOK
  <1>4. (Backed => Backed')
        /\ (\A n : KeyedUpTo(n) => KeyedUpTo(n)') /\ (\A n : FiledUpTo(n) => FiledUpTo(n)')
    BY <1>1, SameDocument
  <1>5. LoadedIsValid' /\ ConstructorsNeverRefuse' /\ GrantsAreBacked'
    BY <1>1, <1>2, <1>4 DEF IInv, LoadedIsValid, ConstructorsNeverRefuse, GrantsAreBacked
  <1>6. KeysInOrder' /\ PoliciesInOrder'
    <2>1. KeysInOrder /\ PoliciesInOrder
      BY DEF IInv
    <2>2. KeysInOrder'
      BY <1>1, <1>2, <2>1 DEF KeysInOrder, KeyedUpTo
    <2>a. compiled' = compiled /\ pc' = pc /\ done' = done /\ C' = C
      BY <1>1, <1>2
    <2>b. \A n : FiledUpTo(n) => FiledUpTo(n)'
      BY <1>4
    <2>3. PoliciesInOrder'
      BY <2>a, <2>b, <2>1 DEF PoliciesInOrder
    <2> QED
      BY <2>2, <2>3
  <1>7. MintedAreChecked'
    BY <1>1, <1>2 DEF IInv, MintedAreChecked, KeyedUpTo, FiledUpTo, FiledFor, Backed
  <1> QED
    BY <1>3, <1>5, <1>6, <1>7 DEF IInv

LEMMA StepKeeps == IInv /\ [Next]_vars => IInv'
PROOF
  <1> SUFFICES ASSUME IInv, [Next]_vars PROVE IInv'
    OBVIOUS
  <1>1. CASE Killed
    <2>1. "killed" \in Reason \ {"none", "constructor"}
      BY DEF Reason
    <2> QED
      BY <1>1, <2>1, ExitKeeps DEF Killed
  <1> QED
    BY <1>1, LoadKeeps, DiscoverKeeps, AllDiscoveredKeeps, CompileKeeps,
       AllCompiledKeeps, NothingToValidateKeeps, ValidateKeeps, IdentityTokenKeeps,
       StartKeeps, OtherStepsKeep, WorldKeeps DEF Next, Step
-----------------------------------------------------------------------------
(* What follows from the invariant.                                        *)

LEMMA InvariantAlways == Spec => []IInv
  BY InvariantStarts, StepKeeps, PTL DEF Spec

LEMMA ServingIsLoaded ==
    ASSUME IInv, pc = "serving"
    PROVE  /\ Cfg = C /\ Valid(C) /\ warned = Unreferenced(C)
           /\ KeyedUpTo(Len(C.issuers)) /\ FiledUpTo(Len(C.policies)) /\ Backed
  BY CfgIsC DEF IInv, TypeOK, LoadedIsValid, KeysInOrder, PoliciesInOrder, GrantsAreBacked,
     AfterDiscover, AfterCompile, AfterManifest

\* What is filed under one issuer is what the document has for it.
LEMMA FiledIsWritten ==
    ASSUME IInv, FiledUpTo(Len(C.policies)), NEW name \in IssuerName
    PROVE  Range(compiled[name]) = {p \in Range(C.policies) : p.issuer = name}
PROOF
  <1>1. DOMAIN C.policies = 1 .. Len(C.policies)
    BY DefaultsType DEF IInv
  <1> QED
    BY <1>1 DEF FiledUpTo, FiledFor, Range

LEMMA CheckedFollows == IInv => CheckedBeforeUse
PROOF
  <1> SUFFICES ASSUME IInv, minted \/ pc = "serving"
               PROVE  /\ keyed = {Cfg.issuers[n].issuer : n \in DOMAIN Cfg.issuers}
                      /\ UNION {Range(compiled[name]) : name \in IssuerName} = Range(Cfg.policies)
                      /\ \A grant \in Grants : Authority(grant) \subseteq Authority(checked)
    BY DEF CheckedBeforeUse
  <1>1. /\ Cfg = C /\ Valid(C) /\ KeyedUpTo(Len(C.issuers)) /\ FiledUpTo(Len(C.policies))
        /\ Backed
    BY ServingIsLoaded, CfgIsC DEF IInv, MintedAreChecked, LoadedIsValid
  <1>2. keyed = {C.issuers[n].issuer : n \in DOMAIN C.issuers}
    BY <1>1, DefaultsType DEF KeyedUpTo, IInv
  <1>3. \A n \in DOMAIN C.policies : C.policies[n].issuer \in IssuerName
    BY <1>1, NamesAssumption DEF Valid, ValidPolicies, ValidIssuer
  <1>4. \A name \in IssuerName :
            Range(compiled[name]) = {p \in Range(C.policies) : p.issuer = name}
    BY <1>1, FiledIsWritten
  <1>5. UNION {Range(compiled[name]) : name \in IssuerName} = Range(C.policies)
    <2>1. \A p \in Range(C.policies) : p.issuer \in IssuerName
      BY <1>3 DEF Range
    <2> QED
      BY <1>4, <2>1
  <1>6. ASSUME NEW grant \in Grants
        PROVE  Authority(grant) \subseteq Authority(checked)
    <2>1. PICK name \in IssuerName : \E p \in Range(compiled[name]) : grant = p.grant
      BY DEF Grants
    <2>2. PICK p \in Range(C.policies) : grant = p.grant
      BY <1>4, <2>1
    <2> QED
      BY <1>1, <2>2 DEF Backed, Range
  <1> QED
    BY <1>1, <1>2, <1>5, <1>6

LEMMA SilentFollows == IInv => SilentIssuersWereNamed
PROOF
  <1> SUFFICES ASSUME IInv, pc = "serving", NEW n \in DOMAIN Cfg.issuers
               PROVE  LET name == Cfg.issuers[n].name
                      IN  /\ Range(compiled[name])
                               = {p \in Range(Cfg.policies) : p.issuer = name}
                          /\ compiled[name] = <<>> <=> name \in warned
    BY DEF SilentIssuersWereNamed
  <1> DEFINE name == Cfg.issuers[n].name
  <1>1. Cfg = C /\ Valid(C) /\ warned = Unreferenced(C) /\ FiledUpTo(Len(C.policies))
    BY ServingIsLoaded
  <1>2. name \in IssuerName
    BY <1>1, NamesAssumption DEF Valid, ValidIssuer
  <1>3. Range(compiled[name]) = {p \in Range(C.policies) : p.issuer = name}
    <2> HIDE DEF name
    <2> QED
      BY <1>1, <1>2, FiledIsWritten
  <1>4. compiled[name] = <<>> <=> Range(compiled[name]) = {}
    <2>1. compiled[name] \in Seq(PolicyEntry)
      <3> HIDE DEF name
      <3> QED
        BY <1>2 DEF IInv, TypeOK
    <2>2. \A list \in Seq(PolicyEntry) : list = <<>> <=> DOMAIN list = {}
      OBVIOUS
    <2>3. \A list : Range(list) = {} <=> DOMAIN list = {}
      BY DEF Range
    <2> HIDE DEF name
    <2> QED
      BY <2>1, <2>2, <2>3
  <1>5. name \in warned <=> ~\E p \in Range(C.policies) : p.issuer = name
    BY <1>1 DEF Unreferenced, Range
  <1> QED
    BY <1>1, <1>3, <1>4, <1>5

LEMMA SeparateFollows == IInv => IssuersAreSeparate
PROOF
  <1> SUFFICES ASSUME IInv, pc = "serving", NEW m \in DOMAIN C.issuers
               PROVE  LET iss == C.issuers[m]
                      IN  /\ iss.preset = "github" <=> iss.issuer \in OnGitHub
                          /\ iss.preset = "github" => iss.claims = GitHubClaims
                          /\ iss.preset # "github" =>
                                \E name \in DOMAIN iss.require : iss.require[name] \ {""} # {}
                          /\ \A n \in DOMAIN C.issuers :
                                iss.issuer = C.issuers[n].issuer \/ iss.name = C.issuers[n].name
                                    => m = n
    BY ServingIsLoaded DEF IssuersAreSeparate
  <1>1. Valid(C)
    BY ServingIsLoaded
  <1> DEFINE iss == C.issuers[m]
  <1>2. PlacedRight(iss) /\ ClaimsAreRight(iss)
    BY <1>1 DEF Valid, ValidIssuer
  <1>3. \A n \in DOMAIN C.issuers :
            iss.issuer = C.issuers[n].issuer \/ iss.name = C.issuers[n].name => m = n
    BY <1>1 DEF Valid, IssuersDiffer
  <1> HIDE DEF iss
  <1>4. iss.preset = "github" <=> iss.issuer \in OnGitHub
    BY <1>2, URLAssumption DEF PlacedRight, IsPreset
  <1>5. iss.preset = "github" => iss.claims = GitHubClaims
    BY <1>2 DEF ClaimsAreRight, IsPreset
  <1>6. iss.preset # "github" => \E name \in DOMAIN iss.require : iss.require[name] \ {""} # {}
    BY <1>2 DEF ClaimsAreRight, IsPreset
  <1> USE DEF iss
  <1> QED
    BY <1>3, <1>4, <1>5, <1>6

LEMMA WrittenFollows == IInv => WrittenIsServed
PROOF
  <1> SUFFICES ASSUME IInv, pc = "serving"
               PROVE  /\ \A skew \in document.clockSkewSeconds :
                            C.clockSkewSeconds = IF skew = 0 THEN 60 ELSE skew
                      /\ \A max \in document.maxRepositories : C.maxRepositories = max
                      /\ \A n \in DOMAIN document.issuers :
                            LET entry == document.issuers[n]
                                iss == C.issuers[n]
                            IN  /\ \A max \in entry.maxTokenLifetimeSeconds :
                                      iss.maxTokenLifetimeSeconds = max
                                /\ entry.issuer # "" => iss.issuer = entry.issuer
                                /\ entry.algorithms # <<>> => iss.algorithms = entry.algorithms
                                /\ entry.claims # <<>> => iss.claims = entry.claims
    BY ServingIsLoaded DEF WrittenIsServed
  <1>1. FitsSchema(document)
    BY DEF IInv, TypeOK, LoadedIsValid
  <1>2. document \in Document
    BY DocumentsAssumption DEF IInv, TypeOK
  <1>3. ASSUME NEW numbers \in Optional, NEW n \in numbers, NEW default
        PROVE  OrDefault(numbers, default) = IF n = 0 THEN default ELSE n
    BY DEF OrDefault, Optional
  <1>4. document.clockSkewSeconds \in Optional /\ document.maxRepositories \in Optional
    BY <1>2 DEF Document
  <1>5. \A skew \in document.clockSkewSeconds :
            C.clockSkewSeconds = IF skew = 0 THEN 60 ELSE skew
    BY <1>3, <1>4 DEF C, ApplyDefaults
  <1>6. \A max \in document.maxRepositories : max \in Int /\ max >= 1
    BY <1>1, <1>4 DEF FitsSchema, Optional
  <1>7. \A max \in document.maxRepositories : C.maxRepositories = max
    BY <1>3, <1>4, <1>6 DEF C, ApplyDefaults
  <1>8. ASSUME NEW n \in DOMAIN document.issuers
        PROVE  LET entry == document.issuers[n]
                   iss == C.issuers[n]
               IN  /\ \A max \in entry.maxTokenLifetimeSeconds :
                         iss.maxTokenLifetimeSeconds = max
                   /\ entry.issuer # "" => iss.issuer = entry.issuer
                   /\ entry.algorithms # <<>> => iss.algorithms = entry.algorithms
                   /\ entry.claims # <<>> => iss.claims = entry.claims
    <2> DEFINE entry == document.issuers[n]
    <2>1. C.issuers[n] = ResolvedIssuer(entry)
      BY DEF C, ApplyDefaults
    <2>2. document.issuers \in Seq(IssuerEntry)
      BY <1>2 DEF Document
    <2>3. entry \in IssuerEntry
      BY <2>2
    <2>4. IssuerFitsSchema(entry)
      BY <1>1 DEF FitsSchema
    <2> HIDE DEF entry
    <2>5. \A max \in entry.maxTokenLifetimeSeconds : max \in Int /\ max >= 1
      <3>1. entry.maxTokenLifetimeSeconds \subseteq 1 .. MaxTokenLifetimeLimit
        BY <2>4, Zenon DEF IssuerFitsSchema
      <3> QED
        BY <3>1, LifetimesArePositive, Zenon
    <2>6. entry.maxTokenLifetimeSeconds \in Optional
      BY <2>3 DEF IssuerEntry
    <2>7. ResolvedIssuer(entry).maxTokenLifetimeSeconds
              = OrDefault(entry.maxTokenLifetimeSeconds, 3600)
      BY DEF ResolvedIssuer
    <2>8. \A max \in entry.maxTokenLifetimeSeconds :
              ResolvedIssuer(entry).maxTokenLifetimeSeconds = max
      BY <1>3, <2>5, <2>6, <2>7
    <2>9. /\ entry.issuer # "" => ResolvedIssuer(entry).issuer = entry.issuer
          /\ entry.algorithms # <<>> => ResolvedIssuer(entry).algorithms = entry.algorithms
          /\ entry.claims # <<>> => ResolvedIssuer(entry).claims = entry.claims
      BY DEF ResolvedIssuer
    <2>10. /\ \A max \in entry.maxTokenLifetimeSeconds :
                 C.issuers[n].maxTokenLifetimeSeconds = max
           /\ entry.issuer # "" => C.issuers[n].issuer = entry.issuer
           /\ entry.algorithms # <<>> => C.issuers[n].algorithms = entry.algorithms
           /\ entry.claims # <<>> => C.issuers[n].claims = entry.claims
      BY <2>1, <2>8, <2>9, Zenon
    <2> USE DEF entry
    <2> QED
      BY <2>10
  <1> QED
    BY <1>5, <1>7, <1>8

\* Start-up keeps its state in its types, wherever it ends.
LEMMA TypeCorrect == Spec => []TypeOK
  BY InvariantAlways, PTL DEF IInv

\* Nothing that config.Load lets through is refused by a constructor later:
\* auth.New, policy.New and githubapp.New agree with validate.
THEOREM ConstructorsAgree == Spec => []ConstructorsNeverRefuse
  BY InvariantAlways, PTL DEF IInv

\* Whatever the App loses or gains meanwhile, no token is created and no
\* request served before every issuer has keys, every policy is compiled and
\* the App was seen to hold what the policies grant.
THEOREM AlwaysCheckedBeforeUse == Spec => []CheckedBeforeUse
  BY InvariantAlways, CheckedFollows, PTL

\* Issuers that serve are apart: GitHub's host is the presets' only.
THEOREM IssuersAlwaysSeparate == Spec => []IssuersAreSeparate
  BY InvariantAlways, SeparateFollows, PTL

\* Lint names exactly the issuers for which the engine holds no policy.
THEOREM SilentIssuersAlwaysNamed == Spec => []SilentIssuersWereNamed
  BY InvariantAlways, SilentFollows, PTL

\* No default takes the place of what the operator has written.
THEOREM WrittenIsAlwaysServed == Spec => []WrittenIsServed
  BY InvariantAlways, WrittenFollows, PTL
-----------------------------------------------------------------------------
(* What a serving broker hands to its parts.  The modules about the parts   *)
(* take their configuration as constants and assume of them what start-up   *)
(* establishes: TokenVerification in ConfigAssumption, Policies in          *)
(* PolicySetsAssumption and MaxRepositoriesAssumption.                      *)

CompiledAreSound ==
    \A name \in IssuerName : \A p \in Range(compiled[name]) : p.sound

LEMMA CompileKeepsSound ==
    ASSUME IInv, CompiledAreSound, Compile
    PROVE  CompiledAreSound'
PROOF
  <1> DEFINE p == NextPolicy
  <1>1. p.issuer \in IssuerName /\ p \in PolicyEntry /\ p.sound
    BY PolicyIsGood DEF Compile
  <1>2. /\ compiled' = [compiled EXCEPT ![p.issuer] = Append(compiled[p.issuer], p)]
        /\ compiled \in [IssuerName -> Seq(PolicyEntry)]
    BY DEF Compile, IInv, TypeOK
  <1> HIDE DEF p
  <1>3. \A list \in Seq(PolicyEntry) : Range(Append(list, p)) = Range(list) \cup {p}
    BY <1>1 DEF Range
  <1>4. \A name \in IssuerName : Range(compiled'[name]) \subseteq Range(compiled[name]) \cup {p}
    BY <1>1, <1>2, <1>3
  <1> QED
    BY <1>1, <1>4 DEF CompiledAreSound

LEMMA StepKeepsSound ==
    ASSUME IInv, CompiledAreSound, [Next]_vars
    PROVE  CompiledAreSound'
PROOF
  <1>1. CASE Compile
    BY <1>1, CompileKeepsSound
  <1>2. CASE Start
    <2>1. compiled' = [name \in IssuerName |-> <<>>]
      BY <1>2 DEF Start
    <2> QED
      BY <2>1 DEF CompiledAreSound, Range
  <1>3. ~Compile /\ ~Start => compiled' = compiled
    BY DEF Next, Step, Fail, LoadFails, Load, DiscoveryFails, Discover, AllDiscovered,
           CompileFails, AllCompiled, Proceed, ReadKey, NothingToValidate,
           ValidateAppPermissions, ManifestFails, Call, FetchApp, ListInstallations,
           IdentityToken, FetchUser, Listen, Killed, ChangeWorld, vars
  <1> QED
    BY <1>1, <1>2, <1>3 DEF CompiledAreSound

\* config.OIDCIssuer as the authenticator reads it.
AsRead(iss) ==
    [url |-> iss.issuer, audience |-> iss.audience, algorithms |-> Range(iss.algorithms),
     maxTokenLifetime |-> iss.maxTokenLifetimeSeconds, claims |-> Range(iss.claims),
     require |-> [name \in ClaimName |->
                     IF name \in DOMAIN iss.require THEN iss.require[name] ELSE {}]]

\* The issuers by their names, which are how the engine tells them apart.
ServedNames(issuers) == {issuers[n].name : n \in DOMAIN issuers}
ByName(issuers) ==
    [name \in ServedNames(issuers) |->
        AsRead(issuers[CHOOSE n \in DOMAIN issuers : issuers[n].name = name])]

FitIssuer == [url : CanonicalURL, audience : Audience,
              algorithms : (SUBSET AllowedAlgorithms) \ {{}},
              maxTokenLifetime : 1 .. MaxTokenLifetimeLimit,
              claims : (SUBSET PlainClaim) \ {{}}, require : [ClaimName -> SUBSET Text]]

\* The authenticator's part: every issuer under its own name, no two alike.
VerifierIsFit ==
    LET served == ByName(Cfg.issuers) IN
        /\ served \in [ServedNames(Cfg.issuers) -> FitIssuer]
        /\ \A n \in DOMAIN Cfg.issuers : served[Cfg.issuers[n].name] = AsRead(Cfg.issuers[n])
        /\ \A a, b \in ServedNames(Cfg.issuers) : served[a].url = served[b].url => a = b
        /\ ServedNames(Cfg.issuers) # {}
        /\ Cfg.clockSkewSeconds \in 1 .. MaxClockSkewLimit

\* The engine's part: only compiled conditions, only grants of known levels,
\* one policy to a name, and a cap that lets something through.
EngineIsFit ==
    /\ compiled \in [IssuerName -> Seq(PolicyEntry)]
    /\ \A a, b \in IssuerName :
          \A p \in Range(compiled[a]), o \in Range(compiled[b]) :
              /\ p.issuer = a /\ p.sound
              /\ \A k \in Present(p.grant) : ValidKeyLevel(k, p.grant[k])
              /\ p.name = o.name => p = o
    /\ Cfg.maxRepositories \in Nat \ {0}

PartsAreFit == pc = "serving" => VerifierIsFit /\ EngineIsFit

LEMMA DefaultsOfNumbers ==
    ASSUME NEW numbers \in Optional, NEW default
    PROVE  OrDefault(numbers, default) = default
              \/ (OrDefault(numbers, default) \in numbers /\ OrDefault(numbers, default) # 0)
  BY DEF OrDefault, Optional

LEMMA EmptyLists ==
    /\ \A list \in Seq(Algorithm) : list = <<>> <=> DOMAIN list = {}
    /\ \A list \in Seq(ClaimName) : list = <<>> <=> DOMAIN list = {}
  OBVIOUS

LEMMA PresetClaims == GitHubClaims \in Seq(ClaimName)
  BY NamesAssumption

LEMMA ResolvedClaims ==
    ASSUME NEW entry
    PROVE  LET claims == ResolvedIssuer(entry).claims
           IN  claims = GitHubClaims \/ claims = entry.claims
  BY DEF ResolvedIssuer

LEMMA IssuerIsFit ==
    ASSUME TypeOK, Valid(C), NEW n \in DOMAIN C.issuers
    PROVE  AsRead(C.issuers[n]) \in FitIssuer
PROOF
  <1> DEFINE iss == C.issuers[n]
             entry == document.issuers[n]
  <1>1. ValidIssuer(iss) /\ iss = ResolvedIssuer(entry)
    BY DefaultsType DEF Valid
  <1>2. entry \in IssuerEntry
    <2>1. document.issuers \in Seq(IssuerEntry)
      BY DocumentsAssumption DEF TypeOK, Document
    <2>2. DOMAIN C.issuers = DOMAIN document.issuers
      BY DEF C, ApplyDefaults
    <2> QED
      BY <2>1, <2>2
  <1> HIDE DEF iss, entry
  <1>3. /\ iss.issuer \in CanonicalURL /\ iss.audience # ""
        /\ Range(iss.algorithms) \subseteq AllowedAlgorithms
        /\ ClaimsAreRight(iss)
    BY <1>1 DEF ValidIssuer
  <1>4. iss.maxTokenLifetimeSeconds \in 1 .. MaxTokenLifetimeLimit
    BY <1>1 DEF ValidIssuer
  <1>5. iss.audience = entry.audience /\ iss.require = entry.require
    BY <1>1 DEF ResolvedIssuer
  <1>6. iss.audience \in Audience /\ iss.require \in RequireMap
    BY <1>2, <1>3, <1>5 DEF IssuerEntry
  <1>7. Range(iss.algorithms) # {}
    <2>1. iss.algorithms # <<>>
      BY <1>1, AlgorithmsAreGiven
    <2>2. iss.algorithms = IF entry.algorithms = <<>> THEN <<"RS256">> ELSE entry.algorithms
      BY <1>1 DEF ResolvedIssuer
    <2>3. entry.algorithms \in Seq(Algorithm)
      BY <1>2 DEF IssuerEntry
    <2>4. DOMAIN <<"RS256">> # {}
      OBVIOUS
    <2>5. DOMAIN iss.algorithms # {}
      BY <2>1, <2>2, <2>3, <2>4, EmptyLists
    <2> QED
      BY <2>5 DEF Range
  <1>8. Range(iss.claims) \subseteq PlainClaim /\ Range(iss.claims) # {}
    <2>1. iss.claims # <<>> /\ Range(iss.claims) \subseteq PlainClaim
      BY <1>3, NamesAssumption DEF ClaimsAreRight
    <2>2. iss.claims = GitHubClaims \/ iss.claims = entry.claims
      BY <1>1, ResolvedClaims
    <2>3. entry.claims \in Seq(ClaimName)
      BY <1>2 DEF IssuerEntry
    <2>4. DOMAIN iss.claims # {}
      BY <2>1, <2>2, <2>3, EmptyLists, PresetClaims, Zenon
    <2> QED
      BY <2>1, <2>4 DEF Range
  <1>9. [name \in ClaimName |-> IF name \in DOMAIN iss.require THEN iss.require[name] ELSE {}]
            \in [ClaimName -> SUBSET Text]
    <2>1. \A name \in DOMAIN iss.require : iss.require[name] \in SUBSET Text
      BY <1>6 DEF RequireMap
    <2> QED
      BY <2>1
  <1>10. AsRead(iss) \in FitIssuer
    <2> DEFINE wanted == [name \in ClaimName |->
                             IF name \in DOMAIN iss.require THEN iss.require[name] ELSE {}]
    <2>1. AsRead(iss) = [url |-> iss.issuer, audience |-> iss.audience,
                         algorithms |-> Range(iss.algorithms),
                         maxTokenLifetime |-> iss.maxTokenLifetimeSeconds,
                         claims |-> Range(iss.claims), require |-> wanted]
      BY DEF AsRead
    <2>2. /\ Range(iss.algorithms) \in (SUBSET AllowedAlgorithms) \ {{}}
          /\ Range(iss.claims) \in (SUBSET PlainClaim) \ {{}}
      BY <1>3, <1>7, <1>8
    <2>3. iss.issuer \in CanonicalURL /\ iss.audience \in Audience
      BY <1>3, <1>6
    <2> HIDE DEF wanted
    <2>4. wanted \in [ClaimName -> SUBSET Text]
      BY <1>9 DEF wanted
    <2> HIDE DEF AllowedAlgorithms, MaxTokenLifetimeLimit
    <2>5. iss.maxTokenLifetimeSeconds \in 1 .. MaxTokenLifetimeLimit
      BY <1>4
    <2> QED
      BY <2>1, <2>2, <2>3, <2>4, <2>5 DEF FitIssuer
  <1> QED
    BY <1>10 DEF iss

LEMMA VerifierFollows == IInv /\ pc = "serving" => VerifierIsFit
PROOF
  <1> SUFFICES ASSUME IInv, pc = "serving" PROVE VerifierIsFit
    OBVIOUS
  <1>1. Cfg = C /\ Valid(C)
    BY ServingIsLoaded
  <1>2. \A m, n \in DOMAIN C.issuers :
            C.issuers[m].name = C.issuers[n].name \/ C.issuers[m].issuer = C.issuers[n].issuer
                => m = n
    BY <1>1 DEF Valid, IssuersDiffer
  <1>3. \A n \in DOMAIN C.issuers : ByName(C.issuers)[C.issuers[n].name] = AsRead(C.issuers[n])
    BY <1>2 DEF ByName, ServedNames
  <1>4. \A n \in DOMAIN C.issuers : AsRead(C.issuers[n]) \in FitIssuer
    BY <1>1, IssuerIsFit DEF IInv
  <1>5. ByName(C.issuers) \in [ServedNames(C.issuers) -> FitIssuer]
    <2>1. \A name \in ServedNames(C.issuers) : ByName(C.issuers)[name] \in FitIssuer
      BY <1>3, <1>4 DEF ServedNames
    <2> QED
      BY <2>1 DEF ByName
  <1>6. \A a, b \in ServedNames(C.issuers) :
            ByName(C.issuers)[a].url = ByName(C.issuers)[b].url => a = b
    <2>1. \A n \in DOMAIN C.issuers :
              ByName(C.issuers)[C.issuers[n].name].url = C.issuers[n].issuer
      <3>1. \A iss : AsRead(iss).url = iss.issuer
        BY DEF AsRead
      <3> QED
        BY <1>3, <3>1, Zenon
    <2> QED
      BY <1>2, <2>1 DEF ServedNames
  <1>7. ServedNames(C.issuers) # {}
    <2>1. C.issuers # <<>> /\ C.issuers \in Seq(Range(C.issuers))
      BY <1>1, DefaultsType DEF Valid, IInv
    <2>2. DOMAIN C.issuers # {}
      BY <2>1
    <2> QED
      BY <2>2 DEF ServedNames
  <1>8. C.clockSkewSeconds \in 1 .. MaxClockSkewLimit
    <2>1. C.clockSkewSeconds = OrDefault(document.clockSkewSeconds, 60)
      BY DEF C, ApplyDefaults
    <2>2. document.clockSkewSeconds \in Optional
      BY DocumentsAssumption DEF IInv, TypeOK, Document
    <2>3. C.clockSkewSeconds # 0
      BY <2>1, <2>2, DefaultsOfNumbers
    <2>4. C.clockSkewSeconds \in 0 .. MaxClockSkewLimit
      BY <1>1 DEF Valid
    <2> QED
      BY <2>3, <2>4 DEF MaxClockSkewLimit
  <1> QED
    BY <1>1, <1>3, <1>5, <1>6, <1>7, <1>8 DEF VerifierIsFit

LEMMA EngineFollows == IInv /\ CompiledAreSound /\ pc = "serving" => EngineIsFit
PROOF
  <1> SUFFICES ASSUME IInv, CompiledAreSound, pc = "serving" PROVE EngineIsFit
    OBVIOUS
  <1>1. Cfg = C /\ Valid(C) /\ FiledUpTo(Len(C.policies))
    BY ServingIsLoaded
  <1>2. \A name \in IssuerName :
            Range(compiled[name]) = {p \in Range(C.policies) : p.issuer = name}
    BY <1>1, FiledIsWritten
  <1>3. \A p, o \in Range(C.policies) : p.name = o.name => p = o
    BY <1>1 DEF Valid, ValidPolicies, Range
  <1>4. \A p \in Range(C.policies) : \A k \in Present(p.grant) : ValidKeyLevel(k, p.grant[k])
    BY <1>1 DEF Valid, ValidPolicies, Range
  <1>5. Cfg.maxRepositories \in Nat \ {0}
    <2>1. C.maxRepositories = OrDefault(document.maxRepositories, 256)
      BY DEF C, ApplyDefaults
    <2>2. document.maxRepositories \in Optional
      BY DocumentsAssumption DEF IInv, TypeOK, Document
    <2>3. FitsSchema(document)
      BY DEF IInv, TypeOK, LoadedIsValid
    <2>4. \A max \in document.maxRepositories : max \in Int /\ max >= 1
      BY <2>2, <2>3 DEF FitsSchema, Optional
    <2>5. C.maxRepositories = 256 \/ C.maxRepositories \in document.maxRepositories
      BY <2>1, <2>2, DefaultsOfNumbers
    <2> QED
      BY <1>1, <2>4, <2>5
  <1>6. compiled \in [IssuerName -> Seq(PolicyEntry)]
    BY DEF IInv, TypeOK
  <1> QED
    BY <1>2, <1>3, <1>4, <1>5, <1>6 DEF EngineIsFit, CompiledAreSound

\* Whatever document a broker serves with, its parts get what their models
\* assume: issuers with keys of their own and strict claims, and policies whose
\* conditions compiled, filed under their own issuer and granting known levels.
THEOREM ServingPartsAreFit == Spec => []PartsAreFit
PROOF
  <1>1. Init => CompiledAreSound
    BY DEF Init, CompiledAreSound, Range
  <1>2. IInv /\ CompiledAreSound => PartsAreFit
    BY VerifierFollows, EngineFollows DEF PartsAreFit
  <1> QED
    BY <1>1, <1>2, StepKeepsSound, InvariantAlways, PTL DEF Spec
-----------------------------------------------------------------------------
(* The safe part of EveryStartEnds: a start has only so far to go.         *)

StepOf(place) ==
    CASE place = "load"                      -> 0
      [] place = "discover"                  -> 1
      [] place = "compile"                   -> 2
      [] place = "key"                       -> 3
      [] place = "manifest"                  -> 4
      [] place = "app"                       -> 5
      [] place = "installation"              -> 6
      [] place = "mint"                      -> 7
      [] place = "user"                      -> 8
      [] place = "listen"                    -> 9
      [] place \in {"serving", "exited"}     -> 10

Later(from, to) == StepOf(from) < StepOf(to)

\* One more issuer or policy of the list that the loop goes through.
OneDone(list) == pc' = pc /\ done' = done + 1 /\ done' =< Len(list)

GoesOn ==
    \/ Later(pc, pc')
    \/ pc = "discover" /\ OneDone(Cfg.issuers)
    \/ pc = "compile" /\ OneDone(Cfg.policies)

LEMMA InOrder ==
    /\ Later("load", "discover") /\ Later("discover", "compile") /\ Later("compile", "key")
    /\ Later("key", "manifest") /\ Later("manifest", "app") /\ Later("app", "installation")
    /\ Later("installation", "mint") /\ Later("mint", "user") /\ Later("user", "listen")
    /\ Later("listen", "serving")
    /\ \A place \in Loading : Later(place, "exited")
PROOF
  <1> USE DEF Later, StepOf
  <1>1. /\ Later("load", "discover") /\ Later("discover", "compile")
        /\ Later("compile", "key") /\ Later("key", "manifest") /\ Later("manifest", "app")
    OBVIOUS
  <1>2. /\ Later("app", "installation") /\ Later("installation", "mint")
        /\ Later("mint", "user") /\ Later("user", "listen") /\ Later("listen", "serving")
    OBVIOUS
  <1>3. /\ Later("load", "exited") /\ Later("discover", "exited")
        /\ Later("compile", "exited") /\ Later("key", "exited")
        /\ Later("manifest", "exited") /\ Later("app", "exited")
        /\ Later("installation", "exited") /\ Later("mint", "exited")
        /\ Later("user", "exited") /\ Later("listen", "exited")
    OBVIOUS
  <1> HIDE DEF Later
  <1> QED
    BY <1>1, <1>2, <1>3 DEF Loading

LEMMA FailGoesOn ==
    ASSUME NEW step \in Loading, NEW why, Fail(step, why)
    PROVE  GoesOn
  BY InOrder DEF Fail, Exit, GoesOn

LEMMA StartsStep == IInv /\ Step => GoesOn
PROOF
  <1> SUFFICES ASSUME IInv, Step PROVE GoesOn
    OBVIOUS
  <1>1. ASSUME NEW from, NEW to, pc = from, Go(to), Later(from, to) PROVE GoesOn
    BY <1>1 DEF Go, GoesOn
  <1>2. ASSUME NEW from, NEW to, Proceed(from, to), Later(from, to) PROVE GoesOn
    BY <1>1, <1>2 DEF Proceed
  <1>3. ASSUME NEW step \in Loading, NEW why, pc = step, Exit(why) PROVE GoesOn
    BY <1>3, InOrder DEF Exit, GoesOn
  <1>4. CASE LoadFails \/ DiscoveryFails \/ CompileFails \/ ManifestFails
    BY <1>4, FailGoesOn DEF LoadFails, DiscoveryFails, CompileFails, ManifestFails, Loading
  <1>5. CASE Load
    BY <1>1, <1>5, InOrder DEF Load
  <1>6. CASE Discover
    <2>1. config # <<>> /\ Cfg = C
      BY <1>6, CfgIsC DEF Discover, Discovering, IInv, TypeOK
    <2>2. pc = "discover" /\ pc' = pc /\ done' = done + 1 /\ done < Len(C.issuers)
      BY <1>6, <2>1 DEF Discover, Discovering
    <2>3. done \in Nat /\ Len(C.issuers) \in Nat
      BY DefaultsType DEF IInv, TypeOK
    <2>4. done' =< Len(C.issuers)
      BY <2>2, <2>3
    <2> QED
      BY <2>1, <2>2, <2>4 DEF GoesOn, OneDone
  <1>7. CASE AllDiscovered
    BY <1>1, <1>3, <1>7, InOrder DEF AllDiscovered, Loading
  <1>8. CASE Compile
    <2>1. config # <<>> /\ Cfg = C
      BY <1>8, CfgIsC DEF Compile, Compiling, IInv, TypeOK
    <2>2. pc = "compile" /\ pc' = pc /\ done' = done + 1 /\ done < Len(C.policies)
      BY <1>8, <2>1 DEF Compile, Compiling
    <2>3. done \in Nat /\ Len(C.policies) \in Nat
      BY DefaultsType DEF IInv, TypeOK
    <2>4. done' =< Len(C.policies)
      BY <2>2, <2>3
    <2> QED
      BY <2>1, <2>2, <2>4 DEF GoesOn, OneDone
  <1>9. CASE AllCompiled
    BY <1>1, <1>9, InOrder DEF AllCompiled
  <1>10. CASE ReadKey
    <2>1. Proceed("key", "manifest") \/ \E why : Fail("key", why)
      BY <1>10 DEF ReadKey
    <2> QED
      BY <1>2, <2>1, InOrder, FailGoesOn DEF Loading
  <1>11. CASE NothingToValidate
    BY <1>2, <1>11, InOrder DEF NothingToValidate
  <1>12. CASE ValidateAppPermissions
    BY <1>1, <1>3, <1>12, InOrder DEF ValidateAppPermissions, Loading
  <1>13. CASE FetchApp \/ FetchUser
    BY <1>2, <1>13, InOrder, FailGoesOn DEF FetchApp, FetchUser, Call, Loading
  <1>14. CASE ListInstallations
    BY <1>2, <1>14, InOrder, FailGoesOn DEF ListInstallations, Call, Loading
  <1>15. CASE IdentityToken
    BY <1>1, <1>3, <1>15, InOrder DEF IdentityToken, Loading
  <1>16. CASE Listen
    BY <1>2, <1>16, InOrder, FailGoesOn DEF Listen, Loading
  <1> QED
    BY <1>4, <1>5, <1>6, <1>7, <1>8, <1>9, <1>10, <1>11, <1>12, <1>13, <1>14, <1>15, <1>16
       DEF Step

\* A start only goes on: every step of run leads to a later one, or is done
\* with one more issuer or policy of a list it has read.  No step is tried
\* again, so their lengths bound the start.
THEOREM StartsOnlyGoOn == Spec => [][Step => GoesOn]_vars
PROOF
  <1>1. IInv /\ [Next]_vars => [Step => GoesOn]_vars
    BY StartsStep
  <1> QED
    BY <1>1, InvariantAlways, PTL DEF Spec
================================================================================
