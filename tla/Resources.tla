------------------------------ MODULE Resources ------------------------------
(***************************************************************************)
(* internal/resource: from the strings of a request to canonical resources *)
(* of one kind and one owner.                                              *)
(*                                                                         *)
(* A resource string is abstracted to what the parser cuts it into: a known *)
(* prefix before the first ":" (or none: an unknown prefix stays part of   *)
(* the head), the text before the first "/" and the text after it.  The    *)
(* regular expressions and length limits are the sets of texts that        *)
(* requireOwner, requireRepoName and requireSlug accept; a Text in none of *)
(* them stands for everything they refuse, the empty string included.      *)
(***************************************************************************)
EXTENDS Naturals, Sequences

CONSTANTS Text, Login, RepoName, Slug

ASSUME TextAssumption == Login \cup RepoName \cup Slug \subseteq Text

Kind == {"repo", "org", "enterprise"}
NoPrefix == "no prefix"
NoSlash == "no slash"
NoName == "no name"

ASSUME NamesAssumption == NoSlash \notin Text /\ NoName \notin Text

ResourceString == [prefix : Kind \cup {NoPrefix},
                   head   : Text,
                   tail   : Text \cup {NoSlash}]

ParsedResource == [kind : Kind, owner : Login \cup Slug, name : RepoName \cup {NoName}]
-----------------------------------------------------------------------------
(* Parse.                                                                  *)

\* splitOwnerName: "owner/name", both parts valid.
IsOwnerName(s) == s.head \in Login /\ s.tail \in RepoName

\* Without a known prefix only the old "owner/repo" form is left.
IsRepo(s) == s.prefix \in {"repo", NoPrefix} /\ IsOwnerName(s)
IsOrg(s) == s.prefix = "org" /\ s.tail = NoSlash /\ s.head \in Login
IsEnterprise(s) == s.prefix = "enterprise" /\ s.tail = NoSlash /\ s.head \in Slug

Parses(s) == IsRepo(s) \/ IsOrg(s) \/ IsEnterprise(s)

Parse(s) == [kind  |-> IF IsRepo(s) THEN "repo" ELSE s.prefix,
             owner |-> s.head,
             name  |-> IF IsRepo(s) THEN s.tail ELSE NoName]

\* The canonical string is as good as the triple it is printed from: neither
\* an owner nor a prefix can hold the ":" and the "/" that separate them.
Raw(r) == <<r.kind, r.owner, r.name>>

CanonicalString ==
    ({"repo"} \X Login \X RepoName)
        \cup ({"org"} \X Login \X {NoName})
        \cup ({"enterprise"} \X Slug \X {NoName})
-----------------------------------------------------------------------------
(* ParseAll and the accessors, on the values of the "resource" parameter.  *)

\* (Seeded error: the owners are not compared.)
ShareKind(rs) == \A n \in DOMAIN rs : rs[n].kind = rs[1].kind
ShareKindAndOwner(rs) ==
    \A n \in DOMAIN rs : rs[n].kind = rs[1].kind /\ rs[n].owner = rs[1].owner

SingleUnlessRepo(rs) == rs[1].kind = "repo" \/ Len(rs) = 1

ParseAll(values) == [n \in 1 .. Len(values) |-> Parse(values[n])]

ParsesAll(values) ==
    /\ values # <<>>
    /\ \A n \in DOMAIN values : Parses(values[n])
    /\ ShareKindAndOwner(ParseAll(values))
    /\ SingleUnlessRepo(ParseAll(values))

Owner(rs) == rs[1].owner
RepoShortNames(rs) == [n \in 1 .. Len(rs) |-> rs[n].name]
RawStrings(rs) == [n \in 1 .. Len(rs) |-> Raw(rs[n])]
==============================================================================
