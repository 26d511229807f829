------------------------------- MODULE Startup --------------------------------
(***************************************************************************)
(* run in main.go, from the document to the listening server: each step    *)
(* may end the process, and each call to an issuer or to GitHub may fail   *)
(* or run into its timeout.  The process is started again, by hand or by   *)
(* whatever supervises it, with the same document or another.              *)
(***************************************************************************)
EXTENDS Configuration

CONSTANT Manifests  \* permissions the GitHub App may have

ASSUME ManifestsAssumption == Manifests \subseteq PermissionMap

VARIABLES
    document,  \* what the operator has written
    manifest,  \* GitHub: the App's permissions
    online,    \* whether calls to the outside are answered
    pc,        \* what run does next, "serving", or "exited"
    reason,    \* why it exited
    config,    \* <<>> or, once loaded, <<cfg>>
    warned,    \* issuers the lint warning named
    keyed,     \* auth.Authenticator: the URLs of issuers with a key set
    compiled,  \* policy.Engine: the compiled policies of each issuer, by name
    done,      \* how many issuers or policies the current loop is done with
    checked,   \* the App's permissions that ValidateAppPermissions was shown
    minted     \* GitHub: whether this process has had a token created

vars == <<document, manifest, online, pc, reason, config, warned, keyed, compiled,
          done, checked, minted>>
world == <<document, manifest, online>>

Loading == {"load", "discover", "compile", "key", "manifest", "app", "installation",
            "mint", "user", "listen"}

\* "constructor": a component refuses what config.Load has let through.
Reason == {"none", "read", "shape", "schema", "invalid", "constructor", "discovery",
           "condition", "key", "github", "gaps", "no installation", "listen", "killed"}

Init ==
    /\ document \in Documents
    /\ manifest \in Manifests
    /\ online \in BOOLEAN
    /\ pc = "load"
    /\ reason = "none"
    /\ config = <<>>
    /\ warned = {}
    /\ keyed = {}
    /\ compiled = [name \in IssuerName |-> <<>>]
    /\ done = 0
    /\ checked = NoPermissions
    /\ minted = FALSE
-----------------------------------------------------------------------------
Exit(why) == pc' = "exited" /\ reason' = why
Go(step) == pc' = step /\ reason' = "none"

\* At a step, the process ends and leaves everything else as it was.
Fail(step, why) ==
    /\ pc = step
    /\ Exit(why)
    /\ UNCHANGED <<world, config, warned, keyed, compiled, done, checked, minted>>

Cfg == config[1]

LoadFails ==
    \/ Fail("load", "read")
    \/ SingleIssuerShape(document) /\ Fail("load", "shape")
    \/ ~SingleIssuerShape(document) /\ ~FitsSchema(document) /\ Fail("load", "schema")
    \/ /\ ~SingleIssuerShape(document) /\ FitsSchema(document)
       /\ ~Valid(ApplyDefaults(document))
       /\ Fail("load", "invalid")

Load ==
    /\ pc = "load"
    /\ ~SingleIssuerShape(document) /\ FitsSchema(document)
    /\ Valid(ApplyDefaults(document))
    /\ config' = <<ApplyDefaults(document)>>
    /\ warned' = Unreferenced(ApplyDefaults(document))
    /\ Go("discover")
    /\ UNCHANGED <<world, keyed, compiled, done, checked, minted>>
-----------------------------------------------------------------------------
(* auth.New: the issuers in their order.                                   *)

NextIssuer == Cfg.issuers[done + 1]

Discovering == pc = "discover" /\ done < Len(Cfg.issuers)

\* What newAuthenticator would not work with.
BadIssuer(iss) ==
    \/ iss.issuer = "" \/ iss.audience = "" \/ iss.algorithms = <<>>
    \/ iss.maxTokenLifetimeSeconds =< 0
    \/ iss.issuer \in keyed

\* (Seeded error: discovery is tried again and again.)
DiscoveryRetried ==
    /\ Discovering
    /\ UNCHANGED vars

DiscoveryFails ==
    /\ Discovering
    /\ Fail("discover", IF BadIssuer(NextIssuer) THEN "constructor" ELSE "discovery")

Discover ==
    /\ Discovering
    /\ online
    /\ ~BadIssuer(NextIssuer)
    /\ keyed' = keyed \cup {NextIssuer.issuer}
    /\ done' = done + 1
    /\ UNCHANGED <<world, pc, reason, config, warned, compiled, checked, minted>>

\* No issuers at all are refused.
AllDiscovered ==
    /\ pc = "discover" /\ done = Len(Cfg.issuers)
    /\ IF Cfg.issuers = <<>> THEN Exit("constructor") ELSE Go("compile")
    /\ done' = 0
    /\ UNCHANGED <<world, config, warned, keyed, compiled, checked, minted>>
-----------------------------------------------------------------------------
(* policy.New: the policies in their order.                                *)

NextPolicy == Cfg.policies[done + 1]

Compiling == pc = "compile" /\ done < Len(Cfg.policies)

KnownIssuer(p) == \E n \in DOMAIN Cfg.issuers : Cfg.issuers[n].name = p.issuer

CompileFails ==
    /\ Compiling
    /\ ~KnownIssuer(NextPolicy) \/ ~NextPolicy.sound
    /\ Fail("compile", IF KnownIssuer(NextPolicy) THEN "condition" ELSE "constructor")

Compile ==
    /\ Compiling
    /\ KnownIssuer(NextPolicy) /\ NextPolicy.sound
    /\ compiled' = [compiled EXCEPT ![NextPolicy.issuer] = Append(@, NextPolicy)]
    /\ done' = done + 1
    /\ UNCHANGED <<world, pc, reason, config, warned, keyed, checked, minted>>

AllCompiled ==
    /\ pc = "compile" /\ done = Len(Cfg.policies)
    /\ Go("key")
    /\ done' = 0
    /\ UNCHANGED <<world, config, warned, keyed, compiled, checked, minted>>
-----------------------------------------------------------------------------
(* githubapp.New, ValidateAppPermissions and FetchAppIdentity.             *)

Proceed(step, next) ==
    /\ pc = step
    /\ Go(next)
    /\ UNCHANGED <<world, config, warned, keyed, compiled, done, checked, minted>>

\* The path comes first; what is found there may be no key.
ReadKey ==
    /\ pc = "key"
    /\ IF Cfg.keySources = {}
       THEN Fail("key", "constructor")
       ELSE Proceed("key", "manifest") \/ Fail("key", "key")

RequiredPerms == AggregateGrantPermissions(Cfg.policies)

\* Without policies GitHub is not asked; a policy always grants something.
NothingToValidate ==
    pc = "manifest" /\ Present(RequiredPerms) = {} /\ Proceed("manifest", "app")

ValidateAppPermissions ==
    /\ pc = "manifest"
    /\ online
    /\ Present(RequiredPerms) # {}
    /\ IF Gaps(RequiredPerms, manifest) = {} THEN Go("app") ELSE Exit("gaps")
    /\ checked' = manifest
    /\ UNCHANGED <<world, config, warned, keyed, compiled, done, minted>>

ManifestFails ==
    pc = "manifest" /\ Present(RequiredPerms) # {} /\ Fail("manifest", "github")

\* A call that is answered lets run proceed; it may fail in any case.
Call(step, next) == (online /\ Proceed(step, next)) \/ Fail(step, "github")

FetchApp == Call("app", "installation")

\* The first installation, if there is any.
ListInstallations ==
    Call("installation", "mint") \/ (online /\ Fail("installation", "no installation"))

\* The token may have been created although the call seems to have failed.
IdentityToken ==
    /\ pc = "mint"
    /\ \/ /\ online /\ Go("user")
          /\ minted' = TRUE
       \/ Exit("github") /\ minted' \in {minted, TRUE}
    /\ UNCHANGED <<world, config, warned, keyed, compiled, done, checked>>

FetchUser == Call("user", "listen")

Listen == Proceed("listen", "serving") \/ Fail("listen", "listen")
-----------------------------------------------------------------------------
Killed ==
    /\ pc # "exited"
    /\ Exit("killed")
    /\ UNCHANGED <<world, config, warned, keyed, compiled, done, checked, minted>>

Start ==
    /\ pc = "exited"
    /\ document' \in Documents
    /\ Go("load")
    /\ config' = <<>>
    /\ warned' = {}
    /\ keyed' = {}
    /\ compiled' = [name \in IssuerName |-> <<>>]
    /\ done' = 0
    /\ checked' = NoPermissions
    /\ minted' = FALSE
    /\ UNCHANGED <<manifest, online>>

ChangeWorld ==
    /\ manifest' \in Manifests
    /\ online' \in BOOLEAN
    /\ UNCHANGED <<document, pc, reason, config, warned, keyed, compiled, done, checked,
                   minted>>

Step ==
    \/ LoadFails \/ Load
    \/ DiscoveryFails \/ Discover \/ AllDiscovered
    \/ CompileFails \/ Compile \/ AllCompiled
    \/ ReadKey
    \/ NothingToValidate \/ ValidateAppPermissions \/ ManifestFails
    \/ FetchApp \/ ListInstallations \/ IdentityToken \/ FetchUser
    \/ Listen

Next == Step \/ Killed \/ Start \/ ChangeWorld

Spec == Init /\ [][Next]_vars

\* run goes on, and every call it makes has a timeout (15 s, 30 s).
FairSpec == Spec /\ WF_vars(Step)
-----------------------------------------------------------------------------
(* Types; what is set at which step.                                       *)
TypeOK ==
    /\ document \in Documents
    /\ manifest \in Manifests
    /\ online \in BOOLEAN
    /\ pc \in Loading \cup {"serving", "exited"}
    /\ reason \in Reason
    /\ pc = "exited" <=> reason # "none"
    /\ config = <<>> \/ config = <<ApplyDefaults(document)>>
    /\ pc \notin {"load", "exited"} => config # <<>>
    /\ warned \subseteq IssuerName
    /\ keyed \subseteq URL
    /\ compiled \in [IssuerName -> Seq(PolicyEntry)]
    /\ done \in Nat
    /\ pc \notin {"discover", "exited"} => done =< IF pc = "compile" THEN Len(Cfg.policies) ELSE 0
    /\ checked \in PermissionMap
    /\ minted \in BOOLEAN

\* What the engine holds, of all issuers.
Grants == UNION {{p.grant : p \in Range(compiled[name])} : name \in IssuerName}

(* config.Load lets nothing through that auth.New, policy.New or            *)
(* githubapp.New then refuses as configuration: a document that loads can   *)
(* only fail by its conditions, its key and the network.                    *)
ConstructorsNeverRefuse == reason # "constructor"

(* A token is created at GitHub, be it the one of FetchAppIdentity, and a   *)
(* request served only when every issuer has keys, every policy is compiled *)
(* and the App has been seen to hold all that the policies grant.           *)
CheckedBeforeUse ==
    minted \/ pc = "serving" =>
        /\ keyed = {Cfg.issuers[n].issuer : n \in DOMAIN Cfg.issuers}
        /\ UNION {Range(compiled[name]) : name \in IssuerName} = Range(Cfg.policies)
        /\ \A grant \in Grants : Authority(grant) \subseteq Authority(checked)

(* Whoever holds a token of GitHub Actions is judged by the rules of the    *)
(* preset: no other entry reaches GitHub's host, one URL has one entry, and *)
(* an entry that is no preset pins a claim (validateIssuer after the        *)
(* defaults of applyDefaults).                                              *)
IssuersAreSeparate ==
    pc = "serving" =>
        \A m \in DOMAIN Cfg.issuers :
            LET iss == Cfg.issuers[m]
            IN  /\ iss.preset = "github" <=> iss.issuer \in OnGitHub
                /\ iss.preset = "github" => iss.claims = GitHubClaims
                /\ iss.preset # "github" =>
                      \E name \in DOMAIN iss.require : iss.require[name] \ {""} # {}
                /\ \A n \in DOMAIN Cfg.issuers :
                      iss.issuer = Cfg.issuers[n].issuer \/ iss.name = Cfg.issuers[n].name
                          => m = n

(* The engine files every policy under its issuer, and Lint has warned of   *)
(* exactly the issuers for which it holds none.                             *)
SilentIssuersWereNamed ==
    pc = "serving" =>
        \A n \in DOMAIN Cfg.issuers :
            LET name == Cfg.issuers[n].name
            IN  /\ Range(compiled[name]) = {p \in Range(Cfg.policies) : p.issuer = name}
                /\ compiled[name] = <<>> <=> name \in warned

(* What the operator has written is what serves: the defaults fill in what  *)
(* was left out and nothing else, since the schema refuses the 0 that they  *)
(* would take for left out.  The one number it allows to be 0 is the skew,  *)
(* which then is a minute (validateSchema against applyDefaults).           *)
WrittenIsServed ==
    pc = "serving" =>
        /\ \A skew \in document.clockSkewSeconds :
              Cfg.clockSkewSeconds = IF skew = 0 THEN 60 ELSE skew
        /\ \A max \in document.maxRepositories : Cfg.maxRepositories = max
        /\ \A n \in DOMAIN document.issuers :
              LET entry == document.issuers[n]
                  iss == Cfg.issuers[n]
              IN  /\ \A max \in entry.maxTokenLifetimeSeconds :
                        iss.maxTokenLifetimeSeconds = max
                  /\ entry.issuer # "" => iss.issuer = entry.issuer
                  /\ entry.algorithms # <<>> => iss.algorithms = entry.algorithms
                  /\ entry.claims # <<>> => iss.claims = entry.claims

(* A start ends, in a server or with an error: no step waits for ever.      *)
EveryStartEnds == (pc = "load") ~> (pc \in {"serving", "exited"})
=============================================================================
