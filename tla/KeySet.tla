-------------------------------- MODULE KeySet --------------------------------
(***************************************************************************)
(* The keys of one issuer: verifications that look a signing key up in the *)
(* cached key set, the one fetch they share when it is missing, the        *)
(* transport of discovery.go that lets a fetch through once per interval,  *)
(* and an issuer that rotates its keys and is sometimes unreachable.       *)
(*                                                                         *)
(* Time is counted in ticks.  Steps of the broker take no time; only a     *)
(* request to the issuer does, and the client's timeout ends it.           *)
(***************************************************************************)
EXTENDS Naturals

CONSTANTS
    Verification,   \* requests whose token is being verified
    SigningKey,     \* keys tokens are signed with
    Interval,       \* jwksFetchInterval, in ticks
    Timeout         \* requestTimeout, in ticks

ASSUME TimesAssumption ==
    Interval \in Nat /\ Timeout \in Nat /\ Timeout < Interval

VARIABLES
    published,  \* the keys on the issuer's list
    online,     \* the issuer answers with its list; otherwise fetches fail
    broker,     \* "up" or "down"
    cached,     \* RemoteKeySet.cachedKeys
    fetch,      \* how far the fetch in flight is
    found,      \* the list its answer carries
    elapsed,    \* ticks since lastJWKSFetch, as far as the transport cares
    pc,         \* where each verification is
    token       \* the key its token is signed with

issuer == <<published, online>>
keys == <<broker, cached, fetch, found, elapsed>>
verifications == <<pc, token>>
keySetVars == <<issuer, keys, verifications>>

InFlight == {"begun", "sent", "answered"}
Over == {"done", "failed"}
Fetch == {"none"} \cup InFlight \cup Over
Waits == {"presented", "missed", "waiting"}
Ended == {"accepted", "refused", "gave up"}

UpTo(t) == IF t < Interval THEN t + 1 ELSE Interval
-----------------------------------------------------------------------------
Init ==
    /\ published \in SUBSET SigningKey
    /\ online = TRUE
    /\ broker = "up"
    /\ cached = {}
    /\ fetch = "none"
    /\ found = {}
    /\ elapsed = Interval
    /\ pc = [v \in Verification |-> "idle"]
    /\ token \in [Verification -> SigningKey]

Present(v, k) ==
    /\ broker = "up"
    /\ pc[v] \notin Waits
    /\ pc' = [pc EXCEPT ![v] = "presented"]
    /\ token' = [token EXCEPT ![v] = k]
    /\ UNCHANGED <<issuer, keys>>

(* The cache is read under the lock, which is released before the fetch in *)
(* flight is looked at.                                                    *)
LookUp(v) ==
    /\ pc[v] = "presented"
    /\ pc' = [pc EXCEPT ![v] = IF token[v] \in cached THEN "accepted" ELSE "missed"]
    /\ UNCHANGED <<issuer, keys, token>>

StartFetch(v) ==
    /\ pc[v] = "missed"
    /\ fetch = "none"
    /\ fetch' = "begun"
    /\ pc' = [pc EXCEPT ![v] = "waiting"]
    /\ UNCHANGED <<issuer, broker, cached, found, elapsed, token>>

\* (Seeded error: a fetch that is over but not yet put away is waited for.)
JoinAny(v) ==
    /\ pc[v] = "missed"
    /\ fetch # "none"
    /\ pc' = [pc EXCEPT ![v] = "waiting"]
    /\ UNCHANGED <<issuer, keys, token>>

JoinFetch(v) ==
    /\ pc[v] = "missed"
    /\ fetch \in InFlight
    /\ pc' = [pc EXCEPT ![v] = "waiting"]
    /\ UNCHANGED <<issuer, keys, token>>

Verdict(v, outcome) ==
    IF outcome = "done" /\ token[v] \in found THEN "accepted" ELSE "refused"

\* The fetch is over but not yet put away: its result is there at once.
JoinOver(v) ==
    /\ pc[v] = "missed"
    /\ fetch \in Over
    /\ pc' = [pc EXCEPT ![v] = Verdict(v, fetch)]
    /\ UNCHANGED <<issuer, keys, token>>

\* The client has closed its connection; the fetch goes on without it.
GiveUp(v) ==
    /\ pc[v] = "waiting"
    /\ pc' = [pc EXCEPT ![v] = "gave up"]
    /\ UNCHANGED <<issuer, keys, token>>
-----------------------------------------------------------------------------
(* The fetch: one goroutine, one request through the transport.            *)

\* (Seeded error: the time of the last fetch is not taken before the fetch.)
UnstampedSend ==
    /\ fetch = "begun"
    /\ elapsed = Interval
    /\ fetch' = "sent"
    /\ UNCHANGED <<issuer, broker, cached, found, elapsed, verifications>>

Send ==
    /\ fetch = "begun"
    /\ elapsed = Interval
    /\ fetch' = "sent"
    /\ elapsed' = 0
    /\ UNCHANGED <<issuer, broker, cached, found, verifications>>

\* What the end of a fetch means for those who wait for it.
Release(outcome) ==
    pc' = [v \in Verification |->
              IF pc[v] = "waiting" THEN Verdict(v, outcome) ELSE pc[v]]

\* (Seeded error: a throttled attempt counts as a fetch.)
ExtendingThrottle ==
    /\ fetch = "begun"
    /\ elapsed < Interval
    /\ fetch' = "failed"
    /\ elapsed' = 0
    /\ Release("failed")
    /\ UNCHANGED <<issuer, broker, cached, found, token>>

Throttle ==
    /\ fetch = "begun"
    /\ elapsed < Interval
    /\ fetch' = "failed"
    /\ Release("failed")
    /\ UNCHANGED <<issuer, broker, cached, found, elapsed, token>>

Answer ==
    /\ fetch = "sent"
    /\ online
    /\ fetch' = "answered"
    /\ found' = published
    /\ UNCHANGED <<issuer, broker, cached, elapsed, verifications>>

Finish ==
    /\ fetch = "answered"
    /\ fetch' = "done"
    /\ Release("done")
    /\ UNCHANGED <<issuer, broker, cached, found, elapsed, token>>

\* (Seeded error: a fetch that fails leaves its waiters waiting.)
SilentFail ==
    /\ fetch \in {"sent", "answered"}
    /\ ~online
    /\ fetch' = "failed"
    /\ UNCHANGED <<issuer, broker, cached, found, elapsed, verifications>>

\* No answer, an error, a body that is too long or no key set, a timeout.
Fail ==
    /\ fetch \in {"sent", "answered"}
    /\ ~online
    /\ fetch' = "failed"
    /\ Release("failed")
    /\ UNCHANGED <<issuer, broker, cached, found, elapsed, token>>

\* (Seeded error: the cache takes the result of a fetch that failed.)
StoreAnything ==
    /\ fetch \in Over
    /\ cached' = IF fetch = "done" THEN found ELSE {}
    /\ fetch' = "none"
    /\ found' = {}
    /\ UNCHANGED <<issuer, broker, elapsed, verifications>>

Store ==
    /\ fetch \in Over
    /\ cached' = IF fetch = "done" THEN found ELSE cached
    /\ fetch' = "none"
    /\ found' = {}
    /\ UNCHANGED <<issuer, broker, elapsed, verifications>>
-----------------------------------------------------------------------------
(* Time, the issuer and the operator.                                      *)

Tick ==
    /\ fetch \notin Over
    /\ fetch \in {"sent", "answered"} => elapsed < Timeout
    /\ elapsed' = UpTo(elapsed)
    /\ UNCHANGED <<issuer, broker, cached, fetch, found, verifications>>

Publish(k) ==
    /\ k \notin published
    /\ published' = published \cup {k}
    /\ UNCHANGED <<online, keys, verifications>>

Withdraw(k) ==
    /\ k \in published
    /\ published' = published \ {k}
    /\ UNCHANGED <<online, keys, verifications>>

GoOffline ==
    /\ online
    /\ online' = FALSE
    /\ UNCHANGED <<published, keys, verifications>>

GoOnline ==
    /\ ~online
    /\ online' = TRUE
    /\ UNCHANGED <<published, keys, verifications>>

Crash ==
    /\ broker = "up"
    /\ broker' = "down"
    /\ cached' = {}
    /\ fetch' = "none"
    /\ found' = {}
    /\ elapsed' = Interval
    /\ pc' = [v \in Verification |-> IF pc[v] \in Waits THEN "gave up" ELSE pc[v]]
    /\ UNCHANGED <<issuer, token>>

\* Discovery asks the issuer; the broker does not start without it.
Restart ==
    /\ broker = "down"
    /\ online
    /\ broker' = "up"
    /\ UNCHANGED <<issuer, cached, fetch, found, elapsed, verifications>>
-----------------------------------------------------------------------------
Verify(v) == LookUp(v) \/ StartFetch(v) \/ JoinFetch(v) \/ JoinOver(v)
Request == Send \/ Throttle
Reply == Answer \/ Fail
Settle == Finish \/ Store

Environment ==
    \/ \E k \in SigningKey : Publish(k) \/ Withdraw(k)
    \/ GoOffline \/ GoOnline \/ Crash \/ Restart

Next ==
    \/ \E v \in Verification : \E k \in SigningKey : Present(v, k)
    \/ \E v \in Verification : Verify(v) \/ GiveUp(v)
    \/ Request \/ Reply \/ Settle
    \/ Tick
    \/ Environment

Spec == Init /\ [][Next]_keySetVars

(* Goroutines are scheduled, a request ends by its timeout at the latest,  *)
(* and time passes however busy the broker is.  Nothing is assumed of      *)
(* clients, the issuer or the operator.                                    *)
Fairness ==
    /\ \A v \in Verification : WF_keySetVars(Verify(v))
    /\ WF_keySetVars(Request) /\ WF_keySetVars(Reply) /\ WF_keySetVars(Settle)
    /\ SF_keySetVars(Tick)

FairSpec == Spec /\ Fairness
-----------------------------------------------------------------------------
(* Types, and that whoever waits has a fetch to wait for (keysFromRemote). *)
TypeOK ==
    /\ published \subseteq SigningKey
    /\ online \in BOOLEAN
    /\ broker \in {"up", "down"}
    /\ cached \subseteq SigningKey
    /\ fetch \in Fetch
    /\ found \subseteq SigningKey
    /\ elapsed \in 0 .. Interval
    /\ pc \in [Verification -> {"idle"} \cup Waits \cup Ended]
    /\ token \in [Verification -> SigningKey]
    /\ \A v \in Verification : pc[v] = "waiting" => fetch \in InFlight

(* Once the issuer keeps a key on its list and stays reachable, and the    *)
(* broker stays up, only finitely many tokens signed with it miss the      *)
(* cache: tokens with unknown keys cannot put the fetch off for ever.      *)
PublishedKeyArrives ==
    \A k \in SigningKey :
        <>[](k \in published /\ online /\ broker = "up") =>
            <>[](\A v \in Verification : token[v] = k => pc[v] # "missed")

(* Every verification ends, with a verdict or without its client, whatever *)
(* becomes of the fetch it waits for.                                      *)
EveryVerificationEnds ==
    \A v \in Verification : pc[v] = "presented" ~> pc[v] \in Ended
=============================================================================
