---------------------------- MODULE KeySetHistory ----------------------------
(***************************************************************************)
(* KeySet with history variables, and the properties that compare what a   *)
(* verification sees now with what the issuer has offered for how long.    *)
(***************************************************************************)
EXTENDS KeySet

VARIABLES
    quiet,      \* ticks since this process last asked the issuer for its list
    listed,     \* for how many ticks each key has been on the list
    steady,     \* for how many ticks the issuer has been online
    due,        \* presented with a key the issuer, online, had long offered
    kept        \* presented with a long offered key that was in the cache

history == <<quiet, listed, steady, due, kept>>
vars == <<keySetVars, history>>

Settled(k) == listed[k] = Interval

InitHistory ==
    /\ Init
    /\ quiet = Interval
    /\ listed = [k \in SigningKey |-> 0]
    /\ steady = 0
    /\ due = {}
    /\ kept = {}

PresentNoted(v, k) ==
    /\ Present(v, k)
    /\ due' = IF Settled(k) /\ steady = Interval THEN due \cup {v} ELSE due \ {v}
    /\ kept' = IF Settled(k) /\ k \in cached THEN kept \cup {v} ELSE kept \ {v}
    /\ UNCHANGED <<quiet, listed, steady>>

SendNoted ==
    /\ Send
    /\ quiet' = 0
    /\ UNCHANGED <<listed, steady, due, kept>>

TickNoted ==
    /\ Tick
    /\ quiet' = UpTo(quiet)
    /\ listed' = [k \in SigningKey |-> IF k \in published THEN UpTo(listed[k]) ELSE 0]
    /\ steady' = IF online THEN UpTo(steady) ELSE 0
    /\ UNCHANGED <<due, kept>>

WithdrawNoted(k) ==
    /\ Withdraw(k)
    /\ listed' = [listed EXCEPT ![k] = 0]
    /\ due' = {v \in due : token[v] # k}
    /\ kept' = {v \in kept : token[v] # k}
    /\ UNCHANGED <<quiet, steady>>

GoOfflineNoted ==
    /\ GoOffline
    /\ steady' = 0
    /\ due' = {}
    /\ UNCHANGED <<quiet, listed, kept>>

CrashNoted ==
    /\ Crash
    /\ quiet' = Interval
    /\ due' = {}
    /\ kept' = {}
    /\ UNCHANGED <<listed, steady>>

Unnoted ==
    /\ \/ \E v \in Verification : Verify(v) \/ GiveUp(v)
       \/ Throttle \/ Reply \/ Settle
       \/ \E k \in SigningKey : Publish(k)
       \/ GoOnline \/ Restart
    /\ UNCHANGED history

NextNoted ==
    \/ \E v \in Verification : \E k \in SigningKey : PresentNoted(v, k)
    \/ SendNoted
    \/ TickNoted
    \/ \E k \in SigningKey : WithdrawNoted(k)
    \/ GoOfflineNoted
    \/ CrashNoted
    \/ Unnoted

SpecNoted == InitHistory /\ [][NextNoted]_vars
-----------------------------------------------------------------------------
(* Types of the state and of its history.                                  *)
HistoryTypeOK ==
    /\ TypeOK
    /\ quiet \in 0 .. Interval
    /\ listed \in [SigningKey -> 0 .. Interval]
    /\ steady \in 0 .. Interval
    /\ due \subseteq Verification
    /\ kept \subseteq Verification

(* A token whose key the issuer, always reachable, had offered for an      *)
(* interval when the token was presented may be refused, but only when its *)
(* key has meanwhile come into the cache: presented again it is accepted   *)
(* (the throttle of RoundTrip against the cache of the key set).           *)
RefusedAtMostOnce ==
    \A v \in due : pc[v] = "refused" => token[v] \in cached

(* A key that is in the cache and has been on the list for an interval is  *)
(* not lost: no outage, failed or throttled fetch refuses its tokens until *)
(* the issuer withdraws it or the broker restarts.                         *)
OutageKeepsKeys == \A v \in kept : pc[v] # "refused"

(* Between two requests of one process to the issuer lies an interval, no  *)
(* matter how many tokens with unknown keys arrive and how the fetches end *)
(* (transport: "allows one request to jwksURL per jwksFetchInterval").     *)
FetchesKeepDistance ==
    [][fetch # "sent" /\ fetch' = "sent" => quiet = Interval]_vars

(* TestKeyRotation (discovery_test.go): a token signed with a key that has *)
(* been rotated in for an interval is not rejected.                        *)
SettledKeyAccepted == \A v \in due : pc[v] # "refused"
=============================================================================
