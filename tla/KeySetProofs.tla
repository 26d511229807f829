---------------------------- MODULE KeySetProofs ----------------------------
(***************************************************************************)
(* What KeySetHistory checks on small instances, for any number of keys    *)
(* and verifications and every interval longer than the request timeout.   *)
(***************************************************************************)
EXTENDS KeySetHistory, TLAPS

(* A request is over before the interval is, and so is a failed fetch.     *)
InTime ==
    /\ fetch \in {"sent", "answered", "done"} => elapsed =< Timeout
    /\ fetch = "failed" => elapsed < Interval

(* The histories agree with the present.                                   *)
HistoryIsTrue ==
    /\ quiet = elapsed
    /\ steady > 0 => online
    /\ \A k \in SigningKey : listed[k] > 0 => k \in published

(* A key listed since before the last request is in that request's answer. *)
AnswerIsCurrent ==
    fetch \in {"answered", "done"} =>
        \A k \in SigningKey : listed[k] > elapsed => k \in found

(* If the issuer has been online since before that request too, the answer *)
(* has come and has been stored.                                           *)
CacheIsCurrent ==
    fetch \in {"none", "begun", "failed"} /\ steady > elapsed =>
        \A k \in SigningKey : listed[k] > elapsed => k \in cached

DueIsSettled ==
    \A v \in due : /\ Settled(token[v])
                   /\ steady = Interval
                   /\ pc[v] = "refused" => token[v] \in cached

KeptIsCached ==
    \A v \in kept : /\ Settled(token[v])
                    /\ token[v] \in cached
                    /\ pc[v] \notin {"missed", "waiting", "refused"}

IInv ==
    /\ HistoryTypeOK
    /\ InTime
    /\ HistoryIsTrue
    /\ AnswerIsCurrent
    /\ CacheIsCurrent
    /\ DueIsSettled
    /\ KeptIsCached
-----------------------------------------------------------------------------
LEMMA Interval1 == Interval \in Nat /\ Timeout \in Nat /\ Timeout < Interval /\ Interval > 0
BY TimesAssumption

(* A due or kept key is in every answer at hand.                           *)
LEMMA SettledIsFound ==
    ASSUME IInv, NEW k \in SigningKey, Settled(k), fetch \in {"answered", "done"}
    PROVE  k \in found
BY Interval1 DEF IInv, InTime, AnswerIsCurrent, Settled, HistoryTypeOK, TypeOK

LEMMA UpToType ==
    ASSUME NEW t \in 0 .. Interval
    PROVE  UpTo(t) \in 0 .. Interval
BY Interval1 DEF UpTo

(* One tick keeps the order of two capped counts.                          *)
LEMMA UpToOrder ==
    ASSUME NEW s \in 0 .. Interval, NEW t \in 0 .. Interval, UpTo(s) > UpTo(t)
    PROVE  s > t
BY Interval1 DEF UpTo

LEMMA InitInvariant == InitHistory => IInv
<1> SUFFICES ASSUME InitHistory PROVE IInv
  OBVIOUS
<1>1. HistoryTypeOK
  BY Interval1 DEF InitHistory, Init, HistoryTypeOK, TypeOK, Fetch, InFlight, Over, Waits, Ended
<1>2. InTime /\ HistoryIsTrue /\ AnswerIsCurrent
  BY Interval1 DEF InitHistory, Init, InTime, HistoryIsTrue, AnswerIsCurrent
<1>3. CacheIsCurrent /\ DueIsSettled /\ KeptIsCached
  BY Interval1 DEF InitHistory, Init, CacheIsCurrent, DueIsSettled, KeptIsCached
<1> QED
  BY <1>1, <1>2, <1>3 DEF IInv
-----------------------------------------------------------------------------
LEMMA PresentKeeps ==
    ASSUME IInv, NEW v \in Verification, NEW k \in SigningKey, PresentNoted(v, k)
    PROVE  IInv'
<1> USE DEF PresentNoted, Present, issuer, keys
<1>1. HistoryTypeOK'
  BY DEF IInv, HistoryTypeOK, TypeOK, Fetch, InFlight, Over, Waits, Ended
<1>2. (InTime /\ HistoryIsTrue /\ AnswerIsCurrent /\ CacheIsCurrent)'
  BY DEF IInv, InTime, HistoryIsTrue, AnswerIsCurrent, CacheIsCurrent
<1>3. DueIsSettled'
  <2> SUFFICES ASSUME NEW w \in due'
               PROVE  /\ Settled(token[w])'
                      /\ (steady = Interval)'
                      /\ (pc[w] = "refused" => token[w] \in cached)'
    BY DEF DueIsSettled
  <2>1. CASE w = v
    BY <2>1 DEF IInv, HistoryTypeOK, TypeOK, Settled
  <2>2. CASE w # v
    BY <2>2 DEF IInv, DueIsSettled, HistoryTypeOK, TypeOK, Settled
  <2> QED
    BY <2>1, <2>2
<1>4. KeptIsCached'
  <2> SUFFICES ASSUME NEW w \in kept'
               PROVE  /\ Settled(token[w])'
                      /\ (token[w] \in cached)'
                      /\ (pc[w] \notin {"missed", "waiting", "refused"})'
    BY DEF KeptIsCached
  <2>1. CASE w = v
    BY <2>1 DEF IInv, HistoryTypeOK, TypeOK, Settled
  <2>2. CASE w # v
    BY <2>2 DEF IInv, KeptIsCached, HistoryTypeOK, TypeOK, Settled
  <2> QED
    BY <2>1, <2>2
<1> QED
  BY <1>1, <1>2, <1>3, <1>4 DEF IInv

(* A step that only moves verifications on, and only to verdicts that      *)
(* agree with the cache, keeps the invariant.                              *)
LEMMA VerdictsKeep ==
    ASSUME IInv,
           UNCHANGED <<issuer, keys, token, history>>,
           pc' \in [Verification -> {"idle"} \cup Waits \cup Ended],
           \A v \in Verification : pc'[v] = "waiting" => fetch \in InFlight,
           \A v \in due : pc'[v] = "refused" => pc[v] = "refused" \/ token[v] \in cached,
           \A v \in kept : pc'[v] \notin {"missed", "waiting", "refused"}
    PROVE  IInv'
<1> USE DEF issuer, keys, history
<1>1. HistoryTypeOK'
  BY DEF IInv, HistoryTypeOK, TypeOK
<1>2. (InTime /\ HistoryIsTrue /\ AnswerIsCurrent /\ CacheIsCurrent)'
  BY DEF IInv, InTime, HistoryIsTrue, AnswerIsCurrent, CacheIsCurrent
<1>3. DueIsSettled' /\ KeptIsCached'
  BY DEF IInv, DueIsSettled, KeptIsCached, Settled
<1> QED
  BY <1>1, <1>2, <1>3 DEF IInv

LEMMA DueIsCached ==
    ASSUME IInv, NEW v \in due, fetch \in {"none", "begun", "failed"}, elapsed < Interval
    PROVE  token[v] \in cached
BY Interval1 DEF IInv, DueIsSettled, CacheIsCurrent, Settled, HistoryTypeOK, TypeOK

LEMMA VerifyKeeps ==
    ASSUME IInv, UNCHANGED history, NEW v \in Verification, Verify(v) \/ GiveUp(v)
    PROVE  IInv'
<1> USE DEF issuer, keys
<1>t. /\ pc \in [Verification -> {"idle"} \cup Waits \cup Ended]
      /\ due \subseteq Verification /\ kept \subseteq Verification
  BY DEF IInv, HistoryTypeOK, TypeOK
<1>1. CASE LookUp(v)
  <2>1. pc' \in [Verification -> {"idle"} \cup Waits \cup Ended]
    BY <1>1, <1>t DEF LookUp, Waits, Ended
  <2>2. \A w \in due : pc'[w] = "refused" => pc[w] = "refused" \/ token[w] \in cached
    BY <1>1, <1>t DEF LookUp
  <2>3. \A w \in kept : pc'[w] \notin {"missed", "waiting", "refused"}
    BY <1>1, <1>t DEF LookUp, IInv, KeptIsCached
  <2>4. \A w \in Verification : pc'[w] = "waiting" => fetch \in InFlight
    BY <1>1, <1>t DEF LookUp, IInv, HistoryTypeOK, TypeOK
  <2> QED
    BY <1>1, <2>1, <2>2, <2>3, <2>4, VerdictsKeep DEF LookUp
<1>2. CASE JoinFetch(v) \/ GiveUp(v)
  <2>1. pc' \in [Verification -> {"idle"} \cup Waits \cup Ended]
    BY <1>2, <1>t DEF JoinFetch, GiveUp, Waits, Ended
  <2>2. \A w \in due : pc'[w] = "refused" => pc[w] = "refused" \/ token[w] \in cached
    BY <1>2, <1>t DEF JoinFetch, GiveUp
  <2>3. \A w \in kept : pc'[w] \notin {"missed", "waiting", "refused"}
    BY <1>2, <1>t DEF JoinFetch, GiveUp, IInv, KeptIsCached
  <2>4. \A w \in Verification : pc'[w] = "waiting" => fetch \in InFlight
    BY <1>2, <1>t DEF JoinFetch, GiveUp, IInv, HistoryTypeOK, TypeOK
  <2> QED
    BY <1>2, <2>1, <2>2, <2>3, <2>4, VerdictsKeep DEF JoinFetch, GiveUp
<1>3. CASE JoinOver(v)
  <2>1. pc' \in [Verification -> {"idle"} \cup Waits \cup Ended]
    BY <1>3, <1>t DEF JoinOver, Verdict, Waits, Ended
  <2>2. \A w \in due : pc'[w] = "refused" => pc[w] = "refused" \/ token[w] \in cached
    <3> SUFFICES ASSUME NEW w \in due, pc'[w] = "refused", pc[w] # "refused"
                 PROVE  token[w] \in cached
      OBVIOUS
    <3>1. w = v /\ Verdict(v, fetch) = "refused"
      BY <1>3, <1>t DEF JoinOver
    <3>2. token[v] \in SigningKey /\ Settled(token[v])
      BY <3>1 DEF IInv, HistoryTypeOK, TypeOK, DueIsSettled
    <3>3. fetch # "done"
      BY <3>1, <3>2, SettledIsFound DEF Verdict
    <3>4. fetch = "failed" /\ elapsed < Interval
      BY <1>3, <3>3 DEF JoinOver, Over, IInv, InTime
    <3> QED
      BY <3>4, DueIsCached
  <2>3. \A w \in kept : pc'[w] \notin {"missed", "waiting", "refused"}
    BY <1>3, <1>t DEF JoinOver, IInv, KeptIsCached
  <2>4. \A w \in Verification : pc'[w] = "waiting" => fetch \in InFlight
    BY <1>3, <1>t DEF JoinOver, Verdict, IInv, HistoryTypeOK, TypeOK
  <2> QED
    BY <1>3, <2>1, <2>2, <2>3, <2>4, VerdictsKeep DEF JoinOver
<1>4. CASE StartFetch(v)
  <2>1. HistoryTypeOK'
    BY <1>4 DEF StartFetch, IInv, HistoryTypeOK, TypeOK, Fetch, InFlight, Over, Waits, Ended, history
  <2>2. (InTime /\ HistoryIsTrue /\ AnswerIsCurrent /\ CacheIsCurrent)'
    BY <1>4 DEF StartFetch, IInv, InTime, HistoryIsTrue, AnswerIsCurrent, CacheIsCurrent, history
  <2>3. DueIsSettled'
    BY <1>4, <1>t DEF StartFetch, IInv, DueIsSettled, Settled, history
  <2>4. KeptIsCached'
    BY <1>4, <1>t DEF StartFetch, IInv, KeptIsCached, Settled, history
  <2> QED
    BY <2>1, <2>2, <2>3, <2>4 DEF IInv
<1> QED
  BY <1>1, <1>2, <1>3, <1>4 DEF Verify
-----------------------------------------------------------------------------
LEMMA SendKeeps == ASSUME IInv, SendNoted PROVE IInv'
<1> USE DEF SendNoted, Send, issuer, verifications
<1>1. HistoryTypeOK'
  BY Interval1 DEF IInv, HistoryTypeOK, TypeOK, Fetch, InFlight
<1>2. (InTime /\ HistoryIsTrue /\ AnswerIsCurrent /\ CacheIsCurrent)'
  BY Interval1 DEF IInv, InTime, HistoryIsTrue, AnswerIsCurrent, CacheIsCurrent
<1>3. DueIsSettled' /\ KeptIsCached'
  BY DEF IInv, DueIsSettled, KeptIsCached, Settled
<1> QED
  BY <1>1, <1>2, <1>3 DEF IInv

LEMMA ReleaseType ==
    ASSUME IInv, NEW outcome, Release(outcome)
    PROVE  /\ pc' \in [Verification -> {"idle"} \cup Waits \cup Ended]
           /\ \A v \in Verification : pc'[v] # "waiting"
BY DEF IInv, HistoryTypeOK, TypeOK, Release, Verdict, Waits, Ended

(* Nobody waits for a key that is kept.                                    *)
LEMMA ReleaseKept ==
    ASSUME IInv, NEW outcome, Release(outcome)
    PROVE  \A v \in kept : pc'[v] = pc[v]
BY DEF IInv, HistoryTypeOK, KeptIsCached, Release

LEMMA ThrottleKeeps == ASSUME IInv, Throttle, UNCHANGED history PROVE IInv'
<1> USE DEF Throttle, issuer, history
<1>1. HistoryTypeOK'
  BY ReleaseType DEF IInv, HistoryTypeOK, TypeOK, Fetch, Over
<1>2. (InTime /\ HistoryIsTrue /\ AnswerIsCurrent /\ CacheIsCurrent)'
  BY DEF IInv, InTime, HistoryIsTrue, AnswerIsCurrent, CacheIsCurrent
<1>3. DueIsSettled'
  BY DueIsCached DEF IInv, DueIsSettled, Settled
<1>4. KeptIsCached'
  BY ReleaseKept DEF IInv, KeptIsCached, Settled
<1> QED
  BY <1>1, <1>2, <1>3, <1>4 DEF IInv

LEMMA AnswerKeeps == ASSUME IInv, Answer, UNCHANGED history PROVE IInv'
<1> USE DEF Answer, issuer, verifications, history
<1>1. HistoryTypeOK'
  BY DEF IInv, HistoryTypeOK, TypeOK, Fetch, InFlight
<1>2. (InTime /\ HistoryIsTrue /\ CacheIsCurrent)'
  BY DEF IInv, InTime, HistoryIsTrue, CacheIsCurrent
<1>3. AnswerIsCurrent'
  BY DEF IInv, HistoryTypeOK, TypeOK, HistoryIsTrue, AnswerIsCurrent
<1>4. DueIsSettled' /\ KeptIsCached'
  BY DEF IInv, DueIsSettled, KeptIsCached, Settled
<1> QED
  BY <1>1, <1>2, <1>3, <1>4 DEF IInv

LEMMA FinishKeeps == ASSUME IInv, Finish, UNCHANGED history PROVE IInv'
<1> USE DEF Finish, issuer, history
<1>1. HistoryTypeOK'
  BY ReleaseType DEF IInv, HistoryTypeOK, TypeOK, Fetch, Over
<1>2. (InTime /\ HistoryIsTrue /\ AnswerIsCurrent /\ CacheIsCurrent)'
  BY DEF IInv, InTime, HistoryIsTrue, AnswerIsCurrent, CacheIsCurrent
<1>3. DueIsSettled'
  <2> SUFFICES ASSUME NEW v \in due, pc'[v] = "refused", pc[v] # "refused"
               PROVE  FALSE
    BY DEF IInv, DueIsSettled, Settled
  <2>1. token[v] \in SigningKey /\ Settled(token[v])
    BY DEF IInv, HistoryTypeOK, TypeOK, DueIsSettled
  <2>2. token[v] \in found
    BY <2>1, SettledIsFound
  <2> QED
    BY <2>2 DEF IInv, HistoryTypeOK, Release, Verdict
<1>4. KeptIsCached'
  BY ReleaseKept DEF IInv, KeptIsCached, Settled
<1> QED
  BY <1>1, <1>2, <1>3, <1>4 DEF IInv

LEMMA FailKeeps == ASSUME IInv, Fail, UNCHANGED history PROVE IInv'
<1> USE DEF Fail, issuer, history
<1>0. steady = 0
  BY DEF IInv, HistoryTypeOK, HistoryIsTrue
<1>1. HistoryTypeOK'
  BY ReleaseType DEF IInv, HistoryTypeOK, TypeOK, Fetch, Over
<1>2. (InTime /\ HistoryIsTrue /\ AnswerIsCurrent)'
  BY Interval1 DEF IInv, HistoryTypeOK, TypeOK, InTime, HistoryIsTrue, AnswerIsCurrent
<1>3. CacheIsCurrent'
  BY <1>0 DEF IInv, HistoryTypeOK, TypeOK, CacheIsCurrent
<1>4. DueIsSettled'
  BY <1>0, Interval1 DEF IInv, DueIsSettled
<1>5. KeptIsCached'
  BY ReleaseKept DEF IInv, KeptIsCached, Settled
<1> QED
  BY <1>1, <1>2, <1>3, <1>4, <1>5 DEF IInv

LEMMA StoreKeeps == ASSUME IInv, Store, UNCHANGED history PROVE IInv'
<1> USE DEF Store, issuer, verifications, history
<1>1. HistoryTypeOK'
  BY DEF IInv, HistoryTypeOK, TypeOK, Fetch, InFlight, Over
<1>2. (InTime /\ HistoryIsTrue /\ AnswerIsCurrent)'
  BY DEF IInv, InTime, HistoryIsTrue, AnswerIsCurrent
<1>3. CacheIsCurrent'
  BY DEF IInv, AnswerIsCurrent, CacheIsCurrent, Over
<1>4. \A k \in SigningKey : Settled(k) /\ k \in cached => k \in cached'
  BY SettledIsFound DEF Over
<1>5. DueIsSettled'
  BY <1>4 DEF IInv, HistoryTypeOK, TypeOK, DueIsSettled, Settled
<1>6. KeptIsCached'
  BY <1>4 DEF IInv, HistoryTypeOK, TypeOK, KeptIsCached, Settled
<1> QED
  BY <1>1, <1>2, <1>3, <1>5, <1>6 DEF IInv
-----------------------------------------------------------------------------
LEMMA TickKeeps == ASSUME IInv, TickNoted PROVE IInv'
<1> USE DEF TickNoted, Tick, issuer, verifications
<1>t. /\ elapsed \in 0 .. Interval /\ steady \in 0 .. Interval
      /\ \A k \in SigningKey : listed[k] \in 0 .. Interval
  BY DEF IInv, HistoryTypeOK, TypeOK
<1>1. HistoryTypeOK'
  <2>1. TypeOK'
    BY <1>t, UpToType DEF IInv, HistoryTypeOK, TypeOK
  <2>2. listed' \in [SigningKey -> 0 .. Interval]
    BY <1>t, UpToType, Interval1
  <2>3. quiet' \in 0 .. Interval /\ steady' \in 0 .. Interval
    BY <1>t, UpToType, Interval1 DEF IInv, HistoryTypeOK
  <2> QED
    BY <2>1, <2>2, <2>3 DEF IInv, HistoryTypeOK
<1>2. InTime'
  BY <1>t, Interval1 DEF IInv, InTime, Over, UpTo
<1>3. HistoryIsTrue'
  BY Interval1 DEF IInv, HistoryIsTrue
<1>4. \A k \in SigningKey : listed'[k] > elapsed' => listed[k] > elapsed
  <2> SUFFICES ASSUME NEW k \in SigningKey, listed'[k] > elapsed'
               PROVE  listed[k] > elapsed
    OBVIOUS
  <2>1. elapsed' \in 0 .. Interval
    BY <1>t, UpToType
  <2>2. k \in published
    BY <2>1, Interval1
  <2>3. UpTo(listed[k]) > UpTo(elapsed)
    BY <2>2
  <2> QED
    BY <1>t, <2>3, UpToOrder
<1>5. steady' > elapsed' => steady > elapsed
  <2> SUFFICES ASSUME steady' > elapsed' PROVE steady > elapsed
    OBVIOUS
  <2>1. elapsed' \in 0 .. Interval
    BY <1>t, UpToType
  <2>2. online
    BY <2>1, Interval1
  <2>3. UpTo(steady) > UpTo(elapsed)
    BY <2>2
  <2> QED
    BY <1>t, <2>3, UpToOrder
<1>6. AnswerIsCurrent'
  BY <1>4 DEF IInv, AnswerIsCurrent
<1>7. CacheIsCurrent'
  BY <1>4, <1>5 DEF IInv, CacheIsCurrent
<1>8. \A k \in SigningKey : Settled(k) => Settled(k)'
  BY Interval1 DEF IInv, HistoryIsTrue, Settled, UpTo
<1>9. DueIsSettled'
  BY <1>8, Interval1 DEF IInv, HistoryTypeOK, TypeOK, HistoryIsTrue, DueIsSettled, UpTo
<1>10. KeptIsCached'
  BY <1>8 DEF IInv, HistoryTypeOK, TypeOK, KeptIsCached
<1> QED
  BY <1>1, <1>2, <1>3, <1>6, <1>7, <1>9, <1>10 DEF IInv

LEMMA PublishKeeps ==
    ASSUME IInv, NEW k \in SigningKey, Publish(k), UNCHANGED history
    PROVE  IInv'
<1> USE DEF Publish, keys, verifications, history
<1>1. HistoryTypeOK'
  BY DEF IInv, HistoryTypeOK, TypeOK
<1>2. (InTime /\ HistoryIsTrue /\ AnswerIsCurrent /\ CacheIsCurrent)'
  BY DEF IInv, InTime, HistoryIsTrue, AnswerIsCurrent, CacheIsCurrent
<1>3. DueIsSettled' /\ KeptIsCached'
  BY DEF IInv, DueIsSettled, KeptIsCached, Settled
<1> QED
  BY <1>1, <1>2, <1>3 DEF IInv

LEMMA WithdrawKeeps ==
    ASSUME IInv, NEW k \in SigningKey, WithdrawNoted(k)
    PROVE  IInv'
<1> USE DEF WithdrawNoted, Withdraw, keys, verifications
<1>1. HistoryTypeOK'
  BY Interval1 DEF IInv, HistoryTypeOK, TypeOK
<1>2. InTime' /\ HistoryIsTrue'
  BY Interval1 DEF IInv, HistoryTypeOK, TypeOK, InTime, HistoryIsTrue
<1>3. \A j \in SigningKey : listed'[j] > elapsed' => listed[j] > elapsed
  BY Interval1 DEF IInv, HistoryTypeOK, TypeOK
<1>4. AnswerIsCurrent' /\ CacheIsCurrent'
  BY <1>3 DEF IInv, AnswerIsCurrent, CacheIsCurrent
<1>5. DueIsSettled'
  BY DEF IInv, HistoryTypeOK, TypeOK, DueIsSettled, Settled
<1>6. KeptIsCached'
  BY DEF IInv, HistoryTypeOK, TypeOK, KeptIsCached, Settled
<1> QED
  BY <1>1, <1>2, <1>4, <1>5, <1>6 DEF IInv

LEMMA GoOfflineKeeps == ASSUME IInv, GoOfflineNoted PROVE IInv'
<1> USE DEF GoOfflineNoted, GoOffline, keys, verifications
<1>1. HistoryTypeOK'
  <2>1. TypeOK'
    BY DEF IInv, HistoryTypeOK, TypeOK
  <2>2. steady' \in 0 .. Interval
    BY Interval1
  <2> QED
    BY <2>1, <2>2 DEF IInv, HistoryTypeOK
<1>2. InTime' /\ HistoryIsTrue' /\ AnswerIsCurrent'
  BY DEF IInv, InTime, HistoryIsTrue, AnswerIsCurrent
<1>3. CacheIsCurrent'
  BY DEF IInv, HistoryTypeOK, TypeOK, CacheIsCurrent
<1>4. DueIsSettled' /\ KeptIsCached'
  BY DEF IInv, DueIsSettled, KeptIsCached, Settled
<1> QED
  BY <1>1, <1>2, <1>3, <1>4 DEF IInv

LEMMA GoOnlineKeeps == ASSUME IInv, GoOnline, UNCHANGED history PROVE IInv'
<1> USE DEF GoOnline, keys, verifications, history
<1>1. HistoryTypeOK'
  BY DEF IInv, HistoryTypeOK, TypeOK
<1>2. (InTime /\ HistoryIsTrue /\ AnswerIsCurrent /\ CacheIsCurrent)'
  BY DEF IInv, InTime, HistoryIsTrue, AnswerIsCurrent, CacheIsCurrent
<1>3. DueIsSettled' /\ KeptIsCached'
  BY DEF IInv, DueIsSettled, KeptIsCached, Settled
<1> QED
  BY <1>1, <1>2, <1>3 DEF IInv

LEMMA CrashKeeps == ASSUME IInv, CrashNoted PROVE IInv'
<1>0. /\ elapsed' = Interval /\ quiet' = Interval /\ steady' = steady
      /\ fetch' = "none" /\ due' = {} /\ kept' = {}
      /\ UNCHANGED <<published, online, listed>>
  BY DEF CrashNoted, Crash, issuer
<1>1. HistoryTypeOK'
  <2>1. pc' \in [Verification -> {"idle"} \cup Waits \cup Ended]
    BY DEF CrashNoted, Crash, IInv, HistoryTypeOK, TypeOK, Waits, Ended
  <2>2. elapsed' \in 0 .. Interval /\ quiet' \in 0 .. Interval
    BY <1>0, Interval1
  <2>3. \A v \in Verification : pc'[v] # "waiting"
    BY DEF CrashNoted, Crash, IInv, HistoryTypeOK, TypeOK, Waits
  <2>4. TypeOK'
    BY <1>0, <2>1, <2>2, <2>3 DEF CrashNoted, Crash, IInv, HistoryTypeOK, TypeOK, Fetch
  <2> QED
    BY <1>0, <2>2, <2>4 DEF IInv, HistoryTypeOK
<1>2. InTime' /\ HistoryIsTrue' /\ AnswerIsCurrent'
  BY <1>0 DEF IInv, InTime, HistoryIsTrue, AnswerIsCurrent
<1>3. CacheIsCurrent'
  BY <1>0, Interval1 DEF IInv, HistoryTypeOK, CacheIsCurrent
<1>4. DueIsSettled' /\ KeptIsCached'
  BY <1>0 DEF DueIsSettled, KeptIsCached
<1> QED
  BY <1>1, <1>2, <1>3, <1>4 DEF IInv

LEMMA RestartKeeps == ASSUME IInv, Restart, UNCHANGED history PROVE IInv'
<1> USE DEF Restart, issuer, verifications, history
<1>1. HistoryTypeOK'
  BY DEF IInv, HistoryTypeOK, TypeOK
<1>2. (InTime /\ HistoryIsTrue /\ AnswerIsCurrent /\ CacheIsCurrent)'
  BY DEF IInv, InTime, HistoryIsTrue, AnswerIsCurrent, CacheIsCurrent
<1>3. DueIsSettled' /\ KeptIsCached'
  BY DEF IInv, DueIsSettled, KeptIsCached, Settled
<1> QED
  BY <1>1, <1>2, <1>3 DEF IInv

LEMMA StutterKeeps == ASSUME IInv, UNCHANGED vars PROVE IInv'
<1> USE DEF vars, keySetVars, issuer, keys, verifications, history
<1>1. HistoryTypeOK'
  BY DEF IInv, HistoryTypeOK, TypeOK
<1>2. (InTime /\ HistoryIsTrue /\ AnswerIsCurrent /\ CacheIsCurrent)'
  BY DEF IInv, InTime, HistoryIsTrue, AnswerIsCurrent, CacheIsCurrent
<1>3. DueIsSettled' /\ KeptIsCached'
  BY DEF IInv, DueIsSettled, KeptIsCached, Settled
<1> QED
  BY <1>1, <1>2, <1>3 DEF IInv

LEMMA StepInvariant == ASSUME IInv, [NextNoted]_vars PROVE IInv'
<1>1. CASE \E v \in Verification : \E k \in SigningKey : PresentNoted(v, k)
  BY <1>1, PresentKeeps
<1>2. CASE SendNoted
  BY <1>2, SendKeeps
<1>3. CASE TickNoted
  BY <1>3, TickKeeps
<1>4. CASE \E k \in SigningKey : WithdrawNoted(k)
  BY <1>4, WithdrawKeeps
<1>5. CASE GoOfflineNoted
  BY <1>5, GoOfflineKeeps
<1>6. CASE CrashNoted
  BY <1>6, CrashKeeps
<1>7. CASE Unnoted
  <2>1. UNCHANGED history
    BY <1>7 DEF Unnoted
  <2>2. CASE \E v \in Verification : Verify(v) \/ GiveUp(v)
    BY <2>1, <2>2, VerifyKeeps
  <2>3. CASE Throttle \/ Reply \/ Settle
    BY <2>1, <2>3, ThrottleKeeps, AnswerKeeps, FailKeeps, FinishKeeps, StoreKeeps
    DEF Reply, Settle
  <2>4. CASE (\E k \in SigningKey : Publish(k)) \/ GoOnline \/ Restart
    BY <2>1, <2>4, PublishKeeps, GoOnlineKeeps, RestartKeeps
  <2> QED
    BY <1>7, <2>2, <2>3, <2>4 DEF Unnoted
<1>8. CASE UNCHANGED vars
  BY <1>8, StutterKeeps
<1> QED
  BY <1>1, <1>2, <1>3, <1>4, <1>5, <1>6, <1>7, <1>8 DEF NextNoted

LEMMA Invariance == SpecNoted => []IInv
<1>1. InitHistory => IInv
  BY InitInvariant
<1>2. IInv /\ [NextNoted]_vars => IInv'
  BY StepInvariant
<1> QED
  BY <1>1, <1>2, PTL DEF SpecNoted
-----------------------------------------------------------------------------
(* The state and its history have their types (discovery.go and the key    *)
(* set it builds).                                                         *)
THEOREM TypeCorrect == SpecNoted => []HistoryTypeOK
<1>1. IInv => HistoryTypeOK
  BY DEF IInv
<1> QED
  BY <1>1, Invariance, PTL

(* A token with a key long offered is refused only when the race between   *)
(* cache and throttle is lost, and then its key is in the cache.           *)
THEOREM NeverRefusedTwice == SpecNoted => []RefusedAtMostOnce
<1>1. IInv => RefusedAtMostOnce
  BY DEF IInv, DueIsSettled, RefusedAtMostOnce
<1> QED
  BY <1>1, Invariance, PTL

(* No outage and no failed fetch loses a cached key that is still offered. *)
THEOREM OutageNeverLosesKeys == SpecNoted => []OutageKeepsKeys
<1>1. IInv => OutageKeepsKeys
  BY DEF IInv, KeptIsCached, OutageKeepsKeys
<1> QED
  BY <1>1, Invariance, PTL

(* The transport asks the issuer at most once in an interval.              *)
THEOREM FetchesAlwaysKeepDistance == SpecNoted => FetchesKeepDistance
<1>1. IInv /\ [NextNoted]_vars => [fetch # "sent" /\ fetch' = "sent" => quiet = Interval]_vars
  <2> SUFFICES ASSUME IInv, NextNoted, fetch # "sent", fetch' = "sent"
               PROVE  quiet = Interval
    OBVIOUS
  <2>1. SendNoted
    BY DEF NextNoted, Unnoted, PresentNoted, Present, TickNoted, Tick, WithdrawNoted, Withdraw,
       GoOfflineNoted, GoOffline, CrashNoted, Crash, Verify, LookUp, StartFetch, JoinFetch,
       JoinOver, GiveUp, Throttle, Reply, Answer, Fail, Settle, Finish, Store, Publish,
       GoOnline, Restart, keys, vars
  <2> QED
    BY <2>1 DEF SendNoted, Send, IInv, HistoryIsTrue
<1> QED
  BY <1>1, Invariance, PTL DEF SpecNoted, FetchesKeepDistance
-----------------------------------------------------------------------------
(* What the broker can verify with: the cache, and the answer at hand.     *)
Knows(k) == k \in cached \/ k \in found

\* No token signed with k has been accepted.
NeverAccepted(k) == \A v \in Verification : pc[v] = "accepted" => token[v] # k

LEMMA UnlistedIsNotLearnt ==
    ASSUME NEW k \in SigningKey, ~Knows(k), k \notin published, [Next]_keySetVars
    PROVE  ~Knows(k)'
<1> USE DEF Knows, issuer, keys
<1>1. CASE Answer \/ Store \/ Crash
  BY <1>1 DEF Answer, Store, Crash
<1>2. CASE Request \/ Fail \/ Finish \/ Tick
  BY <1>2 DEF Request, Send, Throttle, Fail, Finish, Tick
<1>3. CASE (\E l \in SigningKey : Publish(l) \/ Withdraw(l)) \/ GoOffline \/ GoOnline \/ Restart
  BY <1>3 DEF Publish, Withdraw, GoOffline, GoOnline, Restart
<1>4. CASE \E v \in Verification : \E l \in SigningKey : Present(v, l)
  BY <1>4 DEF Present
<1>5. CASE \E v \in Verification : Verify(v) \/ GiveUp(v)
  BY <1>5 DEF Verify, LookUp, StartFetch, JoinFetch, JoinOver, GiveUp
<1>6. CASE UNCHANGED keySetVars
  BY <1>6 DEF keySetVars
<1> QED
  BY <1>1, <1>2, <1>3, <1>4, <1>5, <1>6 DEF Next, Environment, Reply, Settle

LEMMA ReleaseAccepts ==
    ASSUME NEW k \in SigningKey, NEW outcome, ~Knows(k), NeverAccepted(k),
           Release(outcome), UNCHANGED token
    PROVE  NeverAccepted(k)'
BY DEF Release, Verdict, NeverAccepted, Knows

LEMMA UnknownIsNotAccepted ==
    ASSUME NEW k \in SigningKey, TypeOK, ~Knows(k), NeverAccepted(k), [Next]_keySetVars
    PROVE  NeverAccepted(k)'
<1> USE DEF NeverAccepted, issuer, keys
<1>1. CASE Throttle \/ Finish \/ Fail
  BY <1>1, ReleaseAccepts DEF Throttle, Finish, Fail
<1>2. CASE Send \/ Answer \/ Store \/ Tick
  BY <1>2 DEF Send, Answer, Store, Tick, verifications
<1>3. CASE Environment
  BY <1>3 DEF Environment, Publish, Withdraw, GoOffline, GoOnline, Restart, Crash, verifications,
     Waits
<1>4. ASSUME NEW v \in Verification, NEW l \in SigningKey, Present(v, l)
      PROVE  NeverAccepted(k)'
  BY <1>4 DEF Present, TypeOK
<1>5. ASSUME NEW v \in Verification, Verify(v) \/ GiveUp(v)
      PROVE  NeverAccepted(k)'
  BY <1>5 DEF Verify, LookUp, StartFetch, JoinFetch, JoinOver, GiveUp, Verdict, Knows, TypeOK
<1>6. CASE UNCHANGED keySetVars
  BY <1>6 DEF keySetVars, verifications
<1> QED
  BY <1>1, <1>2, <1>3, <1>4, <1>5, <1>6 DEF Next, Request, Reply, Settle

LEMMA PlainTypes == SpecNoted => []TypeOK
<1>1. HistoryTypeOK => TypeOK
  BY DEF HistoryTypeOK
<1> QED
  BY <1>1, TypeCorrect, PTL

LEMMA NotedIsPlain == [NextNoted]_vars => [Next]_keySetVars
BY DEF NextNoted, PresentNoted, SendNoted, TickNoted, WithdrawNoted, GoOfflineNoted, CrashNoted,
   Unnoted, Next, Request, Environment, vars

(* A key the issuer does not list is not learnt: whatever the broker does  *)
(* not know at some time, after a restart say, it will not know for as     *)
(* long as the key stays off the list, whatever fails or comes late.       *)
THEOREM UnlistedStaysUnknown ==
    ASSUME NEW k \in SigningKey
    PROVE  SpecNoted => [](~Knows(k) /\ [](k \notin published) => [](~Knows(k)))
<1>1. ~Knows(k) /\ k \notin published /\ [Next]_keySetVars => ~Knows(k)'
  BY UnlistedIsNotLearnt
<1> QED
  BY <1>1, NotedIsPlain, PTL DEF SpecNoted

(* A token is accepted only with a key the issuer has had on its list      *)
(* (VerifySignature: the cached keys, else what the fetch has brought).    *)
THEOREM UnlistedNeverAccepted ==
    ASSUME NEW k \in SigningKey
    PROVE  SpecNoted /\ [](k \notin published) => []NeverAccepted(k)
<1> DEFINE Safe == ~Knows(k) /\ NeverAccepted(k)
<1>1. InitHistory => Safe
  BY DEF InitHistory, Init, Knows, NeverAccepted
<1>2. Safe /\ TypeOK /\ k \notin published /\ [NextNoted]_vars => Safe'
  BY NotedIsPlain, UnlistedIsNotLearnt, UnknownIsNotAccepted
<1>3. Safe => NeverAccepted(k)
  OBVIOUS
<1> HIDE DEF Safe
<1> QED
  BY <1>1, <1>2, <1>3, PlainTypes, PTL DEF SpecNoted

(* The way of a verification: what may follow each of its places.          *)
Follows(v) ==
    \/ pc'[v] = pc[v]
    \/ pc[v] = "presented" /\ pc'[v] \in {"accepted", "missed", "gave up"}
    \/ pc[v] = "missed" /\ pc'[v] \in {"waiting"} \cup Ended
    \/ pc[v] = "waiting" /\ pc'[v] \in Ended

Onward(v) ==
    \/ pc[v] \notin Waits /\ pc'[v] = "presented"
    \/ Follows(v) /\ token'[v] = token[v]

LEMMA ReleaseFollows ==
    ASSUME NEW v \in Verification, NEW outcome, Release(outcome)
    PROVE  Follows(v)
BY DEF Release, Verdict, Follows, Ended

(* No verification goes back: between two presentations it looks into the  *)
(* cache once, waits for one fetch at most and gets one verdict, for the   *)
(* key it was presented with; what is left to EveryVerificationEnds is     *)
(* that it does not stop on the way (VerifySignature, keysFromRemote).     *)
THEOREM VerificationsOnlyGoOn == SpecNoted => [][\A v \in Verification : Onward(v)]_keySetVars
<1>1. TypeOK /\ [Next]_keySetVars => [\A v \in Verification : Onward(v)]_keySetVars
  <2> SUFFICES ASSUME TypeOK, Next, NEW v \in Verification
               PROVE  Onward(v)
    OBVIOUS
  <2> USE DEF Onward
  <2>1. CASE Throttle \/ Finish \/ Fail
    BY <2>1, ReleaseFollows DEF Throttle, Finish, Fail
  <2>2. CASE Send \/ Answer \/ Store \/ Tick
    BY <2>2 DEF Send, Answer, Store, Tick, verifications, Follows
  <2>3. CASE Environment
    BY <2>3 DEF Environment, Publish, Withdraw, GoOffline, GoOnline, Restart, Crash, verifications,
       Waits, Ended, Follows
  <2>4. ASSUME NEW w \in Verification, NEW k \in SigningKey, Present(w, k)
        PROVE  Onward(v)
    BY <2>4 DEF Present, TypeOK, Follows
  <2>5. ASSUME NEW w \in Verification, Verify(w) \/ GiveUp(w)
        PROVE  Onward(v)
    BY <2>5 DEF Verify, LookUp, StartFetch, JoinFetch, JoinOver, GiveUp, Verdict, TypeOK, Follows,
       Ended
  <2> QED
    BY <2>1, <2>2, <2>3, <2>4, <2>5 DEF Next, Request, Reply, Settle
<1> QED
  BY <1>1, PlainTypes, NotedIsPlain, PTL DEF SpecNoted
=============================================================================
