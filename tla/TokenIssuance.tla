---------------------------- MODULE TokenIssuance ----------------------------
(***************************************************************************)
(* What the broker promises to those who trust it, without handlers,       *)
(* network or loops.  Each request has a due: the one token scope the      *)
(* policies entitle it to, or none.  A token exists only for a request     *)
(* that has a due, with exactly that scope, and at most once; a deny is    *)
(* recorded only when there is no token and none will follow; a token is   *)
(* given away only after the issue was recorded.                           *)
(*                                                                         *)
(* A request may also fail or be lost with a token issued at GitHub: the   *)
(* specification allows it, because no broker can exclude it.              *)
(***************************************************************************)
CONSTANTS RequestId, TokenScope, NoScope

VARIABLES due,      \* what each request is entitled to
          issued,   \* the scope of the token that exists for it
          record,   \* what the audit log says of it
          answer    \* what became of it

issuanceVars == <<due, issued, record, answer>>

Answer == {"not asked", "awaited", "token", "refusal", "failure", "lost"}

IssuanceInit == /\ due = [q \in RequestId |-> NoScope]
                /\ issued = [q \in RequestId |-> NoScope]
                /\ record = [q \in RequestId |-> "none"]
                /\ answer = [q \in RequestId |-> "not asked"]

Ask(q, scope) == /\ answer[q] = "not asked"
                 /\ answer' = [answer EXCEPT ![q] = "awaited"]
                 /\ due' = [due EXCEPT ![q] = scope]
                 /\ UNCHANGED <<issued, record>>

\* May come after the request failed or was lost, never after a deny or a
\* refusal.
Issue(q) == /\ answer[q] \in {"awaited", "failure", "lost"}
            /\ due[q] # NoScope
            /\ issued[q] = NoScope
            /\ record[q] = "none"
            /\ issued' = [issued EXCEPT ![q] = due[q]]
            /\ UNCHANGED <<due, record, answer>>

RecordAllow(q) == /\ answer[q] = "awaited"
                  /\ issued[q] # NoScope /\ record[q] = "none"
                  /\ record' = [record EXCEPT ![q] = "allow"]
                  /\ UNCHANGED <<due, issued, answer>>

RecordDeny(q) == /\ answer[q] = "awaited"
                 /\ issued[q] = NoScope /\ record[q] = "none"
                 /\ record' = [record EXCEPT ![q] = "deny"]
                 /\ UNCHANGED <<due, issued, answer>>

GiveToken(q) == /\ answer[q] = "awaited" /\ record[q] = "allow"
                /\ answer' = [answer EXCEPT ![q] = "token"]
                /\ UNCHANGED <<due, issued, record>>

\* A request with a due is refused only on record.
Refuse(q) == /\ answer[q] = "awaited"
             /\ record[q] = "deny" \/ (record[q] = "none" /\ due[q] = NoScope)
             /\ answer' = [answer EXCEPT ![q] = "refusal"]
             /\ UNCHANGED <<due, issued, record>>

Fail(q) == /\ answer[q] = "awaited" /\ record[q] = "none"
           /\ answer' = [answer EXCEPT ![q] = "failure"]
           /\ UNCHANGED <<due, issued, record>>

\* One client goes away, or the process ends under several requests at once.
Lose(Q) == /\ Q # {} /\ \A q \in Q : answer[q] = "awaited"
           /\ answer' = [q \in RequestId |-> IF q \in Q THEN "lost" ELSE answer[q]]
           /\ UNCHANGED <<due, issued, record>>

IssuanceNext ==
    \/ \E q \in RequestId :
          \/ \E scope \in TokenScope \cup {NoScope} : Ask(q, scope)
          \/ Issue(q)
          \/ RecordAllow(q) \/ RecordDeny(q)
          \/ GiveToken(q) \/ Refuse(q) \/ Fail(q)
    \/ \E Q \in SUBSET RequestId : Lose(Q)

IssuanceSpec == IssuanceInit /\ [][IssuanceNext]_issuanceVars
==============================================================================
