------------------------------ MODULE Exchange ------------------------------
(***************************************************************************)
(* What the enclave relies on when it posts a raw gateway key to an        *)
(* operator's cp-adapter (resolveCapability in cmd/fid-proxy): each        *)
(* question is answered at most once, and a token is the answer only for a *)
(* key the gateway accepted at some moment between question and answer,    *)
(* and never for longer than the operator's token life.                    *)
(*                                                                         *)
(* The gateway is the operator's own system.  It keeps an account per key  *)
(* and may change it at any time; `seen` is a history variable, the        *)
(* accounts a key had while its question was open.                         *)
(***************************************************************************)
EXTENDS Integers

CONSTANTS
    Reqs,       \* exchanges
    Keys,       \* gateway keys
    Accounts,   \* what the gateway may hold for a key
    TTL,        \* life of a token, in seconds
    MaxNow,     \* bound on the clock
    None        \* not asked, not answered, unknown, no limit

VARIABLES now, acct, asked, seen, answer

vars == <<now, acct, asked, seen, answer>>

\* 0 is a connection closed without an answer.
Codes == {0, 200, 401, 403, 503}

\* `at` is when it was given; exp and max belong to a token and are 0 elsewhere.
Reply == [code: Codes, at: Nat, exp: Nat, max: Int]

Init ==
    /\ now = 0
    /\ acct \in [Keys -> Accounts]
    /\ asked = [r \in Reqs |-> None]
    /\ seen = [r \in Reqs |-> {}]
    /\ answer = [r \in Reqs |-> None]

Open(r) == asked[r] # None /\ answer[r] = None

Ask(r, k) ==
    /\ asked[r] = None
    /\ asked' = [asked EXCEPT ![r] = k]
    /\ seen' = [seen EXCEPT ![r] = {acct[k]}]
    /\ UNCHANGED <<now, acct, answer>>

\* The operator revokes, regroups, tops up, spends.
GatewayChanges(k, a) ==
    /\ acct' = [acct EXCEPT ![k] = a]
    /\ seen' = [r \in Reqs |-> IF Open(r) /\ asked[r] = k
                               THEN seen[r] \cup {a} ELSE seen[r]]
    /\ UNCHANGED <<now, asked, answer>>

Tick ==
    /\ now < MaxNow
    /\ now' = now + 1
    /\ UNCHANGED <<acct, asked, seen, answer>>

Justified(r, a) ==
    /\ \E rec \in seen[r] : rec.ok
    /\ a.exp \in now..(now + TTL)

Answer(r) ==
    /\ Open(r)
    /\ answer'[r] \in Reply
    /\ answer'[r].at = now
    /\ answer'[r].code = 200 => Justified(r, answer'[r])
    /\ answer' = [answer EXCEPT ![r] = answer'[r]]
    /\ UNCHANGED <<now, acct, asked, seen>>

Next ==
    \/ \E r \in Reqs, k \in Keys : Ask(r, k)
    \/ \E k \in Keys, a \in Accounts : GatewayChanges(k, a)
    \/ \E r \in Reqs : Answer(r)
    \/ Tick

Spec == Init /\ [][Next]_vars

-----------------------------------------------------------------------------
\* What it comes to.  A token stands for a key the gateway accepted while its
\* question was open, and ends within the operator's token life.
TokensWereAccepted ==
    \A r \in Reqs : answer[r] # None =>
        (answer[r].code = 200 =>
            /\ \E rec \in seen[r] : rec.ok
            /\ answer[r].exp \in answer[r].at..(answer[r].at + TTL))

\* An answer is never taken back, and nothing that comes later counts for it.
AnswersAreFinal ==
    [][\A r \in Reqs : answer[r] # None =>
            /\ answer'[r] = answer[r]
            /\ asked'[r] = asked[r] /\ seen'[r] = seen[r]]_vars
=============================================================================
