----------------------------- MODULE CpAdapter ------------------------------
(***************************************************************************)
(* The control-plane bridge an operator runs (cp-adapter): POST /exchange  *)
(* asks the operator's gateway about a key through a validator and mints a *)
(* capability token.  Handlers run concurrently and keep nothing.          *)
(*                                                                         *)
(* Between asking and answering the gateway goes on changing: what it said *)
(* is used later than it was true, and the newapi validator asks twice.    *)
(* Requests that never reach the validator (bad JSON, no key) and what     *)
(* else the answer carries (tenant, models, URLs) are left out.            *)
(***************************************************************************)
EXTENDS Exchange, FiniteSets

CONSTANTS
    Groups,     \* lanes
    Configs,    \* the environments the adapter may be started in
    MinTTL      \* 60 seconds

VARIABLES
    cfg,        \* the validator and the policies, read once at start
    pc,         \* how far each handler got
    verdict     \* what the validator has made of the gateway's answers

aVars == <<vars, cfg, pc, verdict>>

\* What the gateway holds for a key: `limit` is its user's, `left` the key's
\* own (None: unlimited to newapi, not reported to the others).
Account == [ok: BOOLEAN, limit: Nat, left: Nat \cup {None},
            group: Groups \cup {None}, expires: Nat \cup {None}]

\* VALIDATOR, NEWAPI_ADMIN_TOKEN, ALLOWED_GROUPS and QUOTA_UNKNOWN.
Config == [kind: {"newapi", "http", "exec"}, admin: BOOLEAN,
           groups: SUBSET Groups, unknown: {"refuse", "cap"}, cap: Nat]

Verdict == [status: {"ok", "refused", "unavailable", "broken"},
            remaining: Nat \cup {None}, group: Groups \cup {None},
            expires: Nat \cup {None}]

ASSUME CpAdapterAssumption ==
    /\ Accounts \subseteq Account
    /\ Configs \subseteq Config
    /\ TTL \in Nat /\ MinTTL \in 1..TTL /\ MaxNow \in Nat
    /\ None \notin Nat \cup Keys \cup Groups \cup Reply \cup Verdict

TypeOK ==
    /\ now \in 0..MaxNow
    /\ acct \in [Keys -> Accounts]
    /\ asked \in [Reqs -> Keys \cup {None}]
    /\ seen \in [Reqs -> SUBSET Accounts]
    /\ answer \in [Reqs -> Reply \cup {None}]
    /\ cfg \in Configs
    /\ pc \in [Reqs -> {"idle", "asked", "admin", "verdict", "done"}]
    /\ verdict \in [Reqs -> Verdict \cup {None}]

AdapterInit ==
    /\ Init
    /\ cfg \in Configs
    /\ pc = [r \in Reqs |-> "idle"]
    /\ verdict = [r \in Reqs |-> None]

-----------------------------------------------------------------------------
\* The validators.

NoToken(status) ==
    [status |-> status, remaining |-> None, group |-> None, expires |-> None]

\* The billing endpoint of newapi knows the user's limit; the http and exec
\* contracts report the key's own terms.  An expiry of 0 is none at all.
Accepted(a) ==
    IF cfg.kind = "newapi"
    THEN [status |-> "ok", remaining |-> a.limit,
          group |-> None, expires |-> None]
    ELSE [status |-> "ok", remaining |-> a.left, group |-> a.group,
          expires |-> IF a.expires = 0 THEN None ELSE a.expires]

\* An answer that parses and lacks the field looked for: hard_limit_usd, ok,
\* or everything (an exec validator that prints nothing).
GarbledAccepted == [NoToken("ok") EXCEPT !.remaining = 0]

Garbled == NoToken("refused")

\* The gateway has answered, or has not: unreachable, timed out, an HTTP error
\* other than newapi's 401 and 403, a non-zero exit, not JSON.  newapi's limit
\* need not be a number, which no handler catches.
Answers(a) ==
    (IF a.ok THEN {Accepted(a)} ELSE {NoToken("refused")})
    \cup {Garbled, NoToken("unavailable")}
    \cup (IF cfg.kind = "newapi" THEN {NoToken("broken")} ELSE {})

Larger(x, y) == IF x >= y THEN x ELSE y

Lesser(x, y) == IF x <= y THEN x ELSE y

NarrowedUp(v, a) ==
    IF a.left = None THEN v.remaining ELSE Larger(v.remaining, a.left)

\* The key's own remaining quota, if it has one, caps the user's.
Narrowed(v, a) ==
    IF a.left = None THEN v.remaining ELSE Lesser(v.remaining, a.left)

\* The admin lookup is best effort: it fails or does not list the key, it finds
\* it, or it fails between the group and the quota.
Listed(v, a) ==
    {v, [v EXCEPT !.group = a.group],
     [v EXCEPT !.group = a.group, !.remaining = Narrowed(v, a)]}

-----------------------------------------------------------------------------
\* The handler.

Receive(r, k) ==
    /\ pc[r] = "idle"
    /\ Ask(r, k)
    /\ pc' = [pc EXCEPT ![r] = "asked"]
    /\ UNCHANGED <<cfg, verdict>>

\* The gateway's answer is what it holds at this moment; it is on its way back
\* until the handler goes on.
Validate(r) ==
    /\ pc[r] = "asked"
    /\ \E v \in Answers(acct[asked[r]]) :
          /\ verdict' = [verdict EXCEPT ![r] = v]
          /\ pc' = [pc EXCEPT ![r] =
                      IF cfg.kind = "newapi" /\ cfg.admin /\ v.status = "ok"
                      THEN "admin" ELSE "verdict"]
    /\ UNCHANGED <<vars, cfg>>

AdminLookup(r) ==
    /\ pc[r] = "admin"
    /\ \E v \in Listed(verdict[r], acct[asked[r]]) :
          verdict' = [verdict EXCEPT ![r] = v]
    /\ pc' = [pc EXCEPT ![r] = "verdict"]
    /\ UNCHANGED <<vars, cfg>>

LaneOpenUnlessKnown(v) ==
    cfg.groups = {} \/ v.group = None \/ v.group \in cfg.groups

\* ALLOWED_GROUPS: no restriction, or the verdict carries one of them.
LaneOpen(v) == cfg.groups = {} \/ v.group \in cfg.groups

QuotaKnown(v) == v.remaining # None \/ cfg.unknown = "cap"

CeilingUncapped(v) == v.remaining

Ceiling(v) == IF v.remaining = None THEN cfg.cap ELSE v.remaining

LifeUnshortened(v) == TTL

\* Shortened to the key's own expiry, but not below a minute.
Life(v) ==
    IF v.expires = None THEN TTL
    ELSE Larger(MinTTL, Lesser(TTL, v.expires - now))

Refusal(code) == [code |-> code, at |-> now, exp |-> 0, max |-> 0]

Token(v) == [code |-> 200, at |-> now, exp |-> now + Life(v),
             max |-> Ceiling(v)]

\* do_POST once the validator has returned, in the order of its checks.
Outcome(v) ==
    IF v.status = "broken" THEN Refusal(0)
    ELSE IF v.status = "unavailable" THEN Refusal(503)
    ELSE IF v.status = "refused" THEN Refusal(401)
    ELSE IF ~LaneOpen(v) THEN Refusal(IF v.group = None THEN 503 ELSE 403)
    ELSE IF ~QuotaKnown(v) THEN Refusal(503)
    ELSE Token(v)

Conclude(r) ==
    /\ pc[r] = "verdict"
    /\ answer' = [answer EXCEPT ![r] = Outcome(verdict[r])]
    /\ pc' = [pc EXCEPT ![r] = "done"]
    /\ UNCHANGED <<now, acct, asked, seen, cfg, verdict>>

Environment ==
    /\ \/ \E k \in Keys, a \in Accounts : GatewayChanges(k, a)
       \/ Tick
    /\ UNCHANGED <<cfg, pc, verdict>>

AdapterNext ==
    \/ \E r \in Reqs :
          \/ \E k \in Keys : Receive(r, k)
          \/ Validate(r)
          \/ AdminLookup(r)
          \/ Conclude(r)
    \/ Environment

AdapterSpec == AdapterInit /\ [][AdapterNext]_aVars

-----------------------------------------------------------------------------
\* The properties.

\* A token is minted only for a key that was in an allowed lane at some moment
\* of its exchange, whatever failed or was missing on the way (adapter.py:137
\* "a gate that passes when it cannot prove the group is worse than no gate").
LaneIsGated ==
    \A r \in Reqs : answer[r] # None =>
        (answer[r].code = 200 /\ cfg.groups # {} =>
            \E a \in seen[r] : a.group \in cfg.groups)

\* It grants no more than the gateway let the key have at some moment of the
\* exchange when it accepted it, and the configured cap when the gateway named
\* no limit (validators.py:43 "unknown -> policy decides, never unlimited").
GrantWithinQuota ==
    \A r \in Reqs : answer[r] # None =>
        (answer[r].code = 200 =>
            \E a \in seen[r] :
                /\ a.ok
                /\ cfg.kind = "newapi" => answer[r].max <= a.limit
                /\ cfg.kind # "newapi" =>
                      IF a.left # None THEN answer[r].max <= a.left
                      ELSE cfg.unknown = "cap" /\ answer[r].max <= cfg.cap)

\* Where the validator reports an expiry, the token outlives it by less than
\* the floor of a minute, however long the gateway took to answer.
TokenEndsSoonAfterKey ==
    \A r \in Reqs : answer[r] # None =>
        (answer[r].code = 200 /\ cfg.kind # "newapi" =>
            \E a \in seen[r] :
                /\ a.ok
                /\ \/ a.expires \in {None, 0}
                   \/ answer[r].exp <= Larger(a.expires,
                                              answer[r].at + MinTTL))

\* The adapter keeps the promise the enclave relies on.
Promise == INSTANCE Exchange

KeepsPromise == Promise!Spec

\* A token ends no later than its key (docs/GATEWAY_INTEGRATION.md:33 "Optional
\* unix time; the capability token is shortened to match").
TokenEndsWithKey ==
    \A r \in Reqs : answer[r] # None =>
        (answer[r].code = 200 /\ cfg.kind # "newapi" =>
            \E a \in seen[r] :
                a.ok /\ (a.expires \in {None, 0} \/ answer[r].exp <= a.expires))

\* A key the http and exec validators call bad is one the gateway held for bad
\* (docs/GATEWAY_INTEGRATION.md:40 "your gateway is unreachable or answers
\* garbage. cp-adapter answers `503`", and the test of the validators at
\* test_validators.py:4 "a refusal and an outage are never confused").
RefusalIsTheGateways ==
    \A r \in Reqs : answer[r] # None =>
        (answer[r].code = 401 /\ cfg.kind # "newapi" =>
            \E a \in seen[r] : ~a.ok)
=============================================================================
