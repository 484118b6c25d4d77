------------------------------ MODULE FidProxy ------------------------------
(***************************************************************************)
(* The enclave data plane (cmd/fid-proxy): HTTP handlers that run          *)
(* concurrently over the delegation store, the BYOK store, the router and  *)
(* the attestation sessions, and call out to cp-adapters and upstreams.    *)
(*                                                                         *)
(* A request is a handler goroutine.  It advances by one access to shared  *)
(* state, or one answer of a remote party, per step; purely local work is  *)
(* part of the step it follows.  The kinds are the handlers that go        *)
(* through authClaims: "infer", "chat", "models" and "byok".               *)
(***************************************************************************)
EXTENDS Routing

CONSTANTS
    \* the delegation store
    Relays, CpKeys, Adapters, RootPub, Docs, MaxNow,
    \* the server
    Reqs,           \* handler goroutines
    Inputs,         \* the requests clients send
    Tokens,         \* capability tokens in circulation
    RawKey,         \* a gateway key, which no control plane has signed
    Models, AnyModel,
    Sessions,       \* attestation session ids
    BakedCp,        \* server.cpPub
    BakedAdapter,   \* server.cpAdapterURL, None when not configured
    AdapterCp,      \* the key each adapter mints under
    PoolKey,        \* an upstream key of the pool file, as KMS releases it
    RuntimeKeyed,   \* accounts of the pool with no key: "sealed-runtime"
    Gated,          \* accounts whose key KMS refuses to this build
    SessionTTL,     \* 2 minutes
    MaxBoot,        \* bound on restarts
    None            \* nil, the empty string, not there

VARIABLES
    now,
    boot,           \* which boot of the enclave; names the sealing key too
    dels, pending,  \* server.dels, and the pushes between Verify and the lock
    byok,           \* server.byok
    used,           \* server.rt.used
    sess,           \* the attester's sessions: id -> expiry
    in,             \* what each handler was asked
    pc,             \* how far it got
    signer,         \* authClaims' signer: the key the claims must verify under
    target,         \* the adapter the credential was posted to
    tok,            \* the capability token in hand
    acct,           \* the account Pick chose
    upKey,          \* the upstream key resolveKey returned
    status,         \* the HTTP status answered, 0 before
    meter           \* the request's metering post

Dels == INSTANCE Delegation WITH byID <- dels

storeVars == <<now, boot, dels, pending, byok, used, sess>>
reqVars == <<in, pc, signer, target, tok, acct, upKey, status, meter>>
vars == <<storeVars, reqVars>>

-----------------------------------------------------------------------------
\* token.Claims with the key whose signature covers it; exp = 0 never expires.
Token == [cp: CpKeys, pool: Pools, models: SUBSET (Models \cup {AnyModel}),
          exp: Nat]

Kinds == {"infer", "chat", "models", "byok"}

\* A request that gets as far as authClaims.  fp and need are what the handler
\* derives from the prompt; bodyOK is false for a body it cannot use after that
\* (stream=true, a seal that does not open, a short blob); account, sealedFor
\* and blank (the sealed key is the empty string) belong to /byok, session to
\* /v1/infer.
Input == [kind: Kinds, relay: Relays \cup {None},
          cred: Tokens \cup {RawKey, None}, model: Models, fp: Fps,
          need: Needs, bodyOK: BOOLEAN, session: Sessions \cup {None},
          account: Accounts, sealedFor: Nat, blank: BOOLEAN]

\* An upstream key put in through /byok: the control plane whose token
\* authorised it and the boot it was sealed to.
SealedKey == [owner: CpKeys, boot: Nat]

ASSUME FidProxyAssumption ==
    /\ Tokens \subseteq Token
    /\ Inputs \subseteq Input
    /\ Docs \subseteq Dels!Document
    /\ BakedCp \in CpKeys
    /\ RootPub \in CpKeys \cup {None}
    /\ BakedAdapter \in Adapters \cup {None}
    /\ AdapterCp \in [Adapters -> CpKeys]
    /\ RuntimeKeyed \subseteq Accounts /\ Gated \subseteq Accounts
    /\ SessionTTL \in Nat /\ MaxNow \in Nat /\ MaxBoot \in Nat \ {0}
    \* None and the two special credentials and keys are values of their own
    /\ None \notin Token \cup Input \cup Dels!Document \cup SealedKey
    /\ None \notin Relays \cup CpKeys \cup Adapters \cup Sessions \cup Accounts
    /\ RawKey \notin Token \cup {None}
    /\ PoolKey \notin SealedKey \cup {None}

Waiting == {"resolve", "exchange", "verify", "authed", "opened", "picked",
            "forward"}

Statuses == {200, 400, 401, 403, 502}

\* Session ids that were never handed out, and forgotten ones.
Unused == -1
Gone == -2

TypeOK ==
    /\ now \in 0..MaxNow
    /\ boot \in 1..MaxBoot
    /\ dels \in [Relays -> Docs \cup {None}]
    /\ pending \in SUBSET Docs
    /\ byok \in [CpKeys -> [Accounts -> SealedKey \cup {None}]]
    /\ used \in [Accounts -> Nat]
    /\ sess \in [Sessions -> Nat \cup {Unused, Gone}]
    /\ in \in [Reqs -> Inputs \cup {None}]
    /\ pc \in [Reqs -> Waiting \cup {"idle", "done", "gone"}]
    /\ signer \in [Reqs -> CpKeys \cup {None}]
    /\ target \in [Reqs -> Adapters \cup {None}]
    /\ tok \in [Reqs -> Tokens \cup {None}]
    /\ acct \in [Reqs -> Accounts \cup {None}]
    /\ upKey \in [Reqs -> SealedKey \cup {None, PoolKey}]
    /\ status \in [Reqs -> Statuses \cup {0}]
    /\ meter \in [Reqs -> {"none", "posted", "delivered", "lost"}]

EmptyByok == [k \in CpKeys |-> [a \in Accounts |-> None]]

Init ==
    /\ now = 0
    /\ boot = 1
    /\ dels = [r \in Relays |-> None]
    /\ pending = {}
    /\ byok = EmptyByok
    /\ used = [a \in Accounts |-> 0]
    /\ sess = [s \in Sessions |-> Unused]
    /\ in = [r \in Reqs |-> None]
    /\ pc = [r \in Reqs |-> "idle"]
    /\ signer = [r \in Reqs |-> None]
    /\ target = [r \in Reqs |-> None]
    /\ tok = [r \in Reqs |-> None]
    /\ acct = [r \in Reqs |-> None]
    /\ upKey = [r \in Reqs |-> None]
    /\ status = [r \in Reqs |-> 0]
    /\ meter = [r \in Reqs |-> "none"]

-----------------------------------------------------------------------------
\* /delegation, the clock and /attestation.

PushVerify(d) ==
    /\ Dels!PutVerify(d)
    /\ UNCHANGED <<now, boot, byok, used, sess, reqVars>>

PushStore(d) ==
    /\ Dels!PutStore(d)
    /\ UNCHANGED <<now, boot, byok, used, sess, reqVars>>

Tick ==
    /\ Dels!Tick
    /\ UNCHANGED <<boot, byok, used, sess, reqVars>>

\* gcLocked deletes what has expired, then the new session goes in.
Attest(s) ==
    /\ sess[s] = Unused
    /\ sess' = [x \in Sessions |->
                  IF x = s THEN now + SessionTTL
                  ELSE IF sess[x] >= 0 /\ now > sess[x] THEN Gone
                  ELSE sess[x]]
    /\ UNCHANGED <<now, boot, dels, pending, byok, used, reqVars>>

\* SessionKey finds the session: known to this boot and not expired.
SessionLive(s) == sess[s] >= 0 /\ now <= sess[s]

-----------------------------------------------------------------------------
\* Authorisation: authClaims and resolveCapability.

\* token.Verify: the key's signature covers it and it has not expired.
Valid(t, k) ==
    /\ t \in Tokens
    /\ t.cp = k
    /\ t.exp = 0 \/ now <= t.exp

\* Who may sign for a request and who exchanges its raw keys: the operator's
\* delegation under a relay id, else what is baked in.  None when the relay id
\* has no usable delegation.
AuthorityFallingBack(relay) ==
    LET d == IF relay = None THEN None ELSE Dels!Get(relay)
    IN  IF d = None THEN [cp |-> BakedCp, adapter |-> BakedAdapter]
        ELSE [cp |-> d.partner, adapter |-> d.adapter]

Authority(relay) ==
    IF relay = None THEN [cp |-> BakedCp, adapter |-> BakedAdapter]
    ELSE LET d == Dels!Get(relay)
         IN  IF d = None THEN None
             ELSE [cp |-> d.partner, adapter |-> d.adapter]

Advance(r, to) == pc' = [pc EXCEPT ![r] = to] /\ UNCHANGED status

Answer(r, code) ==
    /\ pc' = [pc EXCEPT ![r] = "done"]
    /\ status' = [status EXCEPT ![r] = code]

\* A request comes in and authClaims reads the delegation for the first time,
\* to pin the signer.  A client has its session and its sealing key from this
\* boot or an earlier one.
Arrive(r, i) ==
    /\ pc[r] = "idle"
    /\ i.kind = "infer" => i.session # None /\ sess[i.session] # Unused
    /\ i.kind = "byok" => i.sealedFor \in 1..boot
    /\ in' = [in EXCEPT ![r] = i]
    /\ LET auth == Authority(i.relay)
       IN  \/ auth = None /\ Answer(r, 401) /\ UNCHANGED signer
           \/ /\ auth # None
              /\ Advance(r, "resolve")
              /\ signer' = [signer EXCEPT ![r] = auth.cp]
    /\ UNCHANGED <<storeVars, target, tok, acct, upKey, meter>>

\* resolveCapability reads the delegation again.  A credential that verifies
\* is the token; anything else is posted to the adapter.
Resolve(r) ==
    LET cred == in[r].cred
        auth == Authority(in[r].relay)
    IN  /\ pc[r] = "resolve"
        /\ \/ /\ cred = None \/ auth = None
              /\ Answer(r, 401)
              /\ UNCHANGED <<tok, target>>
           \/ /\ cred # None /\ auth # None
              /\ Valid(cred, auth.cp)
              /\ tok' = [tok EXCEPT ![r] = cred]
              /\ Advance(r, "verify")
              /\ UNCHANGED target
           \/ /\ cred # None /\ auth # None
              /\ ~Valid(cred, auth.cp)
              /\ UNCHANGED tok
              /\ \/ /\ auth.adapter = None
                    /\ Answer(r, 401)
                    /\ UNCHANGED target
                 \/ /\ auth.adapter # None
                    /\ target' = [target EXCEPT ![r] = auth.adapter]
                    /\ Advance(r, "exchange")
        /\ UNCHANGED <<storeVars, in, signer, acct, upKey, meter>>

\* The adapter validates a raw key and mints a token of its own operator.
ExchangeReply(r, t) ==
    /\ pc[r] = "exchange"
    /\ in[r].cred = RawKey
    /\ Valid(t, AdapterCp[target[r]])
    /\ tok' = [tok EXCEPT ![r] = t]
    /\ Advance(r, "verify")
    /\ UNCHANGED <<storeVars, in, signer, target, acct, upKey, meter>>

\* With a client that waits for the adapter for ever.
ExchangeFailNoTimeout(r) ==
    /\ pc[r] = "exchange"
    /\ in[r].cred # RawKey
    /\ Answer(r, 401)
    /\ UNCHANGED <<storeVars, in, signer, target, tok, acct, upKey, meter>>

\* It refuses, is out of reach, times out, or returns no token.
ExchangeFail(r) ==
    /\ pc[r] = "exchange"
    /\ Answer(r, 401)
    /\ UNCHANGED <<storeVars, in, signer, target, tok, acct, upKey, meter>>

\* The last check of authClaims, against the signer of the first read.
VerifyNothing(r) ==
    /\ pc[r] = "verify"
    /\ Advance(r, "authed")
    /\ UNCHANGED <<storeVars, in, signer, target, tok, acct, upKey, meter>>

VerifyToken(r) ==
    /\ pc[r] = "verify"
    /\ \/ Valid(tok[r], signer[r]) /\ Advance(r, "authed")
       \/ ~Valid(tok[r], signer[r]) /\ Answer(r, 401)
    /\ UNCHANGED <<storeVars, in, signer, target, tok, acct, upKey, meter>>

-----------------------------------------------------------------------------
\* After authorisation: /v1/models and /byok.

ListModels(r) ==
    /\ pc[r] = "authed"
    /\ in[r].kind = "models"
    /\ Answer(r, 200)
    /\ UNCHANGED <<storeVars, in, signer, target, tok, acct, upKey, meter>>

\* unsealBYOK opens the blob with this boot's sealing key.
OpensAnyBoot(i) == i.bodyOK

Opens(i) == i.bodyOK /\ i.sealedFor = boot

\* The namespace a provisioned key is filed under: byokKey(provisioner, _).
ProvisionUnderBaked(r) == BakedCp

ProvisionUnder(r) == signer[r]

Sealed(r) == [owner |-> tok[r].cp, boot |-> in[r].sealedFor]

FiledUnlessBlank(r) ==
    IF in[r].blank THEN byok[ProvisionUnder(r)][in[r].account] ELSE Sealed(r)

\* An empty key is stored like any other, which makes it no key at all.
Filed(r) == IF in[r].blank THEN None ELSE Sealed(r)

Provision(r) ==
    /\ pc[r] = "authed"
    /\ in[r].kind = "byok"
    /\ \/ ~Opens(in[r]) /\ Answer(r, 400) /\ UNCHANGED byok
       \/ /\ Opens(in[r])
          /\ byok' = [byok EXCEPT ![ProvisionUnder(r)][in[r].account] = Filed(r)]
          /\ Answer(r, 200)
    /\ UNCHANGED <<now, boot, dels, pending, used, sess,
                   in, signer, target, tok, acct, upKey, meter>>

-----------------------------------------------------------------------------
\* After authorisation: /v1/infer and /v1/chat/completions.

\* The E2EE session is looked up (and not consumed), the prompt decrypted.
OpenSession(r) ==
    /\ pc[r] = "authed"
    /\ in[r].kind = "infer"
    /\ \/ /\ SessionLive(in[r].session) /\ in[r].bodyOK
          /\ Advance(r, "opened")
       \/ /\ ~SessionLive(in[r].session) \/ ~in[r].bodyOK
          /\ Answer(r, 400)
    /\ UNCHANGED <<storeVars, in, signer, target, tok, acct, upKey, meter>>

\* The compatible path reads its body after it has authorised the request: once
\* the client has sent it, or the connection is broken (see AwaitsBody).
DecodeChat(r) ==
    /\ pc[r] = "authed"
    /\ in[r].kind = "chat"
    /\ \/ in[r].bodyOK /\ Advance(r, "opened")
       \/ ~in[r].bodyOK /\ Answer(r, 400)
    /\ UNCHANGED <<storeVars, in, signer, target, tok, acct, upKey, meter>>

AllowsModel(t, m) == m \in t.models \/ AnyModel \in t.models

\* Model allow-list, then Router.Pick on the pool the token names.
PickAccount(r) ==
    /\ pc[r] = "opened"
    /\ LET i == in[r]
           pool == tok[r].pool
       IN  \/ /\ ~AllowsModel(tok[r], i.model)
              /\ Answer(r, 403)
              /\ UNCHANGED <<acct, used>>
           \/ /\ AllowsModel(tok[r], i.model) /\ Members[pool] = {}
              /\ Answer(r, 502)
              /\ UNCHANGED <<acct, used>>
           \/ /\ AllowsModel(tok[r], i.model) /\ Members[pool] # {}
              /\ LET a == Choice(used, pool, i.fp, i.need)
                 IN  /\ acct' = [acct EXCEPT ![r] = a]
                     /\ used' = Charged(used, a, i.need)
              /\ Advance(r, "picked")
    /\ UNCHANGED <<now, boot, dels, pending, byok, sess,
                   in, signer, target, tok, upKey, meter>>

\* Keys filed by account alone: whatever the account has.
ResolvedKeyOfAny(a, k) ==
    IF a \notin RuntimeKeyed THEN PoolKey
    ELSE IF \E p \in CpKeys : byok[p][a] # None
         THEN byok[CHOOSE p \in CpKeys : byok[p][a] # None][a]
         ELSE None

\* What resolveKey finds for an account: the KMS first, then the BYOK store
\* under the key that authorised the request.
ResolvedKey(a, k) == IF a \in RuntimeKeyed THEN byok[k][a] ELSE PoolKey

\* The metering post started with the call upstream.
ResolveKeyAndMeter(r) ==
    LET a == acct[r]
        key == ResolvedKey(a, signer[r])
    IN  /\ pc[r] = "picked"
        /\ a \notin Gated /\ key # None
        /\ upKey' = [upKey EXCEPT ![r] = key]
        /\ Advance(r, "forward")
        /\ meter' = [meter EXCEPT ![r] = "posted"]
        /\ UNCHANGED <<storeVars, in, signer, target, tok, acct>>

ResolveKey(r) ==
    LET a == acct[r]
        key == ResolvedKey(a, signer[r])
    IN  /\ pc[r] = "picked"
        /\ \/ /\ a \in Gated \/ key = None
              /\ Answer(r, 502)
              /\ UNCHANGED upKey
           \/ /\ a \notin Gated /\ key # None
              /\ upKey' = [upKey EXCEPT ![r] = key]
              /\ Advance(r, "forward")
        /\ UNCHANGED <<storeVars, in, signer, target, tok, acct, meter>>

\* The upstream answered: receipt signed, metering post started (a metering URL
\* is configured), response out.
UpstreamOK(r) ==
    /\ pc[r] = "forward"
    /\ Answer(r, 200)
    /\ meter' = [meter EXCEPT ![r] = "posted"]
    /\ UNCHANGED <<storeVars, in, signer, target, tok, acct, upKey>>

\* Refused base URL, network error, time-out, status other than 200.
UpstreamFail(r) ==
    /\ pc[r] = "forward"
    /\ Answer(r, 502)
    /\ UNCHANGED <<storeVars, in, signer, target, tok, acct, upKey, meter>>

\* emitMetering's goroutine: one attempt, no retry.
MeterEnds(r) ==
    /\ meter[r] = "posted"
    /\ \E how \in {"delivered", "lost"} : meter' = [meter EXCEPT ![r] = how]
    /\ UNCHANGED <<storeVars, in, pc, signer, target, tok, acct, upKey, status>>
-----------------------------------------------------------------------------
\* The enclave stops and starts again.  Delegations, provisioned keys, counters
\* and sessions were in RAM; handlers and their connections are gone, and the
\* new boot has a new sealing key.
Restart ==
    /\ boot < MaxBoot
    /\ boot' = boot + 1
    /\ Dels!Forget
    /\ byok' = EmptyByok
    /\ used' = [a \in Accounts |-> 0]
    /\ sess' = [s \in Sessions |-> IF sess[s] = Unused THEN Unused ELSE Gone]
    /\ in' = [r \in Reqs |-> None]
    /\ pc' = [r \in Reqs |-> IF pc[r] = "idle" THEN "idle" ELSE "gone"]
    /\ signer' = [r \in Reqs |-> None]
    /\ target' = [r \in Reqs |-> None]
    /\ tok' = [r \in Reqs |-> None]
    /\ acct' = [r \in Reqs |-> None]
    /\ upKey' = [r \in Reqs |-> None]
    /\ status' = [r \in Reqs |-> 0]
    /\ meter' = [r \in Reqs |->
                   IF meter[r] = "posted" THEN "lost" ELSE meter[r]]
    /\ UNCHANGED now

Handle(r) ==
    \/ Resolve(r)
    \/ \E t \in Tokens : ExchangeReply(r, t)
    \/ ExchangeFail(r)
    \/ VerifyToken(r)
    \/ ListModels(r)
    \/ Provision(r)
    \/ OpenSession(r)
    \/ DecodeChat(r)
    \/ PickAccount(r)
    \/ ResolveKey(r)
    \/ UpstreamOK(r)
    \/ UpstreamFail(r)

Next ==
    \/ \E d \in Docs : PushVerify(d) \/ PushStore(d)
    \/ Tick
    \/ \E s \in Sessions : Attest(s)
    \/ \E r \in Reqs :
          \/ \E i \in Inputs : Arrive(r, i)
          \/ Handle(r)
          \/ MeterEnds(r)
    \/ Restart

Spec == Init /\ [][Next]_vars

\* The servers set no read time-out: a client that stalls its body holds the
\* handler for as long as it likes.
AwaitsBody(r) == pc[r] = "authed" /\ in[r].kind = "chat"

\* The Go scheduler runs every handler, no lock is held across a call, and
\* every call out of the enclave has a 120-second time-out.  Nothing makes a
\* client send the rest of its body.
Fairness ==
    \A r \in Reqs :
        WF_vars(Handle(r) /\ ~AwaitsBody(r)) /\ WF_vars(MeterEnds(r))

FairSpec == Spec /\ Fairness

-----------------------------------------------------------------------------
\* The properties.

\* An operator agreed, under root's signature, to this key and this adapter
\* for this relay id.  `who` and `where` are None for "any".
Agreed(relay, who, where) ==
    \E d \in Docs :
        /\ d.relay = relay
        /\ d.rootSig = RootPub /\ d.partnerSig = d.partner
        /\ who \in {None, d.partner}
        /\ where \in {None, d.adapter}

\* An upstream key put in through /byok is spent only for requests authorised
\* by the control plane that authorised putting it in, through whichever relay
\* id, delegation or adapter either of them came (main.go:1015 "you can only
\* look up what you yourself put in").
KeyIsolation ==
    \A r \in Reqs : upKey[r] \in SealedKey => upKey[r].owner = tok[r].cp

\* A gateway key leaves the enclave only for the adapter that an operator of
\* the relay id it came in under counter-signed (main.go:773 "an operator's
\* users' keys can only ever be sent to the adapter THEY named").
GatewayKeyOnlyToNamedAdapter ==
    \A r \in Reqs : target[r] # None =>
        IF in[r].relay = None THEN target[r] = BakedAdapter
        ELSE Agreed(in[r].relay, None, target[r])

\* A request under a relay id is authorised only by an operator of that id,
\* never by the baked key in its stead (multitenant_test.go:65).
RelayServedByItsOperator ==
    \A r \in Reqs :
        /\ \/ pc[r] \in {"authed", "opened", "picked", "forward"}
           \/ status[r] = 200
        /\ in[r].relay # None
        => Agreed(in[r].relay, tok[r].cp, None)

\* The two reads of the delegation may see two operators.  A request is then
\* never authorised half by one and half by the other: the adapter that
\* exchanged its key and the key its claims verify under were named together.
NoMixedAuthority ==
    \A r \in Reqs :
        /\ \/ pc[r] \in {"authed", "opened", "picked", "forward"}
           \/ status[r] = 200
        /\ in[r].relay # None /\ target[r] # None
        => Agreed(in[r].relay, signer[r], target[r])

\* A provisioned key was sealed to this very boot: nothing a restart should
\* have dropped can be spent (main.go:1053 "On reboot the sealing key changes,
\* so this must be re-submitted").
KeysOfThisBoot ==
    /\ \A k \in CpKeys, a \in Accounts :
          byok[k][a] # None => byok[k][a].boot = boot
    /\ \A r \in Reqs : upKey[r] \in SealedKey => upKey[r].boot = boot

\* A receipt goes to metering once for each request the upstream answered, and
\* for no other: not when it is refused, fails on its key or fails upstream.
MeteredIffServed ==
    \A r \in Reqs : pc[r] # "gone" =>
        (meter[r] # "none" <=>
            status[r] = 200 /\ in[r].kind \in {"infer", "chat"})

\* The tokens that the requests placed on account a asked for, one by one.
AskedOf(a) ==
    UNION {{r} \X (1..in[r].need) : r \in {q \in Reqs : acct[q] = a}}

\* Each account's counter is what the requests placed on it in this boot asked
\* for: concurrent picks lose no charge, and a request that fails after it was
\* placed stays charged (routing.go:79).
EveryPlacementCharged ==
    \A a \in Accounts : used[a] = Cardinality(AskedOf(a))

\* /byok has answered ok to q, under control plane k for account a.
Provisioned(q, k, a) ==
    /\ status[q] = 200 /\ in[q].kind = "byok"
    /\ tok[q].cp = k /\ in[q].account = a

\* When /byok has answered ok, a later request of that control plane on that
\* account finds a key (main.go:1068 "a key that could be injected but never
\* resolved"), unless an empty one was put over it.
ProvisionedKeyIsFound ==
    [][\A r \in Reqs :
        /\ pc[r] = "picked" /\ pc'[r] = "done" /\ acct[r] \notin Gated
        /\ \E q \in Reqs : Provisioned(q, tok[r].cp, acct[r]) /\ ~in[q].blank
        => \E q \in Reqs :
              Provisioned(q, tok[r].cp, acct[r]) /\ in[q].blank]_vars

\* A handler that found no key for its account under the control plane that
\* authorised its request: answered 502 before anything was sent upstream.
FoundNoKey(r) ==
    /\ status[r] = 502 /\ upKey[r] = None
    /\ acct[r] \in RuntimeKeyed \ Gated

\* What a request was told of provisioned keys: it was served with one, there
\* was none, or it put one in.
VaultReply(r) ==
    LET told(op, a, key) ==
          [op |-> op, by |-> tok[r].cp, account |-> a, key |-> key]
    IN  IF upKey[r] \in SealedKey THEN told("find", acct[r], upKey[r])
        ELSE IF FoundNoKey(r) THEN told("find", acct[r], None)
        ELSE IF status[r] = 200 /\ in[r].kind = "byok"
        THEN told("put", in[r].account, Filed(r))
        ELSE None

Vault == INSTANCE OperatorVault WITH
            Operators <- CpKeys, vault <- byok,
            reply <- [r \in Reqs |-> VaultReply(r)]

\* Sharing the enclave, its adapters and accounts, and being restarted, shows
\* no operator anything but its own safe: each put and each lookup happens at
\* one instant between question and answer, under the control plane whose token
\* the request carries, whatever delegations are pushed meanwhile (main.go:1015
\* "you can only look up what you yourself put in").
KeepsVault == Vault!Spec

\* Every request is answered, unless the enclave stops first or it is its own
\* client that does not send the body (main.go:903).  However many handlers are
\* held that way, and whatever adapters and upstreams do, no other request
\* waits for ever; one whose body has come is not held again.
EveryRequestAnswered ==
    \A r \in Reqs :
        (pc[r] \in Waiting /\ ~AwaitsBody(r))
            ~> (pc[r] \in {"done", "gone"} \/ AwaitsBody(r))
=============================================================================
