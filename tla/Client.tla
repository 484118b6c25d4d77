------------------------------- MODULE Client -------------------------------
(***************************************************************************)
(* The verifying client (sdk/python, which the CLI ships a copy of and the *)
(* MCP server imports) and the programs built on it, against an address    *)
(* whose operator redeploys, puts a front end before the enclave or takes  *)
(* it away, while signing keys rotate and the public registry is edited.   *)
(*                                                                         *)
(* Every request of a client is a connection of its own and one action:    *)
(* what it learns is true when it is answered and used later.  Checks of   *)
(* what is in hand belong to the answer they follow.  Every enclave signs  *)
(* what it measures and names the model it was asked for (main.go:406), so *)
(* the checks of signatures and of the model always succeed here.          *)
(***************************************************************************)
EXTENDS Integers

CONSTANTS
    Clients,    \* processes, each with one FidClient
    Builds,     \* measurements: MRTD, or the container's image digest
    Idents,     \* identity keys, which sign receipts
    Images,     \* what an operator may start at the address
    Setups,     \* how a process may be started
    Registries, \* what the public registry may say
    SessionTTL, \* 2 minutes
    TokenTTL,   \* life of an attestation token
    MaxNow, MaxBoot, MaxCalls,  \* bounds of the instance
    MaxKid,     \* and on each issuer's rotations
    None        \* nothing pinned, no answer yet, not published

VARIABLES
    \* the world
    now,
    host,       \* the enclave at the address
    fronted,    \* a front end terminates its TLS
    cached,     \* the attestation the front end last passed on
    kid,        \* the key each issuer of attestation tokens signs with
    registry,   \* published build -> identity key
    \* each client
    setup, pc,
    calls,      \* how many it made; names the nonce of the current one
    pin,        \* pin_measurement
    known,      \* the registry as it read it
    quote,      \* the attestation in hand
    keys,       \* _cs_jwks, _jwks: the issuers' keys, once fetched
    posts,      \* history: the sealed prompt of each call, and who opened it
    seen        \* history: what was at the address during the call

worldVars == <<now, host, fronted, cached, kid, registry>>
clientVars == <<setup, pc, calls, pin, known, quote, keys, posts, seen>>
vars == <<worldVars, clientVars>>

-----------------------------------------------------------------------------
\* tls: no TLS in the enclave, a key per boot, or one derived from the seed.
Image == [build: Builds, platform: {"gcp-cs", "gcp-tdx", "mock-tee"},
          tls: {"none", "boot", "derived"}, ident: Idents]

\* prog: the SDK, `fidrouter call`, `fidrouter verify` (and the same tool of
\* the MCP server), the MCP server's call.  lax is dcap_allow_unverified.
Setup == [prog: {"sdk", "call", "verify", "mcp"}, https: BOOLEAN,
          pin: Builds \cup {None}, idpub: Idents \cup {None},
          backend: {"stub", "qvl", "ita"}, lax: BOOLEAN]

Issuers == {"google", "intel"}

Registry == [Builds -> Idents \cup {None}]

Host == [boot: 1..MaxBoot, image: Images]

\* by = None is the constant nonce "fid" of the programs' first look.
Nonce == [by: Clients \cup {None}, n: 0..MaxCalls]

\* kid and exp are those of the token that vouches for it.
Quote == [nonce: Nonce, host: Host, at: Nat, kid: Nat, exp: Nat]

\* A prompt sealed under `pin` to the session of an attestation: of which
\* enclave and when, who has opened it, and whether an answer was taken.
Prompt == [host: Host, at: Nat, pin: Builds \cup {None},
           readers: SUBSET Host, answered: BOOLEAN]

ASSUME ClientAssumption ==
    /\ Images \subseteq Image
    /\ Setups \subseteq Setup
    /\ \A s \in Setups : s.prog # "sdk" => s.pin = None /\ s.idpub = None
    /\ Registries \subseteq Registry
    /\ SessionTTL \in Nat /\ TokenTTL \in Nat
    /\ MaxNow \in Nat /\ MaxKid \in [Issuers -> Nat]
    /\ MaxBoot \in Nat \ {0} /\ MaxCalls \in Nat \ {0}
    /\ None \notin Builds \cup Idents \cup Clients \cup Quote \cup Registry
    /\ None \notin Setup \cup Prompt

Waiting == {"resolve", "probe", "attest", "bind", "nonce", "appraise", "judge",
            "trusted", "posted"}

TypeOK ==
    /\ now \in 0..MaxNow
    /\ host \in Host
    /\ fronted \in BOOLEAN
    /\ cached \in Quote \cup {None}
    /\ kid \in [Issuers -> Nat]
    /\ registry \in Registries
    /\ setup \in [Clients -> Setups \cup {None}]
    /\ pc \in [Clients -> Waiting \cup {"idle", "ok", "failed"}]
    /\ calls \in [Clients -> 0..MaxCalls]
    /\ pin \in [Clients -> Builds \cup {None}]
    /\ known \in [Clients -> Registries \cup {None}]
    /\ quote \in [Clients -> Quote \cup {None}]
    /\ keys \in [Clients -> [Issuers -> SUBSET Nat]]
    /\ posts \in [Clients -> [1..MaxCalls -> Prompt \cup {None}]]
    /\ seen \in [Clients -> SUBSET [host: Host, fronted: BOOLEAN]]

Init ==
    /\ now = 0
    /\ \E image \in Images : host = [boot |-> 1, image |-> image]
    /\ fronted \in BOOLEAN
    /\ cached = None
    /\ kid = [i \in Issuers |-> 0]
    /\ registry \in Registries
    /\ setup = [c \in Clients |-> None]
    /\ pc = [c \in Clients |-> "idle"]
    /\ calls = [c \in Clients |-> 0]
    /\ pin = [c \in Clients |-> None]
    /\ known = [c \in Clients |-> None]
    /\ quote = [c \in Clients |-> None]
    /\ keys = [c \in Clients |-> [i \in Issuers |-> {}]]
    /\ posts = [c \in Clients |-> [n \in 1..MaxCalls |-> None]]
    /\ seen = [c \in Clients |-> {}]

-----------------------------------------------------------------------------
\* The world.

Tick ==
    /\ now < MaxNow
    /\ now' = now + 1
    /\ UNCHANGED <<host, fronted, cached, kid, registry, clientVars>>

Changed ==
    seen' = [c \in Clients |->
        IF pc[c] \in Waiting
        THEN seen[c] \cup {[host |-> host', fronted |-> fronted']} ELSE seen[c]]

\* A restart is a redeployment of the same image: sessions are gone.
Redeploy(image) ==
    /\ host.boot < MaxBoot
    /\ host' = [boot |-> host.boot + 1, image |-> image]
    /\ UNCHANGED fronted
    /\ Changed
    /\ UNCHANGED <<now, cached, kid, registry, setup, pc, calls, pin, known,
                   quote, keys, posts>>

\* Its cache goes with it.
MoveFront ==
    /\ fronted' = ~fronted
    /\ cached' = None
    /\ UNCHANGED host
    /\ Changed
    /\ UNCHANGED <<now, kid, registry, setup, pc, calls, pin, known,
                   quote, keys, posts>>

Rotate(i) ==
    /\ kid[i] < MaxKid[i]
    /\ kid' = [kid EXCEPT ![i] = @ + 1]
    /\ UNCHANGED <<now, host, fronted, cached, registry, clientVars>>

Publish(r) ==
    /\ registry' = r
    /\ UNCHANGED <<now, host, fronted, cached, kid, clientVars>>

KeysOfEveryTurn(i) == {kid[i] - 1, kid[i]}

\* The issuers publish the key in use and the one before it.
Jwks(i) == {k \in {kid[i] - 1, kid[i]} : k >= 0}

-----------------------------------------------------------------------------
\* What the enclave, or the front end, answers.

\* No key, the derived one, or that of a boot; the front end has its own.
TlsKey(h) ==
    IF h.image.tls = "none" THEN -2
    ELSE IF h.image.tls = "derived" THEN 0 ELSE h.boot

Presented == IF fronted THEN -1 ELSE TlsKey(host)

\* Without a front end the scheme of the URL has to be the enclave's.
Reachable(c) ==
    fronted \/ (setup[c].https <=> host.image.tls # "none")

\* Attest: a fresh key under this nonce, and the platform's word for it.
Attested(nonce) ==
    [nonce |-> nonce, host |-> host, at |-> now,
     kid |-> kid["google"], exp |-> now + TokenTTL]

\* A front end may answer with what it passed on before.
Attestations(nonce) ==
    {Attested(nonce)} \cup (IF fronted THEN {cached} \ {None} ELSE {})

KeptAcrossBoots(q) == now <= q.at + SessionTTL

\* SessionKey: the key of an attestation, while that boot lasts and for two
\* minutes.  Using it does not end it.
SessionAlive(q) == host.boot = q.host.boot /\ now <= q.at + SessionTTL

-----------------------------------------------------------------------------
\* The programs.

FirstStep(s) ==
    IF s.prog = "sdk" /\ s.pin # None THEN "attest" ELSE "resolve"

\* An OpenAI object pins once, when it is constructed: what it was given, or
\* what the registry expects at the address.  The others ask first.
Start(c, s) ==
    /\ pc[c] = "idle"
    /\ setup' = [setup EXCEPT ![c] = s]
    /\ pin' = [pin EXCEPT ![c] = s.pin]
    /\ pc' = [pc EXCEPT ![c] = FirstStep(s)]
    /\ calls' = [calls EXCEPT ![c] = 1]
    /\ seen' = [seen EXCEPT ![c] = {[host |-> host, fronted |-> fronted]}]
    /\ UNCHANGED <<worldVars, known, quote, keys, posts>>

Published == {b \in Builds : registry[b] # None}

\* _resolve_expected: some published build, or none and the constructor raises.
ResolveExpected(c) ==
    /\ pc[c] = "resolve" /\ setup[c].prog = "sdk"
    /\ \E b \in Published : pin' = [pin EXCEPT ![c] = b]
    /\ pc' = [pc EXCEPT ![c] = "attest"]
    /\ UNCHANGED <<worldVars, setup, calls, known, quote, keys, posts, seen>>

\* The platform's /api/exchange names the expected measurement, or nothing.
Exchange(c) ==
    /\ pc[c] = "resolve" /\ setup[c].prog \in {"call", "mcp"}
    /\ \E b \in Published \cup {None} : pin' = [pin EXCEPT ![c] = b]
    /\ pc' = [pc EXCEPT ![c] = "attest"]
    /\ UNCHANGED <<worldVars, setup, calls, known, quote, keys, posts, seen>>

ReadRegistry(c) ==
    /\ pc[c] = "resolve" /\ setup[c].prog = "verify"
    /\ known' = [known EXCEPT ![c] = registry]
    /\ pc' = [pc EXCEPT ![c] = "probe"]
    /\ UNCHANGED <<worldVars, setup, calls, pin, quote, keys, posts, seen>>

\* The measurement an unverified look shows becomes the pin if it is published.
Probe(c) ==
    /\ pc[c] = "probe" /\ Reachable(c)
    /\ \E q \in Attestations([by |-> None, n |-> 0]) :
          LET b == q.host.image.build IN
          /\ cached' = IF fronted THEN q ELSE cached
          /\ pin' = [pin EXCEPT ![c] = IF known[c][b] # None THEN b ELSE None]
          /\ pc' = [pc EXCEPT ![c] =
                       IF known[c][b] # None THEN "attest" ELSE "failed"]
    /\ UNCHANGED <<now, host, fronted, kid, registry, setup, calls, known,
                   quote, keys, posts, seen>>

NewCall(c) ==
    /\ pc[c] \in {"ok", "failed"}
    /\ calls[c] < MaxCalls
    /\ calls' = [calls EXCEPT ![c] = @ + 1]
    /\ quote' = [quote EXCEPT ![c] = None]
    /\ seen' = [seen EXCEPT ![c] = {[host |-> host, fronted |-> fronted]}]
    /\ known' = [known EXCEPT ![c] = None]
    /\ UNCHANGED <<worldVars, setup, posts>>

\* The SDK's object is used again, with its pin and the keys it has fetched.
\* Without a pin the constructor raised and there is none.
Again(c) ==
    /\ NewCall(c)
    /\ setup[c].prog = "sdk" /\ pin[c] # None
    /\ pc' = [pc EXCEPT ![c] = "attest"]
    /\ UNCHANGED <<pin, keys>>

\* The program is run again.
Rerun(c) ==
    /\ NewCall(c)
    /\ pc' = [pc EXCEPT ![c] = FirstStep(setup[c])]
    /\ pin' = [pin EXCEPT ![c] = setup[c].pin]
    /\ keys' = [keys EXCEPT ![c] = [i \in Issuers |-> {}]]

-----------------------------------------------------------------------------
\* _attest_and_verify.

PinOk(c, h) == pin[c] \in {None, h.image.build}

PeerUnchecked(c) == TRUE

\* _tls_binding: over https the key presented on this connection is the one
\* the attestation binds, if it binds one.
PeerOk(c) ==
    \/ ~setup[c].https
    \/ quote[c].host.image.tls = "none"
    \/ Presented = TlsKey(quote[c].host)

AnyNonce(c, q) == TRUE

Echoed(c, q) == q.nonce = [by |-> c, n |-> calls[c]]

\* What can be checked before the next connection: the nonce, and for a mock
\* enclave the measurement and the identity.
Opening(c, q) ==
    /\ Echoed(c, q)
    /\ q.host.image.platform = "mock-tee" =>
          /\ PinOk(c, q.host)
          /\ setup[c].idpub \in {None, q.host.image.ident}

Attest(c) ==
    /\ pc[c] = "attest" /\ Reachable(c)
    /\ \E q \in Attestations([by |-> c, n |-> calls[c]]) :
          /\ cached' = IF fronted THEN q ELSE cached
          /\ quote' = [quote EXCEPT ![c] = q]
          /\ pc' = [pc EXCEPT ![c] =
                       IF Opening(c, q) THEN "bind" ELSE "failed"]
    /\ UNCHANGED <<now, host, fronted, kid, registry, setup, calls, pin, known,
                   keys, posts, seen>>

\* Verified: `verify` has its verdict, the others go on to send.
Trusted(c) == IF setup[c].prog = "verify" THEN "ok" ELSE "trusted"

\* verify_tdx_quote once the backend has returned.
TdxOk(c, verified) ==
    (verified \/ setup[c].lax) /\ PinOk(c, quote[c].host)

\* Where a quote goes whose peer is the right one: the token of Confidential
\* Space to Google's keys, a TDX quote to the configured backend.  The stub
\* verifies nothing, and Intel's library is not bound: it raises.
AfterBind(c) ==
    LET platform == quote[c].host.image.platform
        backend == setup[c].backend IN
    IF platform = "mock-tee" THEN Trusted(c)
    ELSE IF platform = "gcp-cs" THEN "judge"
    ELSE IF backend = "ita" THEN "nonce"
    ELSE IF backend = "stub" /\ TdxOk(c, FALSE) THEN Trusted(c) ELSE "failed"

Bind(c) ==
    /\ pc[c] = "bind"
    /\ setup[c].https /\ quote[c].host.image.tls # "none" => Reachable(c)
    /\ pc' = [pc EXCEPT ![c] = IF PeerOk(c) THEN AfterBind(c) ELSE "failed"]
    /\ UNCHANGED <<worldVars, setup, calls, pin, known, quote, keys, posts, seen>>

\* Intel Trust Authority: its nonce first.
GetNonce(c) ==
    /\ pc[c] = "nonce"
    /\ pc' = [pc EXCEPT ![c] = "appraise"]
    /\ UNCHANGED <<worldVars, setup, calls, pin, known, quote, keys, posts, seen>>

\* Then its token for this very quote.
Appraise(c) ==
    /\ pc[c] = "appraise"
    /\ quote' = [quote EXCEPT ![c].kid = kid["intel"],
                              ![c].exp = now + TokenTTL]
    /\ pc' = [pc EXCEPT ![c] = "judge"]
    /\ UNCHANGED <<worldVars, setup, calls, pin, known, keys, posts, seen>>

Issuer(q) == IF q.host.image.platform = "gcp-cs" THEN "google" ELSE "intel"

\* Fetched on first use and never again.
KeysOf(c, i) == IF keys[c][i] = {} THEN Jwks(i) ELSE keys[c][i]

TokenUnpinned(c, ks) == quote[c].kid \in ks /\ now <= quote[c].exp

\* _cs_verify_jwt and _verify_cs; verify_token and verify_tdx_quote: a known
\* key, not expired, and the pinned build.
TokenOk(c, ks) ==
    quote[c].kid \in ks /\ now <= quote[c].exp /\ PinOk(c, quote[c].host)

Judge(c) ==
    /\ pc[c] = "judge"
    /\ LET i == Issuer(quote[c]) IN
       /\ keys' = [keys EXCEPT ![c][i] = KeysOf(c, i)]
       /\ pc' = [pc EXCEPT ![c] =
                    IF TokenOk(c, KeysOf(c, i)) THEN Trusted(c) ELSE "failed"]
    /\ UNCHANGED <<worldVars, setup, calls, pin, known, quote, posts, seen>>

-----------------------------------------------------------------------------
\* The call.

\* infer: the prompt is sealed to the attested session and posted.
PostSealed(c) ==
    /\ pc[c] = "trusted" /\ setup[c].prog # "mcp" /\ Reachable(c)
    /\ posts' = [posts EXCEPT ![c][calls[c]] =
          [host |-> quote[c].host, at |-> quote[c].at, pin |-> pin[c],
           readers |-> {}, answered |-> FALSE]]
    /\ pc' = [pc EXCEPT ![c] = "posted"]
    /\ UNCHANGED <<worldVars, setup, calls, pin, known, quote, keys, seen>>

\* handleInfer, as often as the post is delivered and however late: while the
\* client waits, after it has given up, during its next call.
Open(c, n) ==
    /\ posts[c][n] # None
    /\ SessionAlive(posts[c][n])
    /\ posts' = [posts EXCEPT ![c][n].readers = @ \cup {host}]
    /\ UNCHANGED <<worldVars, setup, pc, calls, pin, known, quote, keys, seen>>

\* The MCP server posts the prompt in the clear and without the capability
\* token it exchanged the key for: whoever is there reads it and refuses.
PostPlain(c) ==
    /\ pc[c] = "trusted" /\ setup[c].prog = "mcp" /\ Reachable(c)
    /\ pc' = [pc EXCEPT ![c] = "failed"]
    /\ UNCHANGED <<worldVars, setup, calls, pin, known, quote, keys, posts, seen>>

AttestedSigner(c) == quote[c].host.image.ident

\* The receipt must verify under the pinned identity, else the attested one.
Signer(c) ==
    IF setup[c].idpub = None THEN AttestedSigner(c) ELSE setup[c].idpub

\* Who opened the prompt answers and signs the receipt.
Finish(c) ==
    /\ pc[c] = "posted"
    /\ \E h \in posts[c][calls[c]].readers :
          LET accepted == h.image.ident = Signer(c) /\ PinOk(c, h) IN
          /\ pc' = [pc EXCEPT ![c] = IF accepted THEN "ok" ELSE "failed"]
          /\ posts' = [posts EXCEPT ![c][calls[c]].answered = accepted]
    /\ UNCHANGED <<worldVars, setup, calls, pin, known, quote, keys, seen>>

RetriedWhenUnanswered(c) ==
    /\ pc[c] \in Waiting
    /\ pc' = [pc EXCEPT ![c] = "attest"]
    /\ UNCHANGED <<worldVars, setup, calls, pin, known, quote, keys, posts, seen>>

\* Every wait may end in an exception: unreachable, timed out, refused (as a
\* prompt for a session that is gone), unreadable.
Unanswered(c) ==
    /\ pc[c] \in Waiting
    /\ pc' = [pc EXCEPT ![c] = "failed"]
    /\ UNCHANGED <<worldVars, setup, calls, pin, known, quote, keys, posts, seen>>

Request(c) ==
    \/ ResolveExpected(c) \/ Exchange(c) \/ ReadRegistry(c) \/ Probe(c)
    \/ Attest(c) \/ Bind(c) \/ GetNonce(c) \/ Appraise(c) \/ Judge(c)
    \/ PostSealed(c) \/ PostPlain(c) \/ Finish(c)
    \/ Unanswered(c)

World ==
    \/ Tick
    \/ \E image \in Images : Redeploy(image)
    \/ MoveFront
    \/ \E i \in Issuers : Rotate(i)
    \/ \E r \in Registries : Publish(r)

Next ==
    \/ \E c \in Clients :
          \/ \E s \in Setups : Start(c, s)
          \/ Request(c)
          \/ Again(c)
          \/ Rerun(c)
          \/ \E n \in 1..MaxCalls : Open(c, n)
    \/ World

\* A wait ends, with an answer or at its timeout.  Nothing is assumed of the
\* enclave: it need not open what it is sent.
Fairness == \A c \in Clients : WF_vars(Request(c))

Spec == Init /\ [][Next]_vars /\ Fairness

-----------------------------------------------------------------------------
\* The properties.

Seals(c) == setup[c] # None /\ setup[c].prog \in {"sdk", "call"}

\* Whoever opens a sealed prompt is the very boot whose attestation was judged
\* for that call: however often the enclave is replaced between the three
\* connections (attestation, TLS check, post), and however late or often the
\* post is delivered (tee.go:148 does not use a session up).
OpenedByAttestedBoot ==
    \A c \in Clients, n \in 1..MaxCalls :
        posts[c][n] # None => posts[c][n].readers \subseteq {posts[c][n].host}

\* "Verified" means that the enclave that was judged stood at the address
\* during this call, whatever a front end answered from its cache, and that
\* `verify` names a build the registry listed when it looked (cli.py:41
\* "Independently attest an endpoint against the registry (fail-closed)").
VerdictIsFresh ==
    \A c \in Clients : pc[c] = "ok" =>
        /\ \E s \in seen[c] : s.host = quote[c].host
        /\ pin[c] \in {None, quote[c].host.image.build}
        /\ setup[c].prog = "verify" =>
              pin[c] # None /\ known[c][pin[c]] # None

\* Where the attestation binds a TLS key, an https call that ends well has met
\* an address which held that key with no front end between
\* (fidrouter_verify.py:274 "require the cert the server actually presented
\* (over https) to match it").
FrontIsNoticed ==
    \A c \in Clients :
        (pc[c] = "ok" /\ setup[c].https
         /\ quote[c].host.image.tls # "none") =>
            \E s \in seen[c] :
                ~s.fronted /\ TlsKey(s.host) = TlsKey(quote[c].host)

\* With a pinned identity no answer of another enclave is handed out.  On the
\* TDX and Confidential Space paths only the receipt shows it, after the
\* prompt has been read.
AnswerUnderPinnedIdentity ==
    \A c \in Clients :
        (pc[c] = "ok" /\ Seals(c) /\ setup[c].idpub # None) =>
            \A h \in posts[c][calls[c]].readers :
                h.image.ident = setup[c].idpub

\* A program that started comes to a verdict.
CallsEnd ==
    \A c \in Clients : pc[c] \in Waiting ~> pc[c] \notin Waiting

\* The SDK and `fidrouter call` keep the promise of SealedCall for every call,
\* the earlier ones included.
Sealed == Clients \X (1..MaxCalls)

Sent(k) == posts[k[1]][k[2]]

Promise == INSTANCE SealedCall WITH
    Calls <- Sealed,
    want <- [k \in Sealed |-> IF Sent(k) = None THEN None ELSE Sent(k).pin],
    readers <- [k \in Sealed |-> IF Sent(k) = None THEN {} ELSE Sent(k).readers],
    outcome <- [k \in Sealed |->
                   IF Sent(k) = None THEN "none"
                   ELSE IF Sent(k).answered THEN "answered" ELSE "sent"]

KeepsPromise == Promise!Spec
=============================================================================
