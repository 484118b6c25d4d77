# TLA+ models of fidrouter

fidrouter runs an LLM proxy inside a confidential VM.  A client verifies the
enclave's attestation, seals its prompt to it, and presents a capability token;
the enclave checks the token, picks an upstream account, obtains that account's
key, calls the provider and posts a signed receipt.  One enclave serves several
relay operators, each with a control-plane key and a *cp-adapter* of its own.

These modules model the parts of it that keep state or run concurrently: the
enclave, the adapter, the client that verifies them, and the scripts that deploy
them.  TLC
checks them on small instances; TLAPS proves their safety for all values of the
constants.

    tlc -workers 2 -config MCFidProxy.cfg MCFidProxy.tla
    tlapm FidProxyRefinement.tla

The proxy and client runs take one to four minutes, the others less.

Contents: 1 the system, 2 modules and code, 3 the runs, 4 fairness and
environment, 5 the proofs, 6 where code and documents disagree, 7 what is not
modelled, 8 the plan.

## 1. The system

| Component | State | Operations | Talks to |
|---|---|---|---|
| delegation store, `pkg/delegation` | `byID`: relay id -> document, in RAM | `Put` (verify, then store under the lock), `Get` (checks expiry again) | the data plane, on each request with a relay id |
| router, `internal/routing` | `used`: tokens charged per account | `Fingerprint`, `Pick` | the data plane |
| data plane, `cmd/fid-proxy` | `byok` (operator key x account), `dels`, `rt`, sealing key, attester | `/v1/infer`, `/v1/chat/completions`, `/v1/models`, `/byok`, `/sealing`, `/delegation`, `/attestation`, `/tls-csr`, `/tls-cert` | adapters (`/exchange`), upstreams, metering, KMS |
| attesters, `pkg/tee` | session id -> (X25519 key, expiry) | `Attest` (collects expired ones, adds one), `SessionKey` | the data plane, clients |
| capability token, `pkg/token` | none | `Mint`, `Verify`, `AllowsModel` | minted by adapters, verified in the enclave |
| KMS, `internal/kms` | build measurement gate | `Release` | the data plane |
| TLS holder, `pkg/ratls` | key (per boot or derived), certificate served | `InstallChain`, `CSRPEM`, `GetCertificate` | attestation binding, clients |
| cp-adapter, `cp-adapter/*.py` | none across requests; configuration at start | `POST /exchange`: validate, gate the lane, bound the quota, mint | the operator's gateway; the enclave |
| receipts, sealing, `pkg/receipt`, `pkg/enc` | none | sign, seal, open | the data plane |
| python SDK, `sdk/python` | pins; the issuers' keys, once fetched; the attestation in hand | `OpenAI(..)` (resolve and pin), `infer` (attest, check the TLS key, judge, seal, post, check the receipt), `verify_receipt` | the enclave, Google or Intel, the registry |
| CLI and MCP server, `cli`, `mcp` | none across runs | `verify`, `call`, `receipt`, over a copy of the SDK | the platform, the registry, the enclave |
| other clients: `cmd/client`, `sdk/ts`, `web/byok.js` | a verified session | attest, verify, seal, call | the enclave |
| deployment scripts, `deploy/gcp` | `cs_state.json`; seeds in `keys.json`; the cached access token | `cs_provision`, `relaunch_cs`, `ratls_relaunch` over `gcp.api` | Compute Engine |
| registry, `registry/registry.json` | build -> identity key | edited by hand | read by clients |
| control-plane tool, `cmd/ctl` | files | keygen, seal, mint, delegation signing | operators |

What is hard about it, and which property is there for it:

* **One request, several reads.**  `authClaims` reads the delegation twice
  (main.go:813 and, inside `resolveCapability`, :769); between the two, and
  while the key is out at the adapter, a push can hand the relay id to another
  operator, or the document can lapse (`NoMixedAuthority`,
  `RelayServedByItsOperator`, `GatewayKeyOnlyToNamedAdapter`).
* **Verify, then lock.**  `Store.Put` verifies before it locks (delegation.go:108),
  so what is stored may have lapsed, and the last store wins
  (`UsableDelegation`, `ServesAgainOnlyByPush`).
* **Operators sharing accounts.**  `byok` is filed under the key that signed the
  token; both sides must use it, and what a request finds must be what is in
  that operator's safe at one instant (`KeyIsolation`, `ProvisionedKeyIsFound`,
  `KeepsVault`).
* **Restarts.**  Everything is in RAM; clients keep sessions, sealed blobs and
  tokens from before (`KeysOfThisBoot`, `EveryPlacementCharged`).
* **Partial failure.**  `Pick` charges before the key is resolved and the
  upstream called; metering must follow what was served (`MeteredIffServed`).
* **Budgets at their limit**, one counter under several pools
  (`OverloadIsSpread`, `OverBudgetOnlyWhenPoolFull`,
  `MissMeansSaturation`).
* **A cached prefix among other load.**  Whatever is charged in between, through
  the same pool or another, a prefix must not wander back and forth between
  accounts and miss each time (`PrefixNeverMovesBack`).
* **A gateway that moves.**  The adapter uses what the gateway said later than
  it was true, asks twice under `newapi`, and must tell refusals, outages and
  missing data apart (`LaneIsGated`, `GrantWithinQuota`,
  `TokenEndsSoonAfterKey`, `KeepsPromise`).
* **Three connections, one verdict.**  A client attests over one connection,
  looks at the TLS key over a second and posts over a third; in between the
  enclave may be replaced, or a front end put before it that answers from a
  cache (`OpenedByAttestedBoot`, `VerdictIsFresh`, `FrontIsNoticed`).
* **A post that comes late, or twice.**  The client gives up after twenty
  seconds, the session lives two minutes and is not used up: the enclave may
  open a prompt whose call has failed, and open it again (`OpenedByAttestedBoot`,
  `KeepsPromise`).
* **What was read earlier.**  Pins are resolved once, the issuers' keys fetched
  once, the registry read before the enclave; `verify` looks at one attestation
  and judges another (`VerdictIsFresh`, `KeepsPromise`).
* **Checks after the fact.**  The receipt is looked at when the prompt has been
  read; with a real TEE only it shows another identity than the pinned one
  (`AnswerUnderPinnedIdentity`).
* **A cloud that works behind the script.**  A deletion takes its time, a launch
  is accepted before it is carried out, an answer may be lost, and the scripts
  pass over several of the errors (`RecordTellsThisLaunch`).
* **Waiting.**  A handler waits for adapters and upstreams that may never answer,
  and for its client's body without any timeout (`EveryRequestAnswered`); a
  client waits (`CallsEnd`), and so does a script, without any timeout for the
  programs it runs (`RunEnds`).

PROJECT.json lists each of these, and those no property covers yet, at the line
where it bites.

## 2. Modules and code

    Delegation <--- INSTANCE --- FidProxy ---> Routing <--- Router
                     implements     |  (what an adapter may answer)
                  OperatorVault <---+
                                    v
                  Exchange <--- CpAdapter  (implements Exchange)
                  SealedCall <- Client     (implements SealedCall)
                  Provision

**Delegation** (`pkg/delegation/delegation.go`).  `PutVerify` and `PutStore` are
the two halves of `Put`; `pending` holds the documents in between.  `Get` is the
operator `Get`, expiry included.  `Forget` is a restart.  A signature is the key
it verifies under: `rootSig` is the key under which the first signature covers
these very bytes, or None.

**Routing** (`internal/routing/routing.go`) is `Pick` as a function of the
counters:  `First` is the ranking (`score`, sorted), `Fitting` the accounts with
room, `LeastUsed` the fallback, `Choice` what is returned, `Charged` the counter
update.  **Router** wraps it in a machine with one `Pick` action and remembers
the last result and, in `placed`, every account a prefix was placed on with the
smallest request it took there.  The score is a constant function without ties:
SHA-256 is not modelled.

**FidProxy** (`cmd/fid-proxy/main.go`).  A request is a handler goroutine.  It
advances by one access to shared state, or one answer of a remote party, per
action:

| `pc` before | Action | Code |
|---|---|---|
| idle | `Arrive` | `authClaims`, first `delegationFor`: pins the signer |
| resolve | `Resolve` | `resolveCapability`: second read; a token, or on to the adapter |
| exchange | `ExchangeReply`, `ExchangeFail` | `POST /exchange` |
| verify | `VerifyToken` | the final `token.Verify` against the pinned signer |
| authed | `ListModels`, `Provision`, `OpenSession`, `DecodeChat` | `handleModels`, `handleByok`, `handleInfer`, `handleChatCompletions` |
| opened | `PickAccount` | allow-list, `Pick` |
| picked | `ResolveKey` | `resolveKey`: KMS, then `byok` under the signer |
| forward | `UpstreamOK`, `UpstreamFail` | `forward`, receipt, `emitMetering` |

Beside the handlers run `PushVerify`/`PushStore` (`/delegation`, an INSTANCE of
Delegation), `Attest` (the session table), `MeterEnds` (the metering goroutine),
`Tick` and `Restart`.  `/v1/chat/completions` reads its body only after it has
authorised the request:  `AwaitsBody` names the wait for it, which `DecodeChat`
ends.  The other handlers read theirs, if they have one, before `Arrive`.  A
token is its claims with the key that signed them; a sealed key is a record of
who put it in and for which boot.

**OperatorVault** is what an operator is promised of the keys it puts into a
shared enclave: a safe of its own with one key per account.  `Put` and `Find`
answer a request once, at one instant, out of one safe; `Restart` empties them
all.  FidProxy maps to it by `VaultReply`, what a request was told: it was
served with a provisioned key (`Find`), there was none (`FoundNoKey`, a 502), or
it put one in (`Put`).  Everything else a handler does, exchanges, placements
and upstream calls included, stutters.

**Exchange** is what the enclave relies on when it posts a raw key: at most one
answer per question, and a token only for a key the gateway accepted at some
moment in between, for no longer than the token life.  It models the gateway
itself, which may change an account at any time.  `TokensWereAccepted` and
`AnswersAreFinal` say what the promise comes to.

**CpAdapter** (`cp-adapter/adapter.py`, `validators.py`) is `do_POST`:
`Receive`, `Validate` (the validator's question and the gateway's answer),
`AdminLookup` (`newapi`'s best-effort second question) and `Conclude` (the
checks in the code's order, then the token or the refusal).  `Answers` is
everything a validator can return for an account: its terms, a refusal, an
object without the expected field, nothing, an exception.  It EXTENDS Exchange
for the state they share, and names it again as `Promise` to say what it
implements.

**SealedCall** is what the SDK promises its user: a prompt that was sent is opened
by one enclave at most, which runs the pinned build, and an answer comes from an
enclave that opened it.  It does not promise that the prompt is opened once, or
before the call is over: `Read` may come again, and late, because `SessionKey`
(tee.go:148, confidential_space.go:124) leaves the session in place.
`OpenedByPinnedBuild` and `ReaderIsFinal` say what that comes to.

**Client** (`sdk/python`, `cli/fidrouter_cli`, `mcp/server.py`) is a process that
runs one of four programs against one address.  One request is one action, so
that the world can move between any two:

| `pc` before | Action | Code |
|---|---|---|
| idle | `Start` | `OpenAI.__init__`, `cmd_call`, `cmd_verify`, `call` |
| resolve | `ResolveExpected`, `Exchange`, `ReadRegistry` | `_resolve_expected`, `/api/exchange`, `/api/registry` |
| probe | `Probe` | the unverified first look of `verify` |
| attest | `Attest` | `GET /attestation`, nonce, and the mock platform's checks |
| bind | `Bind` | `_tls_binding`, `_peer_spki` |
| nonce | `GetNonce` | Intel Trust Authority's nonce, a request of its own |
| appraise | `Appraise` | Intel Trust Authority's token |
| judge | `Judge` | `_cs_verify_jwt` and `_verify_cs`; `verify_token` and `verify_tdx_quote` |
| trusted | `PostSealed`, `PostPlain` | `POST /v1/infer`; the MCP server's plain post |
| posted | `Finish` | the answer, and the receipt's signature, measurement and identity |
| any of these | `Unanswered` | an exception: unreachable, timed out, refused |
| ok, failed | `Again`, `Rerun` | the next call, the next run |
| any, once posted | `Open` | `handleInfer` gets at the prompt: at once, late, again |

The world is `Redeploy`, `MoveFront`, `Rotate`, `Publish` and `Tick`.  An
enclave is its boot and its image (build, platform, kind of TLS key, identity);
an attestation is the nonce, the enclave that gave it, when, and the signing key
and expiry of its token.  `posts` and `seen` are history: what each call sent,
sealed to which enclave under which pin, and who has opened it; and what stood
at the address during the call.  `PostSealed` sends and no more.  `Open` is a
step of the address that needs the session and nothing of the client: a call
that has failed, or a process that is in its next call, stops it as little as
an answer that was already taken.

**Provision** (`deploy/gcp/*.py`) is a script run, one API call after the other:
`Ask` (with `gcp.token`'s access token), `Serve` (the cloud carries it out), then
the answer (`RepoThere`, `Deleting`, `StillThere`, `ImageFound`, `AddressFound`,
`Launching`, `Describe`), an HTTP error (`Refuse`, which leads where the script
catches it:  `AfterError`) or any other exception (`Raise`).  A lost answer is
`Serve` followed by `Raise` or `Refuse`.  The three scripts are three values of
`Script`:  whether they build, how often they poll, and whether they ask for the
reserved address.  `Stage` (go build) and `Build` (docker login and buildx, which
may report no digest, and the script goes on with an empty one) are the programs
the first of them runs, with no timeout.  `Gone` and `Launched` are Compute
Engine's.

**MC modules** hold the instances, **\*Proofs** modules the theorems.
Some definitions no action uses stand just above the one they alter
(`GetWithoutExpiry`, `VerifyNothing`, `Credited`, `CeilingUncapped`, ...): plausible
bugs, each of which a property was seen to catch when put in its place.

## 3. The runs

| Run | States | Checks |
|---|---|---|
| `delegation` | 720 | `TypeOK`, `UsableDelegation`, `ServesAgainOnlyByPush` |
| `router` | 219,307 | `TypeOK`, `OverloadIsSpread`, `MissMeansSaturation`, `OverBudgetOnlyWhenPoolFull`, `PrefixNeverMovesBack` |
| `proxy_operators` | 820,560 | `TypeOK`, the seven safety properties of several operators, `KeepsVault` |
| `proxy_serving` | 226,228 | `EveryPlacementCharged`, `EveryRequestAnswered` |
| `adapter` | 582,380 | `TypeOK`, `LaneIsGated`, `GrantWithinQuota`, `TokenEndsSoonAfterKey`, `KeepsPromise` |
| `client` | 1,342,708 | `TypeOK`, `OpenedByAttestedBoot`, `VerdictIsFresh`, `FrontIsNoticed`, `AnswerUnderPinnedIdentity`, `KeepsPromise`, `CallsEnd` |
| `provisioning` | 37,883 | `TypeOK`, `RecordTellsThisLaunch`, `RunEnds` |
| `delegation_swap`, `router_window`, `router_affinity`, `adapter_expiry`, `adapter_outage` | | one statement of a document each, refuted (section 6) |

Bounds, and why they are enough:

* **delegation** (`MaxNow = 4`, seven documents, two relay ids, three keys): a
  renewal, an expiry at 1, 2 and 3 so that ids lapse at different times and one
  can be stored after it lapsed, and a refused document of every kind (not
  counter-signed, not issued by root, malformed).  Restart has no bound.
* **router** (`MaxUsed = 6`): budgets of 2 and 3, requests of 0 and 2 tokens.
  The counters reach three times the smaller budget, so every account is seen
  empty, exactly full, with room for less than a request, and over.  Two pools
  share an account and two prefixes rank it differently, so a prefix is turned
  away by load of the other pool between its requests; a request of 0 finds room
  where one of 2 does not.  A third pool has no accounts.
* **proxy_operators** (two handlers, two boots, `MaxNow = 2`, four documents, one
  not counter-signed):  one relay id passes from operator A to B or lapses, the
  other has one operator, and both share one account whose key is provisioned.
  Two handlers suffice for the properties:  each relates at most two requests
  (one provisions, one spends) to the store.  Handlers are interchangeable, hence
  the symmetry set over `Reqs`; no liveness is checked under it.
* **proxy_serving** (two handlers, two boots, a session that lasts one tick): a
  request larger than any budget, an account the KMS refuses, an empty pool, and
  each refusal of a handler.  No symmetry, because it checks liveness.
* **adapter** (one exchange, two keys, `TTL = 3`, `MinTTL = 2`, `MaxNow = 3`):
  accounts in and out of the lane, accepted and revoked, with the key's quota
  below and above the user's, expiry 0, 1 and 2 so that it falls before and after
  the floor; six configurations, one per validator and policy that differs.  One
  exchange is enough because handlers share nothing but the gateway, which
  changes freely anyway; the proofs have any number.
* **client** (one process, two calls, two boots, `MaxNow = 1`, sessions and
  tokens that last no tick, one rotation of Google's key): three images that
  differ in build, platform, TLS key and identity, so that a redeployment changes
  each of them and keeps each of them (a restart is one too), and a process that
  lives past the only rotation.  Six settings: every program, every backend, with
  and without pins, http and https.  Two registries: one publishes one build,
  the other none.  A post may be opened before or after its call has failed,
  during the next call, and again, until the clock ticks or the boot changes.
  One process is enough
  because processes share nothing but the address, which changes freely; a
  second call shows what is kept from the first.  The proofs have any number of
  each.
* **provisioning** (the three scripts, three runs in a row, two or three polls):
  each later run meets what the earlier ones left, a VM that is there, launching,
  stopping or gone, in every order with its polls, also one of two runs ago.

Deadlock is checked in the delegation and router runs.  The proxy, adapter,
client and provisioning runs set `CHECK_DEADLOCK FALSE`: there the system really
stops, when every request, call or run is done and the clock and the boots have
reached their bounds.

Every action of every module fires in some passing run.

## 4. Fairness and environment

`proxy_serving`, `client`, `provisioning` and the refuted `router_window` use
fairness.

FidProxy's `Fairness` is weak fairness of each handler's next step and of its metering
goroutine.  The code justifies it: the Go scheduler runs every goroutine; no
mutex is held across a call (routing.go:61, main.go:1026 and :1084,
delegation.go:111 cover map accesses only); calls to adapters and metering go
through a client with a 120-second timeout (main.go:211) and upstream calls
through another (main.go:500), so `ExchangeFail` and `UpstreamFail` are always
enabled while a call is out.  Nothing is assumed of adapters or upstreams: no
fairness on `ExchangeReply` or `UpstreamOK` alone.  Nothing either of a client
that stalls its body: the servers set no ReadTimeout (main.go:274-281), so
`handleChatCompletions` waits at `r.Body` (main.go:903) as long as the client
likes, `DecodeChat` is not fair, and `EveryRequestAnswered` speaks of a request
up to that wait and after it.  A restart is never fair; it
ends a handler as `gone`.

Client's `Fairness` is weak fairness of each process's next request; the enclave
need not open what it is sent (`Open` is not fair).  Every
`urlopen` and the socket of `_peer_spki` have a timeout (15 to 60 seconds), so a
wait ends, if only with an exception: `Unanswered` is enabled in every waiting
state, and no answer of anyone is assumed.  (The timeout is per socket
operation; a peer that trickles bytes without end is not covered.)  Provision's
`WF_vars(Run /\ pc \notin Building)` says the same of a script and the timeouts
of `gcp.token` and `gcp.api` (30 and 60 seconds, per socket operation too).  It
says nothing of go build, docker login and buildx, which run through
`subprocess.run` with no timeout (cs_provision.py:33-35, 63, 83-93): `RunEnds`
says that a run past its builds ends, and that any other can be held up by such
a program only.  Nothing is assumed of the cloud, whose `Gone` and `Launched` may
never come.

Assumed of the environment:

* A client may send any request of `Inputs` at any time, with sessions and seals
  of this boot or an earlier one.  A sealing key of a boot to come cannot be had.
* An adapter mints only for a raw gateway key, and under its own key
  (`AdapterCp`); it may refuse, hang or answer nonsense.
* The document set is arbitrary in the proofs: root may enrol two operators
  under one id, and a document may be pushed again at any time.
* Requests refused before `authClaims` (bad JSON, wrong method) touch nothing and
  are left out.  A metering URL is configured.
* Clocks: `now` is the seconds all parties see.  `do_POST` reads the clock twice
  (adapter.py:161 and :86); the model reads it once.
* Enclaves are genuine and sign what they measure: each platform's signature is
  taken to hold, a receipt carries the identity and build of the enclave that
  answered and the model it was asked for (main.go:406).  Forged quotes are
  cryptography.
* A front end terminates TLS under a key of its own, passes requests on, and may
  answer `/attestation` from its cache whatever the query says.  It cannot open
  seals.  With a TLS key derived from the identity seed this is more than the
  code gives: `cs_provision` puts the seed into the VM's metadata
  (cs_provision.py:113-124), where the operator can read it, and whoever has the
  seed can present the enclave's key.  `FrontIsNoticed` rests on a front end that
  does not.
* Google and Intel publish the key in use and the one before it.
* The platform's `/api/exchange` and `/api/status` name a published build;
  `/api/exchange` may name none.
* The scripts are run by one person, one at a time.
* Counters do not overflow: `used` is a Go `int` of 64 bits.

## 5. The proofs

Assumptions:  `DelegationAssumption`, `RoutingAssumption`, `FidProxyAssumption`,
`CpAdapterAssumption`, `ClientAssumption`, `ProvisionAssumption`, each evaluated
by TLC on every run of its module.  They say that constants have their types,
that None and the special values are values of their own, that accounts are
finite and scores have no ties, that the floor of a token's life is at most the
configured life, and that the CLI and the MCP server start without pins.

| Theorem | What it gives |
|---|---|
| `DelegationTypeCorrect`, `DelegationUsable`, `DelegationServesByPush`, `DelegationKeepsRelay` | the store under any documents and clock |
| `RouterTypeCorrect`, `RouterSpreadsOverload`, `RouterFillsPoolFirst`, `RouterMovesPrefixesOn`, `RouterMissesTellSaturation`, `RouterNeverReturnsBudget` | any pools, budgets, ranking |
| `ProxyTypeCorrect`, `ProxyIsolatesKeys`, `ProxyKeepsGatewayKeys`, `ProxyServesByOperator`, `ProxyNeverMixesAuthority`, `ProxyForgetsOldBoots`, `ProxyMetersWhatItServes`, `ProxyFindsProvisionedKeys`, `ProxyChargesEveryPlacement`, `ProxyFillsPoolsFirst`, `ProxySpendsByAgreement` | any number of handlers, operators, documents, boots |
| `ProxyKeepsVault`, `VaultIsolates`, `ProxyTellsOwnKeysOnly` (FidProxyRefinement) | the data plane implements OperatorVault, and what that comes to |
| `ProxyUsesStore`, `ProxyReadsUsable`, `ProxyServesRelaysByPush` (FidProxyRefinement) | the store inside the data plane is the store of Delegation |
| `AdapterTypeCorrect`, `AdapterGatesTheLane`, `AdapterGrantsWithinQuota`, `AdapterShortensTokens`, `AdapterKeepsPromise`, `AdapterAnswersOnce` | any gateway, configuration, number of exchanges |
| `PromiseJustifiesTokens`, `PromiseAnswersOnce` (CpAdapterProofs) | what Exchange comes to, whoever implements it |
| `TypeCorrect`, `PromptsAreSafe`, `VerdictsAreFresh`, `FrontsAreNoticed`, `AnswersAreThePinned`, `ClientKeepsPromise`, `PromptsHaveOneReader` (ClientProofs) | any number of clients, images, registries, settings, life of sessions and tokens |
| `PromiseIsOneReader`, `PromiseReaderStays` (ClientProofs) | what SealedCall comes to, whoever implements it |
| `TypeCorrect`, `RecordsAreTrue` (ProvisionProofs) | any scripts, number of polls, number of runs |

**Delegation.**  `UsableDelegation` is not inductive: what is stored comes from
`pending`.  The invariant adds that pending documents were consented to, and
that a held one is filed under its own id.  `StoreStep` says once what a step
may do to the store (what is held for an id is kept, forgotten, or replaced by a
queued document for that id); the invariant and `ServesAgainOnlyByPush` follow
from it.  `DelegationKeepsRelay` is the other
side of the refuted `OperatorKeepsRelay`: it holds when root never issues one id
to two operators, so root's discipline is what the header's sentence rests on.

**Router.**  From `Routing`'s lemma `ChoiceIsSound` (what `Pick` returns had room,
or the whole pool was full and it was a least used one), `PickCharges` states
what a step does to the counters; the properties follow from it.  For
`OverloadIsSpread`: the account that goes over was a least used one, so it ends
at most one request ahead of any account of that pool, and later charges only
move the others up.  `ChargingMakesNoRoom` (a full account stays full) carries
`MissMeansSaturation` over the charge that ends the step.

`RouterMovesPrefixesOn` is about requests with any number of others in between,
so its invariant `AllSettled` is about all that ever happened: for each placement
on record, either every account of the pool that ranks before it is full for a
request of that size, or all are.  A placement satisfies it when it is made
(`ChoiceIsSettled`) and keeps it, since counters only grow.  A later request at
least as large therefore finds no room before that account, and goes elsewhere
only when it finds none there either.

Two theorems stand
beside the refuted runs: `MissMeansSaturation` is what the false flag does say,
and `RouterNeverReturnsBudget` that `BudgetReturns` fails in every instance in
which one account ever fills up, whatever the fairness.

**FidProxy.**  The invariant `IInv` is `TypeOK` with `StoreInv` (as above),
`ByokInv` (a key is filed under its owner and is of this boot), and for every
handler `PhaseInv` (which of its variables are set at which `pc`), `AuthInv`,
`MeterInv`, `ProvisionInv`.  `AuthInv` carries the argument: the signer pinned
at arrival was named by a consented document for that relay id, it stays what it
was whatever is pushed afterwards, and the token in hand after `VerifyToken` is
that signer's.  `KeyIsolation` then rests on the lookup and the filing using the
same key.  `ProvisionInv` says that an accepted key is there until an empty one
is put over it.

`EveryPlacementCharged` counts the tokens asked for one by one: `AskedOf(a)`
holds a pair for each token of each request placed on `a`, and the counter is
its cardinality.  `ChargeInv` adds that these sets are finite and that a handler
that was not placed yet has no account.  `PickAccount` then adds `need` fresh
pairs to one set and touches no other (`PlacementAdds`); no later step changes
the account or the input of a placed request (`AskedOfKept`).

`ProxySpendsByAgreement` goes from documents to keys: the owner of a provisioned
key that is spent is the token's signer, which is the signer pinned at arrival,
which counter-signed a document for the relay id.

`ProxyNeverMixesAuthority` has one more hypothesis, in its statement: each
adapter named in a consented document mints under that document's key.  The code
cannot know this; it is what an operator promises by counter-signing, and without
it the property is false, since an adapter with two operators' keys would mix
them.

**The refinement of OperatorVault.**  `VaultReply` reads what a request was told
off its key, status and kind, so another 502 must not be taken for a missing
key: by `ChargeInv` a handler that was not placed has no account, and by
`ForwardInv` one whose upstream fails holds a key.  A handler that has not been
told yet maps to None (`ToldNothingYet`), and no other step changes what was
told (`ReplyKept`, `OthersTold`).  `ResolveKey` on a runtime-keyed account is `Find`,
an accepted `Provision` is `Put`, `Restart` is `Restart`; the others stutter
(`QuietSteps`).  `VaultIsolates` is proved of the abstract steps alone, so it
holds of anything that keeps the promise.

**The store in the data plane.**  Every step of FidProxy is a step of
Delegation or leaves its variables alone (`StoreSteps`), so `Dels!Spec` holds;
its two properties are proved again from `IInv`, whose `StoreInv` contains
Delegation's.

**CpAdapter.**  The invariant `AInv` adds `Staged` (progress agrees with
question and answer, and the account asked about is in the exchange's history)
and `Grounded` (whatever a verdict carries is from an account the key had since
the question).  Once an exchange is answered its history stops, so the properties
stand (`AnswersStand`).  The refinement maps `Conclude` to the promise's
`Answer`, and the validator's steps to stuttering.  `PInv` is the invariant of
the promise itself: only what was asked is answered, and tokens as in
`TokensWereAccepted`.

**Client.**  The invariant `Inv` is `TypeOK` and, for every client, `Good`:
`Program` (which program comes where), `Listed` (what `verify` pins was listed
when it looked), `Fresh` (the attestation in hand is this call's, so its enclave
is in `seen`), `Pinned` (once judged it runs the pinned build), `Unfronted` (past
the TLS check the key was met with nothing in front), `Prompts` (what each call
has sent is sealed to an enclave of its pin, which alone has opened it, and an
answer was taken of a prompt that was opened), `RightIdentity`, `Witnessed` (what
stands at the address is in `seen`, and a cached attestation under this call's
nonce was made during it), and `Boots` (a boot is one enclave, and none is to
come).  The world keeps each part:  `Redeploy` and `MoveFront` only add to
`seen`, and a boot never comes back, so `SessionAlive` identifies the attested
enclave with the one at the address (`AliveIsAttested`).  Each action has a lemma
for the client that takes it (`AttestGood`, `VerifyGood`, `CallGood`,
`FinishGood`, ...) and `OthersGood` for the rest; `OpenGood` is for the address,
at any time after the post.  `ClientKeepsPromise` maps `PostSealed` to `Send`,
`Open` to `Read`, a `Finish` that accepts to `Answer`, and the rest to
stuttering, `Redeploy` aside.  `ReadWell` is the invariant of the promise:  a
prompt was opened by nobody or by one enclave that had been started, of the
pinned build, and by somebody if it was answered.

**Provision.**  `OwnLaunch` is the strengthening: from the accepted launch on, a
VM that holds the name is this run's, with the digest in hand.  An error of the
launch raises, so the description is reached only through it; the mutation that
forgives it breaks the property.

Only model-checked: `EveryRequestAnswered`, `CallsEnd` and `RunEnds`.  They are
liveness under fairness, which needs ENABLED.  Every other property of a passing
run is proved, under the hypothesis named above for `NoMixedAuthority`.

## 6. Where code and documents disagree

Each is a run that refutes one documented statement.

| Run | The document says | The code |
|---|---|---|
| `router_window` | routing.go:34 "tokens used this window", :27 "tokens-per-window budget" | nothing ever resets `used` (routing.go:78, :89) |
| `router_affinity` | routing.go:58 "false means we had to spill" | when all are saturated, `Pick` may return the preferred account with `false` (routing.go:90) |
| `delegation_swap` | delegation.go:16 "Root alone cannot point an operator's traffic at a different adapter or swap their key" | root can issue the id to a second operator, whose counter-signature suffices (delegation.go:113) |
| `adapter_expiry` | GATEWAY_INTEGRATION.md:33 "the capability token is shortened to match" | never below 60 seconds, even for an expired key (adapter.py:161) |
| `adapter_outage` | GATEWAY_INTEGRATION.md:40 garbage answers give `503`; test_validators.py:4 "a refusal and an outage are never confused" | an object without `ok`, or empty output of a command, is a refusal: 401 (validators.py:53, :151) |

Met on the way, of the clients and the scripts, and stated by no run because no
document's sentence is about a behaviour the models tell apart:

* The MCP server's `call` posts the prompt in the clear, without the capability
  token it exchanged the key for (server.py:74-86): an enclave that wants a
  token refuses it (`PostPlain`), after it has read it.
* `verify_receipt_tool` promises "no model downgrade" (server.py:63) and compares
  no model; the SDK's `verify_receipt` leaves that to its caller.
* dcap.py:6 lists an acceptable TCB status among the policies; `verify_tdx_quote`
  returns the status and refuses none.
* `_exchange` (fid.py:70) speaks the wire format of the Go demo adapter only.
* With no pin from `/api/exchange`, `fidrouter call` verifies that *some* build
  answers, and nothing is left to check afterwards: `infer` hands out the receipt
  without its signature (fidrouter_verify.py:225-229) and `call` prints the
  completion (cli.py:90), so `fidrouter receipt` has nothing of it to verify.
* The identity seed is "kept stable across redeploys" (cs_provision.py:113) as
  long as the environment and `keys.json` say the same.  With another seed in the
  environment, or in neither place (a warning, cs_provision.py:122, and an
  identity per boot, main.go:131), a redeployment changes the identity that is
  published.  The scripts keep no identity and no model of them does.
* With no digest in buildx's metadata, `cs_provision.py` goes on with an empty
  one (cs_provision.py:98), asks for an image of no digest, and records it
  (`Build` may leave None).
* `relaunch_cs.py` asks for no reserved address, and any failed lookup of it in
  the other two leads to a new one, although cs_provision.py:142 wants the
  endpoint's URL to survive; the recorded address may be null if it is not
  assigned when the VM is described.

## 7. What is not modelled

* **Cryptography and encodings**: signatures, X25519 and AES-GCM, quotes, receipts'
  canonical bytes.  A signature is the key it verifies under, a seal the boot or
  session it was made for.
* **Clients** in other languages: `cmd/client` (the mock platform only), `sdk/ts`,
  `web/byok.js` follow the python SDK's protocol; their code was not compared
  with the model.  Of the python SDK, `_exchange` and the layout of quotes.  The
  CLI's first look validates the server's certificate where the SDK does not:
  a refusal of it is `Unanswered`.
* **The TLS holder**'s chains, CSRs and their loss on restart: planned below.  Its
  key, per boot or derived, is in Client.
* **Scripts**: two at a time, identity seeds, the life of access tokens (an API
  call or a push whose token has lapsed is refused: `Refuse`, `Raise`), the `.env`
  parser, upstream keys in the metadata, shell scripts.
* **Receipts after the call**: `verify_receipt` and `fidrouter receipt` check a
  receipt that was kept from elsewhere (the `X-Fid-Receipt` header); no client
  modelled here leaves one.
* **What stalled handlers hold**: memory, descriptors, and a client that does not
  read its answer (no WriteTimeout either).
* **The upstream policy** (`validateUpstreamBaseURL`, redirects, provider
  formats): `forward` answers or fails.
* **In the adapter**: tenant ids, model lists and URLs of the answer; negative or
  fractional quotas; an `expires_at` that is not a string of digits, which
  includes negative and fractional numbers (validators.py:63) and counts as no
  expiry, so that the token gets its full life.  It keeps nothing, so a
  restart of it only loses connections.  No liveness: `urlopen`'s timeout is per
  socket operation, so a slow gateway can hold a handler.
* `/sealing` and `/` only read; `/tls-csr` and `/tls-cert` wait for the TLS holder.
* `cp-adapter/go`, the mock upstream, examples, the enclave template, `cmd/ctl`:
  demonstrations or one-shot tools without state of their own.

## 8. The plan

In the order of what matters to the system's promise.

1. Done: **Delegation**, **Routing**/**Router**, **FidProxy**, **Exchange**/**CpAdapter**,
   with their proofs.
2. Done: **SealedCall**/**Client**, with the session table of the attesters as the
   client sees it, and **Provision**, with their proofs.
3. **TlsHolder** (`pkg/ratls`, `/tls-cert`): chains installed concurrently and
   across restarts.  Properties: only the attested key is ever served, a chain
   survives a restart exactly when the key does.  Composed with Client, whose
   `TlsKey` it refines.
4. **UpstreamPolicy**: `validateUpstreamBaseURL` as a pure operator against a
   reference definition, and `forward`'s error paths.
5. **Kms** (`internal/kms`, `cmd/ctl seal`, `seal-byok`): a key released only to
   the build it was sealed for.
6. Done: **OperatorVault**, the abstract promise of `/byok`, and the proof that
   FidProxy implements it.
7. Done: proofs of every safety property of the runs, and what each abstract
   specification comes to.  Next: type and safety of the modules 3 to 5.
