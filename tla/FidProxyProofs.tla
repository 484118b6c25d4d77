--------------------------- MODULE FidProxyProofs ---------------------------
(***************************************************************************)
(* The safety of the data plane, for any number of handlers, operators,    *)
(* relay ids, accounts, tokens and restarts.                               *)
(***************************************************************************)
EXTENDS FidProxy, RoutingProofs

Authorised == {"authed", "opened", "picked", "forward"}

-----------------------------------------------------------------------------
\* The inductive invariant, beside TypeOK.

\* What /delegation let through was consented to, and is filed under its id.
StoreInv ==
    /\ \A d \in pending : Dels!Consented(d)
    /\ \A r \in Relays : dels[r] # None =>
          Dels!Consented(dels[r]) /\ dels[r].relay = r

\* A provisioned key is filed under its owner and was sealed to this boot.
ByokInv ==
    \A k \in CpKeys, a \in Accounts : byok[k][a] # None =>
        byok[k][a].owner = k /\ byok[k][a].boot = boot

\* What a handler holds at each point of its way.
PhaseInv(r) ==
    /\ pc[r] = "idle" =>
          signer[r] = None /\ target[r] = None /\ meter[r] = "none"
    /\ pc[r] \in Waiting \cup {"done"} => in[r] \in Inputs
    /\ pc[r] \in Waiting => signer[r] \in CpKeys /\ meter[r] = "none"
    /\ pc[r] = "resolve" => target[r] = None
    /\ pc[r] = "exchange" => target[r] \in Adapters
    /\ pc[r] \in Authorised \cup {"verify"} => tok[r] \in Tokens
    /\ pc[r] \in {"opened", "picked", "forward"} =>
          in[r].kind \in {"infer", "chat"}
    /\ pc[r] \in {"picked", "forward"} => acct[r] \in Accounts
    /\ pc[r] \notin {"forward", "done"} => upKey[r] = None
    /\ pc[r] # "done" => status[r] = 0

\* The signer pinned at arrival is an operator of the relay id, and what a
\* handler does past authClaims it does for that signer.
AuthInv(r) ==
    /\ pc[r] \in Waiting \cup {"done"} /\ signer[r] # None /\ in[r].relay # None
          => Agreed(in[r].relay, signer[r], None)
    /\ pc[r] \in Authorised \/ status[r] = 200 \/ upKey[r] # None =>
          /\ signer[r] \in CpKeys
          /\ tok[r] \in Tokens
          /\ tok[r].cp = signer[r]
    /\ target[r] # None =>
          IF in[r].relay = None THEN target[r] = BakedAdapter
          ELSE Agreed(in[r].relay, None, target[r])
    /\ target[r] # None
       /\ (pc[r] \in Authorised \cup {"verify"} \/ status[r] = 200)
          => tok[r].cp = AdapterCp[target[r]]
    /\ upKey[r] \in SealedKey =>
          upKey[r].owner = tok[r].cp /\ upKey[r].boot = boot

\* A receipt has been posted for exactly the requests that were served.
MeterInv(r) ==
    pc[r] # "gone" =>
        (meter[r] # "none" <=>
            status[r] = 200 /\ in[r].kind \in {"infer", "chat"})

\* A key that was provisioned is there until an empty one is put over it.
ProvisionInv(r) ==
    status[r] = 200 /\ in[r].kind = "byok" =>
        \/ byok[tok[r].cp][in[r].account] # None
        \/ \E q \in Reqs :
              Provisioned(q, tok[r].cp, in[r].account) /\ in[q].blank

IInv ==
    /\ TypeOK
    /\ StoreInv
    /\ ByokInv
    /\ \A r \in Reqs : PhaseInv(r)
    /\ \A r \in Reqs : AuthInv(r)
    /\ \A r \in Reqs : MeterInv(r)
    /\ \A r \in Reqs : ProvisionInv(r)

-----------------------------------------------------------------------------
\* Lemmas on the authorisation.

\* The authority of a relay id is what some consented document for it names;
\* without a relay id it is baked in.
LEMMA AuthorityIsAgreed ==
    ASSUME TypeOK, StoreInv, NEW relay \in Relays \cup {None},
           Authority(relay) # None
    PROVE  LET auth == Authority(relay)
           IN  /\ auth.cp \in CpKeys
               /\ auth.adapter \in Adapters \cup {None}
               /\ relay = None => auth.adapter = BakedAdapter
               /\ relay # None => \E d \in Docs :
                     /\ d.relay = relay /\ Dels!Consented(d)
                     /\ auth.cp = d.partner /\ auth.adapter = d.adapter
<1>1. CASE relay = None
  BY <1>1, FidProxyAssumption DEF Authority
<1>2. CASE relay # None
  <2> DEFINE d == dels[relay]
  <2>1. relay \in Relays
    BY <1>2
  <2>2. d # None /\ Authority(relay) = [cp |-> d.partner, adapter |-> d.adapter]
    BY <1>2, <2>1 DEF Authority, Dels!Get
  <2>3. d \in Docs /\ d.relay = relay /\ Dels!Consented(d)
    BY <2>1, <2>2 DEF TypeOK, StoreInv
  <2>4. d \in Dels!Document
    BY <2>3, FidProxyAssumption
  <2>5. d.partner \in CpKeys /\ d.adapter \in Adapters
    BY <2>4 DEF Dels!Document
  <2> HIDE DEF d
  <2>6. QED
    BY <1>2, <2>2, <2>3, <2>5
<1>3. QED
  BY <1>1, <1>2

\* The fields of a request.
LEMMA InputFields ==
    ASSUME NEW i \in Inputs
    PROVE  /\ i # None
           /\ i.kind \in Kinds /\ i.relay \in Relays \cup {None}
           /\ i.account \in Accounts /\ i.sealedFor \in Nat
           /\ i.fp \in Fps /\ i.need \in Needs
           /\ i.blank \in BOOLEAN
BY FidProxyAssumption DEF Input

\* Likewise for a token.
LEMMA TokenFields ==
    ASSUME NEW t \in Tokens
    PROVE  t # None /\ t.cp \in CpKeys /\ t.pool \in Pools
BY FidProxyAssumption DEF Token

-----------------------------------------------------------------------------
\* The steps.

\* A handler's step ends in one of two ways: the handler goes on ...
LEMMA AdvanceTypes ==
    ASSUME TypeOK, NEW r \in Reqs, NEW to \in Waiting, Advance(r, to)
    PROVE  /\ pc' \in [Reqs -> Waiting \cup {"idle", "done", "gone"}]
           /\ status' \in [Reqs -> Statuses \cup {0}]
BY DEF TypeOK, Advance

\* ... or it answers.
LEMMA AnswerTypes ==
    ASSUME TypeOK, NEW r \in Reqs, NEW code \in Statuses, Answer(r, code)
    PROVE  /\ pc' \in [Reqs -> Waiting \cup {"idle", "done", "gone"}]
           /\ status' \in [Reqs -> Statuses \cup {0}]
BY DEF TypeOK, Answer

\* A step that provisions nothing, and leaves what was served alone, keeps
\* every provisioned key.
LEMMA ProvisionKept ==
    ASSUME IInv, UNCHANGED byok,
           \A q \in Reqs : status[q] = 200 =>
               status'[q] = 200 /\ in'[q] = in[q] /\ tok'[q] = tok[q],
           \A q \in Reqs : status'[q] = 200 /\ status[q] # 200 =>
               in'[q].kind # "byok"
    PROVE  \A q \in Reqs : ProvisionInv(q)'
<1> SUFFICES ASSUME NEW q \in Reqs, status'[q] = 200, in'[q].kind = "byok"
             PROVE  \/ byok'[tok'[q].cp][in'[q].account] # None
                    \/ \E p \in Reqs :
                          /\ Provisioned(p, tok[q].cp, in[q].account)'
                          /\ in'[p].blank
  BY DEF ProvisionInv
<1>1. status[q] = 200 /\ in'[q] = in[q] /\ tok'[q] = tok[q]
  OBVIOUS
<1>2. \/ byok[tok[q].cp][in[q].account] # None
      \/ \E p \in Reqs :
            Provisioned(p, tok[q].cp, in[q].account) /\ in[p].blank
  BY <1>1 DEF IInv, ProvisionInv
<1>3. \A p \in Reqs :
         Provisioned(p, tok[q].cp, in[q].account) /\ in[p].blank =>
            Provisioned(p, tok[q].cp, in[q].account)' /\ in'[p].blank
  BY <1>1 DEF Provisioned
<1>4. QED
  BY <1>1, <1>2, <1>3

\* A request comes in: its signer is an operator of its relay id.
LEMMA ArriveStep ==
    ASSUME IInv, NEW r \in Reqs, NEW i \in Inputs, Arrive(r, i)
    PROVE  IInv'
<1> USE DEF Arrive, storeVars
<1> DEFINE auth == Authority(i.relay)
<1>0. /\ i.relay \in Relays \cup {None} /\ i # None
      /\ auth # None => /\ auth.cp \in CpKeys
                        /\ i.relay # None => Agreed(i.relay, auth.cp, None)
  BY InputFields, AuthorityIsAgreed DEF IInv, Agreed, Dels!Consented
<1> HIDE DEF auth
<1>1. TypeOK'
  <2>1. CASE auth = None
    BY <1>0, <2>1, AnswerTypes DEF auth, IInv, TypeOK, Statuses
  <2>2. CASE auth # None
    BY <1>0, <2>2, AdvanceTypes DEF auth, IInv, TypeOK, Waiting
  <2>3. QED
    BY <2>1, <2>2
<1>2. StoreInv'
  BY DEF IInv, StoreInv
<1>3. ByokInv'
  BY DEF IInv, ByokInv
<1>4. \A q \in Reqs : PhaseInv(q)'
  BY <1>0 DEF auth, IInv, TypeOK, PhaseInv, Advance, Answer, Waiting, Authorised
<1>5. \A q \in Reqs : AuthInv(q)'
  <2>1. AuthInv(r)'
    BY <1>0 DEF auth, IInv, TypeOK, PhaseInv, AuthInv, Advance, Answer, Waiting,
       Authorised
  <2>2. ASSUME NEW q \in Reqs \ {r}
        PROVE  AuthInv(q)'
    BY <2>2 DEF IInv, TypeOK, AuthInv, Advance, Answer
  <2>3. QED
    BY <2>1, <2>2
<1>6. \A q \in Reqs : MeterInv(q)'
  BY InputFields
     DEF IInv, TypeOK, MeterInv, PhaseInv, Kinds, Advance, Answer, Waiting
<1>7. \A q \in Reqs : ProvisionInv(q)'
  BY ProvisionKept, InputFields
     DEF IInv, TypeOK, PhaseInv, Kinds, Advance, Answer, Waiting, Authorised
<1>8. QED
  BY <1>1, <1>2, <1>3, <1>4, <1>5, <1>6, <1>7 DEF IInv

\* The second read sends a gateway key only where an operator named.
LEMMA ResolveStep ==
    ASSUME IInv, NEW r \in Reqs, Resolve(r)
    PROVE  IInv'
<1> USE DEF Resolve, storeVars
<1> DEFINE i == in[r]
           auth == Authority(i.relay)
<1>0. /\ i \in Inputs
      /\ auth # None => /\ auth.adapter \in Adapters \cup {None}
                        /\ IF i.relay = None THEN auth.adapter = BakedAdapter
                           ELSE Agreed(i.relay, None, auth.adapter)
  BY InputFields, AuthorityIsAgreed
  DEF IInv, PhaseInv, Waiting, Agreed, Dels!Consented
<1> HIDE DEF auth
<1>1. TypeOK'
  BY <1>0, AdvanceTypes, AnswerTypes
     DEF auth, IInv, TypeOK, Waiting, Statuses, Valid
<1>2. StoreInv'
  BY DEF IInv, StoreInv
<1>3. ByokInv'
  BY DEF IInv, ByokInv
<1>4. \A q \in Reqs : PhaseInv(q)'
  BY <1>0 DEF auth, IInv, TypeOK, PhaseInv, Valid, Advance, Answer, Waiting,
              Authorised
<1>5. \A q \in Reqs : AuthInv(q)'
  <2>1. AuthInv(r)'
    BY <1>0, FidProxyAssumption
    DEF auth, IInv, TypeOK, PhaseInv, AuthInv, Advance, Answer, Waiting,
       Authorised
  <2>2. ASSUME NEW q \in Reqs \ {r}
        PROVE  AuthInv(q)'
    BY <2>2 DEF IInv, TypeOK, AuthInv, Advance, Answer
  <2>3. QED
    BY <2>1, <2>2
<1>6. \A q \in Reqs : MeterInv(q)'
  BY InputFields
     DEF IInv, TypeOK, MeterInv, PhaseInv, Kinds, Advance, Answer, Waiting
<1>7. \A q \in Reqs : ProvisionInv(q)'
  BY ProvisionKept, InputFields
     DEF IInv, TypeOK, PhaseInv, Kinds, Advance, Answer, Waiting, Authorised
<1>8. QED
  BY <1>1, <1>2, <1>3, <1>4, <1>5, <1>6, <1>7 DEF IInv

\* What the adapter mints is signed by its own control plane.
LEMMA ExchangeReplyStep ==
    ASSUME IInv, NEW r \in Reqs, NEW t \in Tokens, ExchangeReply(r, t)
    PROVE  IInv'
<1> USE DEF ExchangeReply, storeVars
<1>1. TypeOK'
  BY AdvanceTypes, AnswerTypes, InputFields, TokenFields
     DEF IInv, TypeOK, PhaseInv, AuthInv, Waiting, Statuses, Authorised, Valid
<1>2. StoreInv'
  BY DEF IInv, StoreInv
<1>3. ByokInv'
  BY DEF IInv, ByokInv
<1>4. \A q \in Reqs : PhaseInv(q)'
  BY InputFields, TokenFields
     DEF IInv, TypeOK, PhaseInv, AuthInv, Kinds, Valid,
         Advance, Answer, Waiting, Authorised
<1>5. \A q \in Reqs : AuthInv(q)'
  BY TokenFields, FidProxyAssumption
     DEF IInv, TypeOK, PhaseInv, AuthInv, Valid, Advance, Waiting, Authorised
<1>6. \A q \in Reqs : MeterInv(q)'
  BY InputFields
     DEF IInv, TypeOK, MeterInv, PhaseInv, Kinds, Advance, Answer, Waiting
<1>7. \A q \in Reqs : ProvisionInv(q)'
  BY ProvisionKept, InputFields
     DEF IInv, TypeOK, PhaseInv, Kinds, Advance, Answer, Waiting, Authorised
<1>8. QED
  BY <1>1, <1>2, <1>3, <1>4, <1>5, <1>6, <1>7 DEF IInv

\* A handler turns its request away.
LEMMA RefusedStep ==
    ASSUME IInv, NEW r \in Reqs, pc[r] \in Waiting,
           NEW code \in Statuses \ {200}, Answer(r, code),
           UNCHANGED <<storeVars, in, signer, target, tok, acct, upKey, meter>>
    PROVE  IInv'
<1> USE DEF storeVars
<1>1. TypeOK'
  BY AnswerTypes DEF IInv, TypeOK
<1>2. StoreInv' /\ ByokInv'
  BY DEF IInv, StoreInv, ByokInv
<1>3. \A q \in Reqs : PhaseInv(q)'
  BY DEF IInv, TypeOK, PhaseInv, Answer, Waiting, Authorised
<1>4. \A q \in Reqs : AuthInv(q)'
  BY DEF IInv, TypeOK, PhaseInv, AuthInv, Answer, Waiting, Authorised
<1>5. \A q \in Reqs : MeterInv(q)' /\ ProvisionInv(q)'
  <2>1. \A q \in Reqs : MeterInv(q)'
    BY DEF IInv, TypeOK, PhaseInv, MeterInv, Answer, Waiting
  <2>2. \A q \in Reqs : ProvisionInv(q)'
    BY ProvisionKept DEF IInv, TypeOK, PhaseInv, Answer, Waiting
  <2>3. QED
    BY <2>1, <2>2
<1>6. QED
  BY <1>1, <1>2, <1>3, <1>4, <1>5 DEF IInv

\* A handler passes a check and goes on.
LEMMA PassedStep ==
    ASSUME IInv, NEW r \in Reqs, NEW to \in {"authed", "opened"},
           Advance(r, to),
           \/ pc[r] = "verify" /\ to = "authed" /\ tok[r].cp = signer[r]
           \/ /\ pc[r] = "authed" /\ to = "opened"
              /\ in[r].kind \in {"infer", "chat"},
           UNCHANGED <<storeVars, in, signer, target, tok, acct, upKey, meter>>
    PROVE  IInv'
<1> USE DEF storeVars
<1>1. TypeOK'
  BY AdvanceTypes DEF IInv, TypeOK, Waiting
<1>2. StoreInv' /\ ByokInv'
  BY DEF IInv, StoreInv, ByokInv
<1>3. \A q \in Reqs : PhaseInv(q)'
  BY DEF IInv, TypeOK, PhaseInv, Advance, Waiting, Authorised
<1>4. \A q \in Reqs : AuthInv(q)'
  BY DEF IInv, TypeOK, PhaseInv, AuthInv, Advance, Waiting, Authorised
<1>5. \A q \in Reqs : MeterInv(q)' /\ ProvisionInv(q)'
  <2>1. \A q \in Reqs : MeterInv(q)'
    BY DEF IInv, TypeOK, MeterInv, Advance
  <2>2. \A q \in Reqs : ProvisionInv(q)'
    BY ProvisionKept DEF Advance
  <2>3. QED
    BY <2>1, <2>2
<1>6. QED
  BY <1>1, <1>2, <1>3, <1>4, <1>5 DEF IInv

\* The exchange or the upstream fails.
LEMMA FailStep ==
    ASSUME IInv, NEW r \in Reqs, ExchangeFail(r) \/ UpstreamFail(r)
    PROVE  IInv'
BY RefusedStep DEF ExchangeFail, UpstreamFail, Waiting, Statuses

\* Past its check, token and signer agree.
LEMMA VerifyTokenStep ==
    ASSUME IInv, NEW r \in Reqs, VerifyToken(r)
    PROVE  IInv'
BY RefusedStep, PassedStep DEF VerifyToken, Valid, Waiting, Statuses

\* The prompt is opened, or not.
LEMMA OpenStep ==
    ASSUME IInv, NEW r \in Reqs, OpenSession(r) \/ DecodeChat(r)
    PROVE  IInv'
BY RefusedStep, PassedStep DEF OpenSession, DecodeChat, Waiting, Statuses

\* /v1/models answers.
LEMMA ListModelsStep ==
    ASSUME IInv, NEW r \in Reqs, ListModels(r)
    PROVE  IInv'
<1> USE DEF ListModels, storeVars
<1>1. TypeOK'
  BY AdvanceTypes, AnswerTypes, InputFields, TokenFields
     DEF IInv, TypeOK, PhaseInv, AuthInv, Waiting, Statuses, Authorised, Valid
<1>2. StoreInv'
  BY DEF IInv, StoreInv
<1>3. ByokInv'
  BY DEF IInv, ByokInv
<1>4. \A q \in Reqs : PhaseInv(q)'
  BY InputFields, TokenFields
     DEF IInv, TypeOK, PhaseInv, AuthInv, Kinds, Valid,
         Advance, Answer, Waiting, Authorised
<1>5. \A q \in Reqs : AuthInv(q)'
  BY InputFields, TokenFields
     DEF IInv, TypeOK, PhaseInv, AuthInv, Agreed, Valid,
         Advance, Answer, Waiting, Authorised
<1>6. \A q \in Reqs : MeterInv(q)'
  BY InputFields
     DEF IInv, TypeOK, MeterInv, PhaseInv, Kinds, Advance, Answer, Waiting
<1>7. \A q \in Reqs : ProvisionInv(q)'
  BY ProvisionKept, InputFields
     DEF IInv, TypeOK, PhaseInv, Kinds, Advance, Answer, Waiting, Authorised
<1>8. QED
  BY <1>1, <1>2, <1>3, <1>4, <1>5, <1>6, <1>7 DEF IInv

\* The request is served, and metered.
LEMMA UpstreamOKStep ==
    ASSUME IInv, NEW r \in Reqs, UpstreamOK(r)
    PROVE  IInv'
<1> USE DEF UpstreamOK, storeVars
<1>1. TypeOK'
  BY AdvanceTypes, AnswerTypes, InputFields, TokenFields
     DEF IInv, TypeOK, PhaseInv, AuthInv, Waiting, Statuses, Authorised, Valid
<1>2. StoreInv'
  BY DEF IInv, StoreInv
<1>3. ByokInv'
  BY DEF IInv, ByokInv
<1>4. \A q \in Reqs : PhaseInv(q)'
  BY InputFields, TokenFields
     DEF IInv, TypeOK, PhaseInv, AuthInv, Kinds, Valid,
         Advance, Answer, Waiting, Authorised
<1>5. \A q \in Reqs : AuthInv(q)'
  BY InputFields, TokenFields
     DEF IInv, TypeOK, PhaseInv, AuthInv, Agreed, Valid,
         Advance, Answer, Waiting, Authorised
<1>6. \A q \in Reqs : MeterInv(q)'
  BY InputFields
     DEF IInv, TypeOK, MeterInv, PhaseInv, Kinds, Advance, Answer, Waiting
<1>7. \A q \in Reqs : ProvisionInv(q)'
  BY ProvisionKept, InputFields
     DEF IInv, TypeOK, PhaseInv, Kinds, Advance, Answer, Waiting, Authorised
<1>8. QED
  BY <1>1, <1>2, <1>3, <1>4, <1>5, <1>6, <1>7 DEF IInv

\* The metering post comes to its end.
LEMMA MeterEndsStep ==
    ASSUME IInv, NEW r \in Reqs, MeterEnds(r)
    PROVE  IInv'
<1> USE DEF MeterEnds, storeVars
<1>1. TypeOK'
  BY AdvanceTypes, AnswerTypes, InputFields, TokenFields
     DEF IInv, TypeOK, PhaseInv, AuthInv, Waiting, Statuses, Authorised, Valid
<1>2. StoreInv'
  BY DEF IInv, StoreInv
<1>3. ByokInv'
  BY DEF IInv, ByokInv
<1>4. \A q \in Reqs : PhaseInv(q)'
  BY InputFields, TokenFields
     DEF IInv, TypeOK, PhaseInv, AuthInv, Kinds, Valid,
         Advance, Answer, Waiting, Authorised
<1>5. \A q \in Reqs : AuthInv(q)'
  BY InputFields, TokenFields
     DEF IInv, TypeOK, PhaseInv, AuthInv, Agreed, Valid,
         Advance, Answer, Waiting, Authorised
<1>6. \A q \in Reqs : MeterInv(q)'
  BY InputFields
     DEF IInv, TypeOK, MeterInv, PhaseInv, Kinds, Advance, Answer, Waiting
<1>7. \A q \in Reqs : ProvisionInv(q)'
  BY ProvisionKept, InputFields
     DEF IInv, TypeOK, PhaseInv, Kinds, Advance, Answer, Waiting, Authorised
<1>8. QED
  BY <1>1, <1>2, <1>3, <1>4, <1>5, <1>6, <1>7 DEF IInv

\* Updating one entry of a two-level map.
LEMMA PutIsPointwise ==
    ASSUME NEW K, NEW A, NEW V, NEW f \in [K -> [A -> V]],
           NEW k \in K, NEW a \in A, NEW v \in V
    PROVE  LET g == [f EXCEPT ![k][a] = v]
           IN  /\ g \in [K -> [A -> V]]
               /\ \A kk \in K, aa \in A :
                     g[kk][aa] = IF kk = k /\ aa = a THEN v ELSE f[kk][aa]
OBVIOUS

\* /byok files a key under the signer, or refuses it.
LEMMA ProvisionStep ==
    ASSUME IInv, NEW r \in Reqs, Provision(r)
    PROVE  IInv'
<1> DEFINE k == signer[r]
           a == in[r].account
           v == IF in[r].blank THEN None ELSE Sealed(r)
<1>0. /\ in[r] \in Inputs /\ tok[r] \in Tokens /\ tok[r].cp = k
      /\ k \in CpKeys /\ a \in Accounts
      /\ pc[r] = "authed" /\ in[r].kind = "byok" /\ status[r] = 0
  BY InputFields DEF IInv, PhaseInv, AuthInv, Provision, Waiting, Authorised
\* Refused: the blob was sealed to another boot or is no blob.
<1>1. CASE Answer(r, 400) /\ UNCHANGED byok
  BY <1>0, <1>1, RefusedStep DEF Provision, storeVars, Waiting, Statuses
\* Stored under the key that authorised the request.
<1>2. CASE /\ Opens(in[r]) /\ Answer(r, 200)
           /\ byok' = [byok EXCEPT ![k][a] = v]
  <2> USE <1>2 DEF Provision
  <2>1. /\ v \in SealedKey \cup {None}
        /\ v # None => v.owner = k /\ v.boot = boot
        /\ v # None \/ in[r].blank
    BY <1>0, InputFields, FidProxyAssumption DEF Sealed, SealedKey, Opens
  <2>2. /\ byok' \in [CpKeys -> [Accounts -> SealedKey \cup {None}]]
        /\ \A kk \in CpKeys, aa \in Accounts :
              byok'[kk][aa] = IF kk = k /\ aa = a THEN v ELSE byok[kk][aa]
    <3>1. byok \in [CpKeys -> [Accounts -> SealedKey \cup {None}]]
      BY DEF IInv, TypeOK
    <3> HIDE DEF k, a, v
    <3>2. QED
      BY <1>0, <1>2, <2>1, <3>1, PutIsPointwise
  <2> HIDE DEF v
  <2>3. TypeOK'
    BY <2>2, AnswerTypes DEF IInv, TypeOK, Statuses
  <2>4. StoreInv' /\ ByokInv'
    BY <2>1, <2>2 DEF IInv, StoreInv, ByokInv
  <2>5. \A q \in Reqs : PhaseInv(q)'
    BY <1>0 DEF IInv, TypeOK, PhaseInv, Answer, Waiting, Authorised
  <2>6. \A q \in Reqs : AuthInv(q)'
    BY <1>0 DEF IInv, TypeOK, PhaseInv, AuthInv, Answer, Waiting, Authorised
  <2>7. \A q \in Reqs : MeterInv(q)'
    BY <1>0 DEF IInv, TypeOK, PhaseInv, MeterInv, Answer, Waiting
  <2>8. \A q \in Reqs : ProvisionInv(q)'
    <3> SUFFICES ASSUME NEW q \in Reqs, status'[q] = 200, in[q].kind = "byok"
                 PROVE  ProvisionInv(q)'
      BY DEF ProvisionInv
    <3>1. Provisioned(r, k, a)'
      BY <1>0 DEF IInv, TypeOK, Provisioned, Answer
    <3>2. \A p \in Reqs \ {r} : status'[p] = status[p]
      BY DEF IInv, TypeOK, Answer
    <3>3. in[q] \in Inputs /\ tok[q] \in Tokens
      BY <1>0, <3>2 DEF IInv, TypeOK, PhaseInv, AuthInv
    <3>4. tok[q].cp \in CpKeys /\ in[q].account \in Accounts
      BY <3>3, InputFields, TokenFields
    <3>5. CASE tok[q].cp = k /\ in[q].account = a
      <4>1. UNCHANGED <<tok, in>>
        OBVIOUS
      <4>2. byok'[tok'[q].cp][in'[q].account] = v
        BY <2>2, <3>4, <3>5, <4>1
      <4>3. Provisioned(r, tok[q].cp, in[q].account)'
        BY <3>1, <3>5, <4>1 DEF Provisioned
      <4>4. QED
        BY <2>1, <4>1, <4>2, <4>3 DEF ProvisionInv
    <3>6. CASE ~ (tok[q].cp = k /\ in[q].account = a)
      <4>1. q # r
        BY <1>0, <3>6
      <4>2. byok'[tok[q].cp][in[q].account] = byok[tok[q].cp][in[q].account]
        BY <2>2, <3>4, <3>6
      <4>3. CASE byok[tok[q].cp][in[q].account] # None
        BY <4>2, <4>3 DEF ProvisionInv
      <4>4. CASE byok[tok[q].cp][in[q].account] = None
        <5>1. PICK p \in Reqs :
                 Provisioned(p, tok[q].cp, in[q].account) /\ in[p].blank
          BY <3>2, <4>1, <4>4 DEF IInv, ProvisionInv
        <5>2. p # r
          BY <1>0, <5>1 DEF Provisioned
        <5>3. Provisioned(p, tok[q].cp, in[q].account)'
          BY <3>2, <5>1, <5>2 DEF Provisioned
        <5>4. QED
          BY <5>1, <5>3 DEF ProvisionInv
      <4>5. QED
        BY <4>3, <4>4
    <3>7. QED
      BY <3>5, <3>6
  <2>9. QED
    BY <2>3, <2>4, <2>5, <2>6, <2>7, <2>8 DEF IInv
<1>3. QED
  BY <1>1, <1>2 DEF Provision, ProvisionUnder, Filed

\* Placement: refused, or an account of the token's pool is charged.
LEMMA PickAccountStep ==
    ASSUME IInv, NEW r \in Reqs, PickAccount(r)
    PROVE  IInv'
<1> DEFINE i == in[r]
           pool == tok[r].pool
           a == Choice(used, pool, i.fp, i.need)
<1>0. /\ i \in Inputs /\ tok[r] \in Tokens /\ signer[r] \in CpKeys
      /\ pool \in Pools /\ i.fp \in Fps /\ i.need \in Needs /\ i.need \in Nat
      /\ pc[r] = "opened" /\ status[r] = 0 /\ upKey[r] = None
  BY InputFields, TokenFields, RoutingAssumption
  DEF IInv, PhaseInv, PickAccount, Waiting, Authorised
<1>1. CASE /\ \E code \in {403, 502} : Answer(r, code)
           /\ UNCHANGED <<acct, used>>
  BY <1>0, <1>1, RefusedStep DEF PickAccount, storeVars, Waiting, Statuses
<1>2. CASE /\ Members[pool] # {} /\ Advance(r, "picked")
           /\ acct' = [acct EXCEPT ![r] = a]
           /\ used' = Charged(used, a, i.need)
  <2> USE <1>2 DEF PickAccount
  <2>1. a \in Accounts
    BY <1>0, ChoiceIsSound DEF IInv, TypeOK
  <2> HIDE DEF a
  <2>2. used' \in [Accounts -> Nat]
    BY <1>0, <2>1 DEF IInv, TypeOK, Charged
  <2>3. TypeOK'
    BY <2>1, <2>2, AdvanceTypes DEF IInv, TypeOK, Waiting
  <2>4. StoreInv' /\ ByokInv'
    BY DEF IInv, StoreInv, ByokInv
  <2>5. \A q \in Reqs : PhaseInv(q)'
    BY <1>0, <2>1 DEF IInv, TypeOK, PhaseInv, Advance, Waiting, Authorised
  <2>6. \A q \in Reqs : AuthInv(q)'
    BY <1>0 DEF IInv, TypeOK, AuthInv, Advance, Waiting, Authorised
  <2>7. \A q \in Reqs : MeterInv(q)'
    BY <1>0 DEF IInv, TypeOK, MeterInv, Advance
  <2>8. \A q \in Reqs : ProvisionInv(q)'
    BY <1>0, ProvisionKept DEF IInv, TypeOK, Advance
  <2>9. QED
    BY <2>3, <2>4, <2>5, <2>6, <2>7, <2>8 DEF IInv
<1>3. QED
  BY <1>1, <1>2 DEF PickAccount

\* The key is looked up in the signer's own namespace.
LEMMA ResolveKeyStep ==
    ASSUME IInv, NEW r \in Reqs, ResolveKey(r)
    PROVE  IInv'
<1> USE DEF ResolveKey, storeVars
<1> DEFINE key == ResolvedKey(acct[r], signer[r])
<1>0. /\ key \in SealedKey \cup {None, PoolKey}
      /\ key \in SealedKey => key.owner = signer[r] /\ key.boot = boot
  <2>1. acct[r] \in Accounts /\ signer[r] \in CpKeys
    BY DEF IInv, PhaseInv, Waiting
  <2>2. CASE acct[r] \in RuntimeKeyed
    BY <2>1, <2>2, FidProxyAssumption DEF IInv, TypeOK, ByokInv, ResolvedKey
  <2>3. CASE acct[r] \notin RuntimeKeyed
    BY <2>3, FidProxyAssumption DEF ResolvedKey
  <2>4. QED
    BY <2>2, <2>3
<1> HIDE DEF key
<1>1. TypeOK'
  BY <1>0, AdvanceTypes, AnswerTypes
     DEF key, IInv, TypeOK, Waiting, Statuses
<1>2. StoreInv'
  BY DEF IInv, StoreInv
<1>3. ByokInv'
  BY DEF IInv, ByokInv
<1>4. \A q \in Reqs : PhaseInv(q)'
  BY InputFields, TokenFields
     DEF IInv, TypeOK, PhaseInv, AuthInv, Kinds, Valid,
         Advance, Answer, Waiting, Authorised
<1>5. \A q \in Reqs : AuthInv(q)'
  BY <1>0 DEF key, IInv, TypeOK, PhaseInv, AuthInv, Agreed, Advance, Answer,
              Waiting, Authorised
<1>6. \A q \in Reqs : MeterInv(q)'
  BY InputFields
     DEF IInv, TypeOK, MeterInv, PhaseInv, Kinds, Advance, Answer, Waiting
<1>7. \A q \in Reqs : ProvisionInv(q)'
  BY ProvisionKept, InputFields
     DEF IInv, TypeOK, PhaseInv, Kinds, Advance, Answer, Waiting, Authorised
<1>8. QED
  BY <1>1, <1>2, <1>3, <1>4, <1>5, <1>6, <1>7 DEF IInv

\* Steps that no handler takes: pushes, the clock, attestations.
LEMMA StoreStep ==
    ASSUME IInv, UNCHANGED <<boot, byok, reqVars>>, TypeOK', StoreInv'
    PROVE  IInv'
<1>1. ByokInv'
  BY DEF IInv, ByokInv
<1>2. \A r \in Reqs : PhaseInv(r)' /\ AuthInv(r)' /\ MeterInv(r)'
  BY DEF IInv, PhaseInv, AuthInv, MeterInv, reqVars
<1>3. \A r \in Reqs : ProvisionInv(r)'
  BY ProvisionKept DEF reqVars
<1>4. QED
  BY <1>1, <1>2, <1>3 DEF IInv

\* A document that Put lets through is consented to.
LEMMA PushVerifyStep ==
    ASSUME IInv, NEW d \in Docs, PushVerify(d)
    PROVE  IInv'
<1> USE DEF PushVerify, Dels!PutVerify
<1>1. TypeOK'
  BY DEF IInv, TypeOK, reqVars
<1>2. StoreInv'
  BY DEF IInv, StoreInv, Dels!Verify
<1>3. QED
  BY <1>1, <1>2, StoreStep

\* It is stored under its own relay id.
LEMMA PushStoreStep ==
    ASSUME IInv, NEW d \in Docs, PushStore(d)
    PROVE  IInv'
<1> USE DEF PushStore, Dels!PutStore
<1>1. d \in Dels!Document /\ d.relay \in Relays
  BY FidProxyAssumption DEF Dels!Document
<1>2. TypeOK'
  BY <1>1 DEF IInv, TypeOK, reqVars
<1>3. StoreInv'
  BY <1>1 DEF IInv, TypeOK, StoreInv
<1>4. QED
  BY <1>2, <1>3, StoreStep

\* Time passes.
LEMMA TickStep ==
    ASSUME IInv, Tick
    PROVE  IInv'
<1> USE DEF Tick, Dels!Tick
<1>1. TypeOK'
  BY FidProxyAssumption DEF IInv, TypeOK, reqVars
<1>2. StoreInv'
  BY DEF IInv, StoreInv
<1>3. QED
  BY <1>1, <1>2, StoreStep

\* A session is handed out.
LEMMA AttestStep ==
    ASSUME IInv, NEW s \in Sessions, Attest(s)
    PROVE  IInv'
<1> USE DEF Attest
<1>1. sess' \in [Sessions -> Nat \cup {Unused, Gone}]
  BY FidProxyAssumption DEF IInv, TypeOK, Unused, Gone
<1>2. TypeOK'
  BY <1>1 DEF IInv, TypeOK, reqVars
<1>3. StoreInv'
  BY DEF IInv, StoreInv
<1>4. QED
  BY <1>2, <1>3, StoreStep

\* A restart drops whatever was bound to the boot that ends.
LEMMA RestartStep ==
    ASSUME IInv, Restart
    PROVE  IInv'
<1> USE DEF Restart, Dels!Forget
<1>1. TypeOK'
  <2>1. /\ boot' \in 1..MaxBoot
        /\ byok' \in [CpKeys -> [Accounts -> SealedKey \cup {None}]]
        /\ sess' \in [Sessions -> Nat \cup {Unused, Gone}]
        /\ pc' \in [Reqs -> Waiting \cup {"idle", "done", "gone"}]
        /\ meter' \in [Reqs -> {"none", "posted", "delivered", "lost"}]
    BY FidProxyAssumption DEF IInv, TypeOK, EmptyByok
  <2>2. QED
    BY <2>1 DEF IInv, TypeOK
<1>2. StoreInv' /\ ByokInv'
  BY DEF StoreInv, ByokInv, EmptyByok
<1>3. \A r \in Reqs : PhaseInv(r)'
  BY DEF IInv, TypeOK, PhaseInv, Waiting, Authorised
<1>4. \A r \in Reqs : AuthInv(r)'
  BY FidProxyAssumption DEF IInv, TypeOK, AuthInv, Waiting, Authorised
<1>5. \A r \in Reqs : MeterInv(r)' /\ ProvisionInv(r)'
  BY DEF IInv, TypeOK, PhaseInv, MeterInv, ProvisionInv
<1>6. QED
  BY <1>1, <1>2, <1>3, <1>4, <1>5 DEF IInv

-----------------------------------------------------------------------------
\* The theorems.

\* The invariant holds in every reachable state.
LEMMA IInvHolds == Spec => []IInv
<1>1. Init => IInv
  <2> SUFFICES ASSUME Init
               PROVE  IInv
    OBVIOUS
  <2> USE FidProxyAssumption DEF Init
  <2>1. TypeOK
    BY DEF TypeOK, EmptyByok, Unused
  <2>2. StoreInv /\ ByokInv
    BY DEF StoreInv, ByokInv, EmptyByok
  <2>3. \A r \in Reqs : PhaseInv(r) /\ AuthInv(r)
    BY DEF PhaseInv, AuthInv, Waiting, Authorised
  <2>4. \A r \in Reqs : MeterInv(r) /\ ProvisionInv(r)
    BY DEF MeterInv, ProvisionInv
  <2>5. QED
    BY <2>1, <2>2, <2>3, <2>4 DEF IInv
<1>2. IInv /\ [Next]_vars => IInv'
  <2> SUFFICES ASSUME IInv, [Next]_vars
               PROVE  IInv'
    OBVIOUS
  <2>1. CASE \E d \in Docs : PushVerify(d) \/ PushStore(d)
    BY <2>1, PushVerifyStep, PushStoreStep
  <2>2. CASE Tick \/ \E s \in Sessions : Attest(s)
    BY <2>2, TickStep, AttestStep
  <2>3. CASE \E r \in Reqs, i \in Inputs : Arrive(r, i)
    BY <2>3, ArriveStep
  <2>4. CASE \E r \in Reqs : Handle(r)
    BY <2>4, ResolveStep, ExchangeReplyStep, FailStep, VerifyTokenStep,
       ListModelsStep, ProvisionStep, OpenStep, PickAccountStep, ResolveKeyStep,
       UpstreamOKStep
    DEF Handle
  <2>5. CASE \E r \in Reqs : MeterEnds(r)
    BY <2>5, MeterEndsStep
  <2>6. CASE Restart
    BY <2>6, RestartStep
  <2>7. CASE UNCHANGED vars
    <3>1. TypeOK' /\ StoreInv'
      BY <2>7 DEF vars, storeVars, reqVars, IInv, TypeOK, StoreInv
    <3>2. QED
      BY <2>7, <3>1, StoreStep DEF vars, storeVars
  <2>8. QED
    BY <2>1, <2>2, <2>3, <2>4, <2>5, <2>6, <2>7 DEF Next
<1>3. QED
  BY <1>1, <1>2, PTL DEF Spec

\* Type correctness of the data plane.
THEOREM ProxyTypeCorrect == Spec => []TypeOK
<1>1. IInv => TypeOK
  BY DEF IInv
<1>2. QED
  BY <1>1, IInvHolds, PTL

\* A provisioned upstream key is spent only under the control plane that
\* authorised provisioning it.
THEOREM ProxyIsolatesKeys == Spec => []KeyIsolation
<1>1. IInv => KeyIsolation
  BY DEF IInv, AuthInv, KeyIsolation
<1>2. QED
  BY <1>1, IInvHolds, PTL

\* A gateway key is posted only to an adapter that an operator of the relay id
\* counter-signed.
THEOREM ProxyKeepsGatewayKeys == Spec => []GatewayKeyOnlyToNamedAdapter
<1>1. IInv => GatewayKeyOnlyToNamedAdapter
  BY DEF IInv, AuthInv, GatewayKeyOnlyToNamedAdapter
<1>2. QED
  BY <1>1, IInvHolds, PTL

\* Requests under a relay id are authorised by an operator of that id alone.
THEOREM ProxyServesByOperator == Spec => []RelayServedByItsOperator
<1>1. IInv => RelayServedByItsOperator
  <2> SUFFICES ASSUME IInv, NEW r \in Reqs, in[r].relay # None,
                      pc[r] \in Authorised \/ status[r] = 200
               PROVE  Agreed(in[r].relay, tok[r].cp, None)
    BY DEF RelayServedByItsOperator, Authorised
  <2>1. signer[r] # None /\ tok[r].cp = signer[r]
    BY FidProxyAssumption DEF IInv, AuthInv
  <2>2. pc[r] \in Waiting \cup {"done"}
    BY DEF IInv, PhaseInv, Authorised, Waiting
  <2>3. QED
    BY <2>1, <2>2 DEF IInv, AuthInv
<1>2. QED
  BY <1>1, IInvHolds, PTL

\* When every operator runs the one adapter its documents name, and that mints
\* under the operator's key, no request mixes two operators' authority: the
\* token came from the adapter the key was posted to, and verified under the
\* signer that was pinned before.
THEOREM ProxyNeverMixesAuthority ==
    ASSUME \A d \in Docs : Dels!Consented(d) => AdapterCp[d.adapter] = d.partner
    PROVE  Spec => []NoMixedAuthority
<1>1. IInv => NoMixedAuthority
  <2> SUFFICES ASSUME IInv, NEW r \in Reqs, in[r].relay # None,
                      target[r] # None,
                      pc[r] \in Authorised \/ status[r] = 200
               PROVE  Agreed(in[r].relay, signer[r], target[r])
    BY DEF NoMixedAuthority, Authorised
  <2>1. signer[r] = AdapterCp[target[r]]
    BY DEF IInv, AuthInv
  <2>2. target[r] \in Adapters
    BY DEF IInv, TypeOK
  <2>3. PICK d \in Docs : /\ d.relay = in[r].relay /\ Dels!Consented(d)
                          /\ d.adapter = target[r]
    BY <2>2, FidProxyAssumption DEF IInv, AuthInv, Agreed, Dels!Consented
  <2>4. d.partner = signer[r]
    BY <2>1, <2>3
  <2>5. QED
    BY <2>3, <2>4 DEF Agreed, Dels!Consented
<1>2. QED
  BY <1>1, IInvHolds, PTL

\* No key that was sealed to an earlier boot is held or spent.
THEOREM ProxyForgetsOldBoots == Spec => []KeysOfThisBoot
<1>1. IInv => KeysOfThisBoot
  BY DEF IInv, ByokInv, AuthInv, KeysOfThisBoot
<1>2. QED
  BY <1>1, IInvHolds, PTL

\* Exactly the requests that were served are metered.
THEOREM ProxyMetersWhatItServes == Spec => []MeteredIffServed
<1>1. IInv => MeteredIffServed
  BY DEF IInv, MeterInv, MeteredIffServed
<1>2. QED
  BY <1>1, IInvHolds, PTL

\* A key that /byok accepted is found, unless an empty one replaced it: the
\* handler reads under the very key the provisioner's claims verified under.
THEOREM ProxyFindsProvisionedKeys == Spec => ProvisionedKeyIsFound
<1> DEFINE Found ==
      \A r \in Reqs :
        /\ pc[r] = "picked" /\ pc'[r] = "done" /\ acct[r] \notin Gated
        /\ \E q \in Reqs : Provisioned(q, tok[r].cp, acct[r]) /\ ~in[q].blank
        => \E q \in Reqs : Provisioned(q, tok[r].cp, acct[r]) /\ in[q].blank
<1>1. IInv /\ [Next]_vars => [Found]_vars
  <2> SUFFICES ASSUME IInv, [Next]_vars, NEW r \in Reqs,
                      pc[r] = "picked", pc'[r] = "done", acct[r] \notin Gated,
                      NEW q \in Reqs, Provisioned(q, tok[r].cp, acct[r])
               PROVE  \E p \in Reqs :
                         Provisioned(p, tok[r].cp, acct[r]) /\ in[p].blank
    OBVIOUS
  <2>1. tok[r].cp = signer[r]
    BY DEF IInv, AuthInv, Authorised
  <2>2. ResolveKey(r)
    BY DEF IInv, TypeOK, Next, vars, reqVars, storeVars, Restart, Handle,
       PushVerify, PushStore, Tick, Attest, Arrive, Resolve, ExchangeReply,
       ExchangeFail, VerifyToken, ListModels, Provision, OpenSession,
       DecodeChat, PickAccount, ResolveKey, UpstreamOK, UpstreamFail,
       MeterEnds, Advance, Answer
  <2>3. ResolvedKey(acct[r], signer[r]) = None
    BY <2>2 DEF IInv, TypeOK, ResolveKey, Advance
  <2>4. byok[tok[r].cp][acct[r]] = None
    BY <2>1, <2>3, FidProxyAssumption DEF ResolvedKey
  <2>5. QED
    BY <2>4 DEF IInv, ProvisionInv, Provisioned
<1>2. QED
  BY <1>1, IInvHolds, PTL DEF Spec, ProvisionedKeyIsFound

-----------------------------------------------------------------------------
\* The counters: a second invariant, beside IInv.

Unplaced == {"idle", "resolve", "exchange", "verify", "authed", "opened"}

\* Each counter is the size of what was asked of its account, and a handler
\* that has not come to Pick is placed nowhere.
ChargeInv ==
    /\ \A a \in Accounts :
          IsFiniteSet(AskedOf(a)) /\ used[a] = Cardinality(AskedOf(a))
    /\ \A r \in Reqs : pc[r] \in Unplaced => acct[r] = None

\* What was asked of an account changes only when a request is placed, or one
\* that is placed changes.
LEMMA AskedOfKept ==
    ASSUME UNCHANGED acct,
           \A r \in Reqs : acct[r] # None => in'[r] = in[r]
    PROVE  \A a \in Accounts : AskedOf(a)' = AskedOf(a)
<1>1. None \notin Accounts
  BY FidProxyAssumption
<1>2. QED
  BY <1>1 DEF AskedOf

\* A request that is placed adds its own tokens, and no others.
LEMMA PlacementAdds ==
    ASSUME TypeOK, NEW r \in Reqs, NEW a \in Accounts, acct[r] = None,
           UNCHANGED in, acct' = [acct EXCEPT ![r] = a],
           in[r].need \in Nat, IsFiniteSet(AskedOf(a))
    PROVE  /\ IsFiniteSet(AskedOf(a))'
           /\ Cardinality(AskedOf(a))' = Cardinality(AskedOf(a)) + in[r].need
           /\ \A b \in Accounts \ {a} : AskedOf(b)' = AskedOf(b)
<1> DEFINE own == {r} \X (1..in[r].need)
<1>1. None \notin Accounts /\ acct \in [Reqs -> Accounts \cup {None}]
  BY FidProxyAssumption DEF TypeOK
<1>2. \A q \in Reqs : acct'[q] = IF q = r THEN a ELSE acct[q]
  BY <1>1
<1>3. AskedOf(a)' = AskedOf(a) \cup own
  BY <1>1, <1>2 DEF AskedOf
<1>4. AskedOf(a) \cap own = {}
  BY <1>1 DEF AskedOf
<1>5. IsFiniteSet(own) /\ Cardinality(own) = in[r].need
  <2>1. IsFiniteSet({r}) /\ Cardinality({r}) = 1
    BY FS_Singleton
  <2> DEFINE n == in[r].need
  <2>2. /\ IsFiniteSet(1..n)
        /\ Cardinality(1..n) = IF 1 > n THEN 0 ELSE n - 1 + 1
    <3>1. 1 \in Int /\ n \in Int
      OBVIOUS
    <3> HIDE DEF n
    <3>2. QED
      BY ONLY <3>1, FS_Interval
  <2> HIDE DEF n
  <2>3. Cardinality(1..n) = n
    BY <2>2 DEF n
  <2>4. /\ IsFiniteSet({r} \X (1..n))
        /\ Cardinality({r} \X (1..n)) = Cardinality({r}) * Cardinality(1..n)
    BY ONLY <2>1, <2>2, FS_Product
  <2>5. QED
    BY <2>1, <2>3, <2>4 DEF n
<1> HIDE DEF own
<1>6. /\ IsFiniteSet(AskedOf(a) \cup own)
      /\ Cardinality(AskedOf(a) \cup own)
            = Cardinality(AskedOf(a)) + Cardinality(own)
  <2>1. Cardinality(AskedOf(a)) \in Nat /\ Cardinality(own) \in Nat
    BY <1>5, FS_CardinalityType
  <2>2. /\ IsFiniteSet(AskedOf(a) \cup own)
        /\ Cardinality(AskedOf(a) \cup own)
              = Cardinality(AskedOf(a)) + Cardinality(own)
                  - Cardinality(AskedOf(a) \cap own)
    BY <1>5, FS_Union
  <2>3. Cardinality(AskedOf(a) \cap own) = 0
    BY <1>4, FS_EmptySet
  <2>4. QED
    BY <2>1, <2>2, <2>3
<1>7. \A b \in Accounts \ {a} : AskedOf(b)' = AskedOf(b)
  BY <1>1, <1>2 DEF AskedOf
<1>8. QED
  BY <1>3, <1>5, <1>6, <1>7

\* A step that places nothing keeps every charge.
LEMMA ChargesKept ==
    ASSUME ChargeInv, UNCHANGED <<used, acct>>,
           \A r \in Reqs : acct[r] # None => in'[r] = in[r],
           \A r \in Reqs : pc'[r] \in Unplaced => pc[r] \in Unplaced
    PROVE  ChargeInv'
BY AskedOfKept DEF ChargeInv

\* Pick charges exactly the account it returns, with what was asked.
LEMMA PickAccountCharges ==
    ASSUME IInv, ChargeInv, NEW r \in Reqs, PickAccount(r)
    PROVE  ChargeInv'
<1> DEFINE need == in[r].need
           a == Choice(used, tok[r].pool, in[r].fp, need)
<1>0. /\ in[r].fp \in Fps /\ need \in Needs /\ need \in Nat
      /\ tok[r].pool \in Pools /\ acct[r] = None /\ pc[r] = "opened"
      /\ TypeOK /\ UNCHANGED in
  BY InputFields, TokenFields, RoutingAssumption
  DEF IInv, PhaseInv, ChargeInv, PickAccount, Waiting, Authorised, Unplaced
<1>1. CASE UNCHANGED <<acct, used>>
  <2>1. \A q \in Reqs : pc'[q] \in Unplaced => pc[q] \in Unplaced
    BY <1>1 DEF IInv, TypeOK, PickAccount, Answer, Advance, Unplaced
  <2>2. QED
    BY <1>1, <2>1, ChargesKept DEF PickAccount
<1>2. CASE /\ Members[tok[r].pool] # {} /\ Advance(r, "picked")
           /\ acct' = [acct EXCEPT ![r] = a]
           /\ used' = Charged(used, a, need)
  <2>1. a \in Accounts
    BY <1>0, <1>2, ChoiceIsSound DEF IInv, TypeOK
  <2> HIDE DEF a, need
  <2>2. PICK x \in Accounts : /\ acct' = [acct EXCEPT ![r] = x]
                             /\ used' = [used EXCEPT ![x] = @ + need]
    BY <1>2, <2>1 DEF Charged
  <2>3. /\ IsFiniteSet(AskedOf(x))'
        /\ Cardinality(AskedOf(x))' = Cardinality(AskedOf(x)) + need
        /\ \A b \in Accounts \ {x} : AskedOf(b)' = AskedOf(b)
    <3>1. IsFiniteSet(AskedOf(x))
      BY DEF ChargeInv
    <3>2. QED
      BY <1>0, <2>2, <3>1, PlacementAdds DEF need
  <2>4. \A b \in Accounts :
           IsFiniteSet(AskedOf(b))' /\ used'[b] = Cardinality(AskedOf(b))'
    BY <2>2, <2>3 DEF IInv, TypeOK, ChargeInv
  <2>5. \A q \in Reqs : pc'[q] \in Unplaced => acct'[q] = None
    BY <1>2, <2>2 DEF IInv, TypeOK, ChargeInv, Advance, Unplaced
  <2>6. QED
    BY <2>4, <2>5 DEF ChargeInv
<1>3. QED
  BY <1>1, <1>2 DEF PickAccount

\* The counters start at zero again with the requests they count.
LEMMA NothingCharged ==
    ASSUME acct' = [r \in Reqs |-> None], used' = [a \in Accounts |-> 0]
    PROVE  ChargeInv'
<1>1. \A a \in Accounts : AskedOf(a)' = {}
  BY FidProxyAssumption DEF AskedOf
<1>2. QED
  BY <1>1, FS_EmptySet DEF ChargeInv

\* The counters' invariant holds in every reachable state.
LEMMA ChargeInvHolds == Spec => []ChargeInv
<1>1. Init => ChargeInv
  <2> SUFFICES ASSUME Init
               PROVE  ChargeInv
    OBVIOUS
  <2>1. \A a \in Accounts : AskedOf(a) = {}
    BY FidProxyAssumption DEF Init, AskedOf
  <2>2. QED
    BY <2>1, FS_EmptySet DEF Init, ChargeInv
<1>2. IInv /\ ChargeInv /\ [Next]_vars => ChargeInv'
  <2> SUFFICES ASSUME IInv, ChargeInv, [Next]_vars
               PROVE  ChargeInv'
    OBVIOUS
  <2>1. CASE UNCHANGED <<used, reqVars>>
    BY <2>1, ChargesKept DEF reqVars
  <2>2. ASSUME NEW r \in Reqs, NEW i \in Inputs, Arrive(r, i)
        PROVE  ChargeInv'
    <3>1. pc[r] = "idle" /\ acct[r] = None
      BY <2>2 DEF Arrive, ChargeInv, Unplaced
    <3>2. \A q \in Reqs : acct[q] # None => in'[q] = in[q]
      BY <2>2, <3>1 DEF Arrive, IInv, TypeOK
    <3>3. \A q \in Reqs : pc'[q] \in Unplaced => pc[q] \in Unplaced
      BY <2>2, <3>1 DEF Arrive, IInv, TypeOK, Advance, Answer, Unplaced
    <3>4. QED
      BY <2>2, <3>2, <3>3, ChargesKept DEF Arrive, storeVars
  <2>3. ASSUME NEW r \in Reqs, Handle(r) \/ MeterEnds(r), ~ PickAccount(r)
        PROVE  ChargeInv'
    <3> USE <2>3 DEF Handle, Resolve, ExchangeReply, ExchangeFail, VerifyToken,
              ListModels, Provision, OpenSession, DecodeChat, ResolveKey,
              UpstreamOK, UpstreamFail, MeterEnds, storeVars
    <3>1. UNCHANGED <<used, acct, in>>
      OBVIOUS
    <3>2. \A q \in Reqs : pc'[q] \in Unplaced => pc[q] \in Unplaced
      BY DEF IInv, TypeOK, Advance, Answer, Unplaced
    <3>3. QED
      BY <3>1, <3>2, ChargesKept
  <2>4. ASSUME NEW r \in Reqs, PickAccount(r)
        PROVE  ChargeInv'
    BY <2>4, PickAccountCharges
  <2>5. CASE Restart
    BY <2>5, NothingCharged DEF Restart
  <2>6. QED
    BY <2>1, <2>2, <2>3, <2>4, <2>5
    DEF vars, Next, storeVars, PushVerify, PushStore, Tick, Attest
<1>3. QED
  BY <1>1, <1>2, IInvHolds, PTL DEF Spec

\* No charge is lost or made twice, however picks interleave, and a restart
\* starts the counts again together with the requests.
THEOREM ProxyChargesEveryPlacement == Spec => []EveryPlacementCharged
<1>1. ChargeInv => EveryPlacementCharged
  BY DEF ChargeInv, EveryPlacementCharged
<1>2. QED
  BY <1>1, ChargeInvHolds, PTL

\* A counter goes up only when a handler is placed, and past its account's
\* budget only when the whole pool of that handler's token is full for it.
PoolFilledFirst ==
    \A a \in Accounts : used'[a] > used[a] =>
        \E r \in Reqs :
            /\ pc[r] = "opened" /\ acct'[r] = a
            /\ a \in Members[tok[r].pool]
            /\ Budget[a] > 0 /\ used'[a] > Budget[a] =>
                  \A b \in Members[tok[r].pool] : ~Fits(used, b, in[r].need)

\* However handlers interleave, budgets are overdrawn by saturated pools alone.
THEOREM ProxyFillsPoolsFirst == Spec => [][PoolFilledFirst]_vars
<1>1. IInv /\ [Next]_vars => [PoolFilledFirst]_vars
  <2> SUFFICES ASSUME IInv, Next
               PROVE  PoolFilledFirst
    OBVIOUS
  <2>0. \A a \in Accounts : used[a] \in Nat
    BY DEF IInv, TypeOK
  <2>1. CASE UNCHANGED used
    BY <2>0, <2>1 DEF PoolFilledFirst
  <2>2. ASSUME NEW r \in Reqs, PickAccount(r), used' # used
        PROVE  PoolFilledFirst
    <3> DEFINE i == in[r]
               pool == tok[r].pool
               x == Choice(used, pool, i.fp, i.need)
    <3>1. /\ i.fp \in Fps /\ i.need \in Needs /\ i.need \in Nat
          /\ pool \in Pools /\ pc[r] = "opened"
      BY <2>2, InputFields, TokenFields, RoutingAssumption
      DEF IInv, PhaseInv, PickAccount, Waiting, Authorised
    <3>2. /\ Members[pool] # {}
          /\ acct' = [acct EXCEPT ![r] = x]
          /\ used' = [used EXCEPT ![x] = @ + i.need]
      BY <2>2 DEF PickAccount, Charged
    <3>3. /\ x \in Members[pool] /\ x \in Accounts
          /\ Fits(used, x, i.need) \/ Fitting(used, pool, i.need) = {}
      BY <3>1, <3>2, ChoiceIsSound DEF IInv, TypeOK
    <3>4. acct'[r] = x
      BY <3>2 DEF IInv, TypeOK
    <3> HIDE DEF x, i, pool
    <3>5. /\ used'[x] = used[x] + i.need
          /\ \A a \in Accounts \ {x} : used'[a] = used[a]
      BY <3>2, <3>3 DEF IInv, TypeOK
    <3>6. Budget[x] > 0 /\ used'[x] > Budget[x] =>
             \A b \in Members[pool] : ~Fits(used, b, i.need)
      <4>1. used[x] \in Nat /\ Budget[x] \in Nat
        BY <2>0, <3>3, RoutingAssumption
      <4>2. QED
        BY <3>1, <3>3, <3>5, <4>1 DEF Fits, Fitting
    <3>7. QED
      BY <2>0, <3>1, <3>3, <3>4, <3>5, <3>6 DEF PoolFilledFirst, i, pool
  <2>3. CASE Restart
    BY <2>0, <2>3 DEF Restart, PoolFilledFirst
  <2>4. QED
    BY <2>1, <2>2, <2>3
    DEF Next, Handle, PushVerify, PushStore, Tick, Attest, Arrive, Resolve,
       ExchangeReply, ExchangeFail, VerifyToken, ListModels, Provision,
       OpenSession, DecodeChat, ResolveKey, UpstreamOK, UpstreamFail,
       MeterEnds, storeVars
<1>2. QED
  BY <1>1, IInvHolds, PTL DEF Spec

\* A provisioned key is spent for a request under a relay id only when its
\* owner is an operator whom the root enrolled for that id and who agreed.
SpentByAgreement ==
    \A r \in Reqs : upKey[r] \in SealedKey /\ in[r].relay # None =>
        Agreed(in[r].relay, upKey[r].owner, None)

\* From the documents to the keys: nobody's upstream key pays for a relay id
\* its owner did not counter-sign for, whatever was pushed, provisioned and
\* restarted in between.
THEOREM ProxySpendsByAgreement == Spec => []SpentByAgreement
<1>1. IInv => SpentByAgreement
  <2> SUFFICES ASSUME IInv, NEW r \in Reqs, upKey[r] \in SealedKey,
                      in[r].relay # None
               PROVE  Agreed(in[r].relay, upKey[r].owner, None)
    BY DEF SpentByAgreement
  <2>1. upKey[r] # None
    BY FidProxyAssumption
  <2>2. upKey[r].owner = signer[r] /\ signer[r] # None
    BY <2>1, FidProxyAssumption DEF IInv, AuthInv
  <2>3. pc[r] \in Waiting \cup {"done"}
    BY <2>1 DEF IInv, PhaseInv, Waiting
  <2>4. QED
    BY <2>2, <2>3 DEF IInv, AuthInv
<1>2. QED
  BY <1>1, IInvHolds, PTL
=============================================================================
