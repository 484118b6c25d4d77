------------------------- MODULE FidProxyRefinement --------------------------
(***************************************************************************)
(* The data plane implements the specifications of its parts, for any      *)
(* number of handlers, operators, accounts and restarts: the vault that    *)
(* OperatorVault promises each operator, and the Delegation store.         *)
(***************************************************************************)
EXTENDS FidProxyProofs

-----------------------------------------------------------------------------
\* The vault.

\* Beside IInv and ChargeInv: a call goes upstream with a key.
ForwardInv == \A r \in Reqs : pc[r] = "forward" => upKey[r] # None

\* A handler comes to the upstream call through resolveKey alone.
LEMMA ForwardInvHolds == Spec => []ForwardInv
<1>1. Init => ForwardInv
  BY DEF Init, ForwardInv
<1>2. IInv /\ ForwardInv /\ [Next]_vars => ForwardInv'
  <2> SUFFICES ASSUME IInv, ForwardInv, [Next]_vars,
                      NEW r \in Reqs, pc'[r] = "forward"
               PROVE  upKey'[r] # None
    BY DEF ForwardInv
  <2>1. CASE UNCHANGED reqVars
    BY <2>1 DEF ForwardInv, reqVars
  <2>2. ASSUME NEW q \in Reqs, ResolveKey(q)
        PROVE  upKey'[r] # None
    <3>1. CASE q = r
      BY <2>2, <3>1 DEF IInv, TypeOK, ResolveKey, Answer, Advance
    <3>2. CASE q # r
      BY <2>2, <3>2 DEF IInv, TypeOK, ForwardInv, ResolveKey, Answer, Advance
    <3>3. QED
      BY <3>1, <3>2
  <2>3. ASSUME NEW q \in Reqs, ~ ResolveKey(q),
               Handle(q) \/ MeterEnds(q) \/ \E i \in Inputs : Arrive(q, i)
        PROVE  upKey'[r] # None
    BY <2>3
    DEF IInv, TypeOK, ForwardInv, Handle, Arrive, Resolve, ExchangeReply,
        ExchangeFail, VerifyToken, ListModels, Provision, OpenSession,
        DecodeChat, PickAccount, UpstreamOK, UpstreamFail, MeterEnds,
        Answer, Advance
  <2>4. CASE Restart
    BY <2>4 DEF Restart
  <2>5. QED
    BY <2>1, <2>2, <2>3, <2>4
    DEF Next, vars, Handle, PushVerify, PushStore, Tick, Attest
<1>3. QED
  BY <1>1, <1>2, IInvHolds, PTL DEF Spec

\* What the refinement rests on.
RInv == IInv /\ ChargeInv /\ ForwardInv

\* A request that has not come to resolveKey, and one that was refused before,
\* has been told nothing.
LEMMA ToldNothingYet ==
    ASSUME RInv, NEW r \in Reqs, pc[r] \notin {"forward", "done"}
    PROVE  VaultReply(r) = None
BY FidProxyAssumption DEF RInv, IInv, PhaseInv, VaultReply, FoundNoKey

\* What a request was told depends on its own variables alone.
LEMMA ReplyKept ==
    ASSUME NEW r \in Reqs, in'[r] = in[r], tok'[r] = tok[r],
           acct'[r] = acct[r], upKey'[r] = upKey[r], status'[r] = status[r]
    PROVE  VaultReply(r)' = VaultReply(r)
BY DEF VaultReply, FoundNoKey, Filed, Sealed

\* A step in which nobody is told anything, and no key is put in, is a stutter
\* of the vault.
LEMMA VaultStutters ==
    ASSUME UNCHANGED <<boot, byok>>,
           \A q \in Reqs : VaultReply(q)' = VaultReply(q)
    PROVE  UNCHANGED Vault!vars
BY DEF Vault!vars

\* A handler's step changes what its own request was told, and nobody else's.
LEMMA OthersTold ==
    ASSUME RInv, NEW r \in Reqs, Handle(r) \/ MeterEnds(r)
    PROVE  \A q \in Reqs \ {r} : VaultReply(q)' = VaultReply(q)
<1> SUFFICES ASSUME NEW q \in Reqs \ {r}
             PROVE  VaultReply(q)' = VaultReply(q)
  OBVIOUS
<1>1. /\ in'[q] = in[q] /\ tok'[q] = tok[q] /\ acct'[q] = acct[q]
      /\ upKey'[q] = upKey[q] /\ status'[q] = status[q]
  BY DEF RInv, IInv, TypeOK, Handle, Resolve, ExchangeReply, ExchangeFail,
     VerifyToken, ListModels, Provision, OpenSession, DecodeChat, PickAccount,
     ResolveKey, UpstreamOK, UpstreamFail, MeterEnds, Answer, Advance
<1>2. QED
  BY <1>1, ReplyKept

\* Every step of a handler but the lookup and the filing of a key tells its
\* request nothing about provisioned keys.
LEMMA QuietSteps ==
    ASSUME RInv, NEW r \in Reqs,
           \/ \E i \in Inputs : Arrive(r, i)
           \/ Resolve(r) \/ (\E t \in Tokens : ExchangeReply(r, t))
           \/ ExchangeFail(r) \/ VerifyToken(r) \/ ListModels(r)
           \/ OpenSession(r) \/ DecodeChat(r) \/ PickAccount(r)
           \/ UpstreamOK(r) \/ UpstreamFail(r) \/ MeterEnds(r)
    PROVE  VaultReply(r)' = VaultReply(r)
<1> USE FidProxyAssumption
        DEF RInv, IInv, TypeOK, Waiting, Answer, Advance
<1>1. CASE \E i \in Inputs : Arrive(r, i)
  <2>1. VaultReply(r) = None
    BY <1>1, ToldNothingYet DEF Arrive
  <2>2. upKey'[r] = None /\ status'[r] \in {0, 401}
    BY <1>1 DEF Arrive, PhaseInv
  <2>3. QED
    BY <2>1, <2>2 DEF VaultReply, FoundNoKey
<1>2. CASE \/ Resolve(r) \/ (\E t \in Tokens : ExchangeReply(r, t))
           \/ ExchangeFail(r) \/ VerifyToken(r) \/ OpenSession(r)
           \/ DecodeChat(r)
  <2>1. pc[r] \notin {"forward", "done"}
    BY <1>2 DEF Resolve, ExchangeReply, ExchangeFail, VerifyToken, OpenSession,
                DecodeChat
  <2>2. upKey'[r] = None /\ status'[r] \in {0, 400, 401}
    BY <1>2, <2>1 DEF PhaseInv, Resolve, ExchangeReply, ExchangeFail,
                      VerifyToken, OpenSession, DecodeChat
  <2>3. QED
    BY <2>1, <2>2, ToldNothingYet DEF VaultReply, FoundNoKey
<1>3. CASE ListModels(r)
  <2>1. VaultReply(r) = None /\ upKey'[r] = None
        /\ status'[r] = 200 /\ in'[r].kind = "models"
    BY <1>3, ToldNothingYet DEF ListModels, PhaseInv
  <2>2. QED
    BY <2>1 DEF VaultReply, FoundNoKey
<1>4. CASE PickAccount(r)
  <2>1. VaultReply(r) = None /\ upKey'[r] = None
    BY <1>4, ToldNothingYet DEF PickAccount, PhaseInv
  <2>2. \/ status'[r] \in {0, 403}
        \/ status'[r] = 502 /\ acct'[r] = None
    BY <1>4 DEF PickAccount, PhaseInv, ChargeInv, Unplaced
  <2>3. QED
    BY <2>1, <2>2 DEF VaultReply, FoundNoKey
<1>5. CASE UpstreamOK(r) \/ UpstreamFail(r)
  <2>1. /\ pc[r] = "forward" /\ status[r] = 0 /\ upKey[r] # None
        /\ in[r].kind \in {"infer", "chat"} /\ status'[r] \in {200, 502}
        /\ UNCHANGED <<in, tok, acct, upKey>>
    BY <1>5 DEF UpstreamOK, UpstreamFail, PhaseInv, ForwardInv
  <2>2. QED
    BY <2>1 DEF VaultReply, FoundNoKey
<1>6. CASE MeterEnds(r)
  BY <1>6, ReplyKept DEF MeterEnds
<1>7. QED
  BY <1>1, <1>2, <1>3, <1>4, <1>5, <1>6

\* resolveKey looks into the vault of the operator whose token the request
\* carries, or does not look into a vault.
LEMMA ResolveKeyFinds ==
    ASSUME RInv, NEW r \in Reqs, ResolveKey(r)
    PROVE  Vault!Find(r) \/ UNCHANGED Vault!vars
<1> DEFINE a == acct[r]
           k == tok[r].cp
           R == [q \in Reqs |-> VaultReply(q)]
<1>1. /\ pc[r] = "picked" /\ a \in Accounts /\ k \in CpKeys /\ k = signer[r]
      /\ status[r] = 0 /\ upKey[r] = None /\ in[r].kind \in {"infer", "chat"}
      /\ UNCHANGED <<boot, byok, in, tok, acct>>
  BY DEF RInv, IInv, TypeOK, PhaseInv, AuthInv, Authorised, Waiting, ResolveKey,
         storeVars
<1>2. /\ VaultReply(r) = None
      /\ \A q \in Reqs \ {r} : VaultReply(q)' = VaultReply(q)
  BY <1>1, ToldNothingYet, OthersTold DEF Handle
<1>3. CASE a \notin RuntimeKeyed \/ a \in Gated
  <2>1. upKey'[r] \in {None, PoolKey} /\ status'[r] \in {0, 502}
        /\ (status'[r] = 502 => a \notin RuntimeKeyed \ Gated)
    BY <1>1, <1>3, FidProxyAssumption
    DEF RInv, IInv, TypeOK, ResolveKey, ResolvedKey, Answer, Advance
  <2>2. VaultReply(r)' = None
    BY <1>1, <2>1, FidProxyAssumption DEF VaultReply, FoundNoKey
  <2>3. QED
    BY <1>1, <1>2, <2>2, VaultStutters
<1>4. CASE a \in RuntimeKeyed \ Gated
  <2> DEFINE told == [op |-> "find", by |-> k, account |-> a,
                     key |-> byok[k][a]]
  <2>1. byok[k][a] \in SealedKey \cup {None}
    BY <1>1 DEF RInv, IInv, TypeOK
  <2>2. VaultReply(r)' = told
    <3>1. CASE byok[k][a] = None
      <4>1. upKey'[r] = None /\ status'[r] = 502
        BY <1>1, <1>4, <3>1
        DEF RInv, IInv, TypeOK, ResolveKey, ResolvedKey, Answer, Advance
      <4>2. QED
        BY <1>1, <1>4, <3>1, <4>1, FidProxyAssumption DEF VaultReply, FoundNoKey
    <3>2. CASE byok[k][a] # None
      <4>1. upKey'[r] = byok[k][a]
        BY <1>1, <1>4, <3>2
        DEF RInv, IInv, TypeOK, ResolveKey, ResolvedKey, Answer, Advance
      <4>2. QED
        BY <1>1, <2>1, <3>2, <4>1 DEF VaultReply
    <3>3. QED
      BY <3>1, <3>2
  <2>3. told \in Vault!Reply
    BY <1>1, <2>1 DEF Vault!Reply, Vault!Key, SealedKey
  <2>4. R[r] = None /\ R'[r] = told /\ R' = [R EXCEPT ![r] = R'[r]]
    BY <1>2, <2>2
  <2>5. Vault!Find(r)
    BY <1>1, <2>3, <2>4 DEF Vault!Find, Vault!Answer
  <2>6. QED
    BY <2>5
<1>5. QED
  BY <1>3, <1>4

\* /byok files a key in the vault of the operator whose token the request
\* carries, or refuses it.
LEMMA ProvisionPuts ==
    ASSUME RInv, NEW r \in Reqs, Provision(r)
    PROVE  Vault!Put(r) \/ UNCHANGED Vault!vars
<1> DEFINE a == in[r].account
           k == tok[r].cp
           R == [q \in Reqs |-> VaultReply(q)]
<1>1. /\ pc[r] = "authed" /\ in[r] \in Inputs /\ tok[r] \in Tokens
      /\ k \in CpKeys /\ k = signer[r] /\ a \in Accounts
      /\ status[r] = 0 /\ upKey[r] = None /\ in[r].kind = "byok"
      /\ UNCHANGED <<boot, in, tok, acct, upKey>>
  BY InputFields
  DEF RInv, IInv, TypeOK, PhaseInv, AuthInv, Authorised, Waiting, Provision
<1>2. /\ VaultReply(r) = None
      /\ \A q \in Reqs \ {r} : VaultReply(q)' = VaultReply(q)
  BY <1>1, ToldNothingYet, OthersTold DEF Handle
<1>3. CASE ~ Opens(in[r])
  <2>1. status'[r] = 400 /\ UNCHANGED byok
    BY <1>3 DEF RInv, IInv, TypeOK, Provision, Answer
  <2>2. VaultReply(r)' = None
    BY <1>1, <2>1, FidProxyAssumption DEF VaultReply, FoundNoKey
  <2>3. QED
    BY <1>1, <1>2, <2>1, <2>2, VaultStutters
<1>4. CASE Opens(in[r])
  <2> DEFINE told == [op |-> "put", by |-> k, account |-> a, key |-> Filed(r)]
  <2>1. /\ byok' = [byok EXCEPT ![k][a] = Filed(r)]
        /\ status'[r] = 200
    BY <1>1, <1>4 DEF RInv, IInv, TypeOK, Provision, ProvisionUnder, Answer
  <2>2. Filed(r) \in {None, [owner |-> k, boot |-> boot]}
    BY <1>4 DEF Filed, Sealed, Opens
  <2>3. Filed(r)' = Filed(r)
    BY <1>1 DEF Filed, Sealed
  <2>4. VaultReply(r)' = told
    BY <1>1, <2>1, <2>3, FidProxyAssumption DEF VaultReply, FoundNoKey
  <2>5. boot \in Nat
    BY FidProxyAssumption DEF RInv, IInv, TypeOK
  <2> HIDE DEF k, a
  <2>6. told \in Vault!Reply
    BY <1>1, <2>2, <2>5 DEF Vault!Reply, Vault!Key
  <2>7. R[r] = None /\ R'[r] = told /\ R' = [R EXCEPT ![r] = R'[r]]
    BY <1>2, <2>4
  <2>8. Vault!Answer(r)
    BY <1>1, <2>6, <2>7 DEF Vault!Answer
  <2>9. /\ told.op = "put"
        /\ told.key \in {None, [owner |-> told.by, boot |-> boot]}
        /\ byok' = [byok EXCEPT ![told.by][told.account] = told.key]
    BY <2>1, <2>2
  <2> HIDE DEF told
  <2>10. Vault!Put(r)
    BY <2>7, <2>8, <2>9 DEF Vault!Put
  <2>11. QED
    BY <2>10
<1>5. QED
  BY <1>3, <1>4

\* A restart empties the vault and forgets who was told what.
LEMMA RestartEmpties ==
    ASSUME Restart
    PROVE  Vault!Restart
<1>1. \A r \in Reqs : VaultReply(r)' = None
  BY FidProxyAssumption DEF Restart, VaultReply, FoundNoKey
<1>2. QED
  BY <1>1 DEF Restart, EmptyByok, Vault!Restart, Vault!Empty

\* The enclave's store of provisioned keys is, to each operator, a safe of its
\* own: every put and every lookup takes effect at one instant, in the safe of
\* the operator whose token the request carries, whatever else goes on.
THEOREM ProxyKeepsVault == Spec => KeepsVault
<1>1. Init => Vault!Init
  <2> SUFFICES ASSUME Init
               PROVE  Vault!Init
    OBVIOUS
  <2>1. \A r \in Reqs : VaultReply(r) = None
    BY FidProxyAssumption DEF Init, VaultReply, FoundNoKey
  <2>2. QED
    BY <2>1 DEF Init, EmptyByok, Vault!Init, Vault!Empty
<1>2. RInv /\ [Next]_vars => [Vault!Next]_(Vault!vars)
  <2> SUFFICES ASSUME RInv, [Next]_vars
               PROVE  Vault!Next \/ UNCHANGED Vault!vars
    OBVIOUS
  <2>1. CASE UNCHANGED <<boot, byok, reqVars>>
    BY <2>1, ReplyKept, VaultStutters DEF reqVars
  <2>2. ASSUME NEW r \in Reqs, NEW i \in Inputs, Arrive(r, i)
        PROVE  UNCHANGED Vault!vars
    <3>1. \A q \in Reqs \ {r} : VaultReply(q)' = VaultReply(q)
      BY <2>2, ReplyKept DEF RInv, IInv, TypeOK, Arrive, Answer, Advance
    <3>2. VaultReply(r)' = VaultReply(r)
      BY <2>2, QuietSteps
    <3>3. QED
      BY <2>2, <3>1, <3>2, VaultStutters DEF Arrive, storeVars
  <2>3. ASSUME NEW r \in Reqs, Handle(r) \/ MeterEnds(r),
               ~ ResolveKey(r), ~ Provision(r)
        PROVE  UNCHANGED Vault!vars
    <3>1. VaultReply(r)' = VaultReply(r)
      BY <2>3, QuietSteps DEF Handle
    <3>2. UNCHANGED <<boot, byok>>
      BY <2>3 DEF Handle, Resolve, ExchangeReply, ExchangeFail, VerifyToken,
         ListModels, OpenSession, DecodeChat, PickAccount, UpstreamOK,
         UpstreamFail, MeterEnds, storeVars
    <3>3. QED
      BY <2>3, <3>1, <3>2, OthersTold, VaultStutters
  <2>4. ASSUME NEW r \in Reqs, ResolveKey(r) \/ Provision(r)
        PROVE  Vault!Next \/ UNCHANGED Vault!vars
    BY <2>4, ResolveKeyFinds, ProvisionPuts DEF Vault!Next
  <2>5. CASE Restart
    BY <2>5, RestartEmpties DEF Vault!Next
  <2>6. QED
    BY <2>1, <2>2, <2>3, <2>4, <2>5
    DEF vars, Next, storeVars, PushVerify, PushStore, Tick, Attest
<1>3. QED
  BY <1>1, <1>2, IInvHolds, ChargeInvHolds, ForwardInvHolds, PTL
  DEF Spec, RInv, KeepsVault, Vault!Spec

\* What a safe holds was put in by its owner in this boot.
SafeInv ==
    /\ byok \in [CpKeys -> [Accounts -> SealedKey \cup {None}]]
    /\ \A k \in CpKeys, a \in Accounts :
          byok[k][a] \in {None, [owner |-> k, boot |-> boot]}

\* The promise is worth having: whatever keeps it tells a request of no key but
\* those its own operator put in since the last start.
THEOREM VaultIsolates == KeepsVault => []Vault!OwnKeysOnly
<1> DEFINE R == [q \in Reqs |-> VaultReply(q)]
           VInv == SafeInv /\ boot \in Nat /\ Vault!OwnKeysOnly
<1>1. Vault!Init => VInv
  BY FidProxyAssumption
  DEF Vault!Init, Vault!Empty, SafeInv, Vault!OwnKeysOnly
<1>2. VInv /\ [Vault!Next]_(Vault!vars) => VInv'
  <2> SUFFICES ASSUME VInv, [Vault!Next]_(Vault!vars)
               PROVE  VInv'
    OBVIOUS
  <2> USE DEF Vault!OwnKeysOnly
  <2>1. ASSUME NEW r \in Reqs, Vault!Answer(r),
               R'[r].key \in {None, [owner |-> R'[r].by, boot |-> boot]}
        PROVE  (Vault!OwnKeysOnly)'
    <3>1. boot' = boot /\ \A q \in Reqs \ {r} : R'[q] = R[q]
      BY <2>1 DEF Vault!Answer
    <3>2. QED
      BY <2>1, <3>1
  <2>2. ASSUME NEW r \in Reqs, Vault!Put(r)
        PROVE  VInv'
    <3> DEFINE told == R'[r]
    <3>1. /\ Vault!Answer(r) /\ UNCHANGED boot
          /\ told.by \in CpKeys /\ told.account \in Accounts
          /\ told.key \in {None, [owner |-> told.by, boot |-> boot]}
          /\ byok' = [byok EXCEPT ![told.by][told.account] = told.key]
      BY <2>2 DEF Vault!Put, Vault!Answer, Vault!Reply
    <3>2. (Vault!OwnKeysOnly)'
      BY <2>1, <3>1
    <3> HIDE DEF told
    <3>3. SafeInv'
      BY <3>1 DEF SafeInv, SealedKey
    <3>4. QED
      BY <3>1, <3>2, <3>3
  <2>3. ASSUME NEW r \in Reqs, Vault!Find(r)
        PROVE  VInv'
    <3> DEFINE told == R'[r]
    <3>1. /\ Vault!Answer(r) /\ UNCHANGED <<boot, byok>>
          /\ told.by \in CpKeys /\ told.account \in Accounts
          /\ told.key = byok[told.by][told.account]
      BY <2>3 DEF Vault!Find, Vault!Answer, Vault!Reply
    <3>2. told.key \in {None, [owner |-> told.by, boot |-> boot]}
      <4> HIDE DEF told
      <4> QED
        BY <3>1 DEF SafeInv
    <3>3. (Vault!OwnKeysOnly)'
      BY <2>1, <3>1, <3>2
    <3>4. SafeInv'
      BY <3>1 DEF SafeInv
    <3>5. QED
      BY <3>1, <3>3, <3>4
  <2>4. CASE Vault!Restart
    BY <2>4, FidProxyAssumption DEF Vault!Restart, Vault!Empty, SafeInv
  <2>5. CASE UNCHANGED Vault!vars
    <3>1. UNCHANGED <<boot, byok, R>>
      BY <2>5 DEF Vault!vars
    <3>2. QED
      BY <3>1 DEF SafeInv
  <2>6. QED
    BY <2>2, <2>3, <2>4, <2>5 DEF Vault!Next
<1>3. QED
  BY <1>1, <1>2, PTL DEF KeepsVault, Vault!Spec

\* So no request of the data plane is ever told of another operator's key, nor
\* of one from before the last start.
THEOREM ProxyTellsOwnKeysOnly == Spec => []Vault!OwnKeysOnly
<1>1. QED
  BY ProxyKeepsVault, VaultIsolates, PTL

-----------------------------------------------------------------------------
\* The delegation store.

\* A step of the data plane is a step of the store, or leaves it alone.
LEMMA StoreSteps == [Next]_vars => [Dels!Next]_(Dels!vars)
<1> SUFFICES ASSUME [Next]_vars
             PROVE  Dels!Next \/ UNCHANGED Dels!vars
  OBVIOUS
<1>1. CASE UNCHANGED <<now, dels, pending>>
  BY <1>1 DEF Dels!vars
<1>2. ASSUME NEW r \in Reqs,
             Handle(r) \/ MeterEnds(r) \/ \E i \in Inputs : Arrive(r, i)
      PROVE  UNCHANGED <<now, dels, pending>>
  BY <1>2
  DEF Handle, Arrive, Resolve, ExchangeReply, ExchangeFail, VerifyToken,
     ListModels, Provision, OpenSession, DecodeChat, PickAccount, ResolveKey,
     UpstreamOK, UpstreamFail, MeterEnds, storeVars
<1>3. QED
  BY <1>1, <1>2 DEF Next, vars, storeVars, PushVerify, PushStore, Tick, Attest,
     Restart, Dels!Next

\* Among handlers, sessions and restarts the enclave treats its delegations as
\* the store's own specification says, so what holds of the store alone holds
\* of the store in use.
THEOREM ProxyUsesStore == Spec => Dels!Spec
<1>1. Init => Dels!Init
  BY DEF Init, Dels!Init
<1>2. QED
  BY <1>1, StoreSteps, PTL DEF Spec, Dels!Spec

\* What the data plane reads under a relay id was issued for it, agreed to by
\* the operator it names, and has not lapsed.
THEOREM ProxyReadsUsable == Spec => []Dels!UsableDelegation
<1>1. IInv => Dels!UsableDelegation
  <2> SUFFICES ASSUME IInv, NEW r \in Relays, Dels!Get(r) # None
               PROVE  /\ Dels!Get(r).relay = r
                      /\ Dels!Get(r).rootSig = RootPub
                      /\ Dels!Get(r).partnerSig = Dels!Get(r).partner
                      /\ \/ Dels!Get(r).notAfter = 0
                         \/ now <= Dels!Get(r).notAfter
    BY DEF Dels!UsableDelegation
  <2>1. /\ dels[r] # None /\ Dels!Get(r) = dels[r]
        /\ ~Dels!Lapsed(dels[r], now)
    BY DEF Dels!Get
  <2>2. /\ dels[r] \in Dels!Document /\ now \in Nat
        /\ Dels!Consented(dels[r]) /\ dels[r].relay = r
    BY <2>1, FidProxyAssumption DEF IInv, TypeOK, StoreInv
  <2>3. QED
    BY <2>1, <2>2 DEF Dels!Consented, Dels!Lapsed, Dels!Document
<1>2. QED
  BY <1>1, IInvHolds, PTL

\* A relay id the enclave is not serving comes to be served by the storing of a
\* document for that id and by nothing else a handler, the clock or a restart
\* does.
THEOREM ProxyServesRelaysByPush == Spec => Dels!ServesAgainOnlyByPush
<1> DEFINE OnlyByPush ==
      \A r \in Relays : Dels!Get(r) = None /\ Dels!Get(r)' # None =>
          \E d \in pending : d.relay = r /\ dels'[r] = d
<1>1. IInv /\ [Dels!Next]_(Dels!vars) => [OnlyByPush]_(Dels!vars)
  <2> SUFFICES ASSUME IInv, Dels!Next, NEW r \in Relays,
                      Dels!Get(r) = None, Dels!Get(r)' # None
               PROVE  \E d \in pending : d.relay = r /\ dels'[r] = d
    OBVIOUS
  <2> USE FidProxyAssumption
      DEF IInv, TypeOK, StoreInv, Dels!Document, Dels!Get, Dels!Lapsed
  <2>1. ASSUME NEW d \in Docs, Dels!PutVerify(d), UNCHANGED now
        PROVE  FALSE
    BY <2>1 DEF Dels!PutVerify
  <2>2. ASSUME NEW d \in Docs, Dels!PutStore(d), UNCHANGED now
        PROVE  \E x \in pending : x.relay = r /\ dels'[r] = x
    BY <2>2 DEF Dels!PutStore
  <2>3. CASE Dels!Forget /\ UNCHANGED now
    BY <2>3 DEF Dels!Forget
  <2>4. CASE Dels!Tick
    BY <2>4 DEF Dels!Tick
  <2>5. QED
    BY <2>1, <2>2, <2>3, <2>4 DEF Dels!Next
<1>2. QED
  BY <1>1, StoreSteps, IInvHolds, PTL DEF Spec, Dels!ServesAgainOnlyByPush
=============================================================================
