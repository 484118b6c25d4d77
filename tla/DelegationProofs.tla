-------------------------- MODULE DelegationProofs --------------------------
(***************************************************************************)
(* The delegation store hands out consented, current documents only, for   *)
(* every set of documents and every root key.                              *)
(***************************************************************************)
EXTENDS Delegation, TLAPS

\* The store and the queue of its lock hold nothing that Put would refuse but
\* for its expiry, each document under its own relay id.
Vetted(d) == d.rootSig = RootPub /\ d.partnerSig = d.partner

StoreInv ==
    /\ TypeOK
    /\ \A d \in pending : Vetted(d)
    /\ \A r \in Relays : byID[r] # None =>
          Vetted(byID[r]) /\ byID[r].relay = r

\* What a step may do to the store: only consented documents join the queue,
\* and what is held for a relay id is kept, is forgotten, or gives way to a
\* queued document for that id.  Time does not go back.
LEMMA StoreStep ==
    ASSUME TypeOK, [Next]_vars
    PROVE  /\ TypeOK'
           /\ now' \in {now, now + 1}
           /\ \A d \in pending' : d \in pending \/ Consented(d)
           /\ \A r \in Relays :
                 \/ byID'[r] \in {None, byID[r]}
                 \/ \E d \in pending : d.relay = r /\ byID'[r] = d
<1> USE DelegationAssumption DEF TypeOK
<1>push. ASSUME NEW d \in Docs, UNCHANGED now, PutVerify(d) \/ PutStore(d)
         PROVE  /\ TypeOK'
                /\ \A e \in pending' : e \in pending \/ Consented(e)
                /\ \A r \in Relays :
                      \/ byID'[r] = byID[r]
                      \/ \E e \in pending : e.relay = r /\ byID'[r] = e
  <2>1. CASE PutVerify(d)
    BY <1>push, <2>1 DEF PutVerify, Verify
  <2>2. CASE PutStore(d)
    <3>1. d.relay \in Relays
      BY DEF Document
    <3>2. QED
      BY <1>push, <2>2, <3>1 DEF PutStore
  <2>3. QED
    BY <1>push, <2>1, <2>2
<1>rest. CASE Tick \/ (Forget /\ UNCHANGED now) \/ UNCHANGED vars
  BY <1>rest DEF Tick, Forget, vars
<1>. QED
  BY <1>push, <1>rest DEF Next

\* The store keeps its invariant through pushes, restarts and the clock.
LEMMA StoreInvHolds == Spec => []StoreInv
<1>1. Init => StoreInv
  BY DelegationAssumption DEF Init, StoreInv, TypeOK
<1>2. StoreInv /\ [Next]_vars => StoreInv'
  BY StoreStep DEF StoreInv, Vetted, Consented
<1>3. QED
  BY <1>1, <1>2, PTL DEF Spec

\* Type correctness of the store.
THEOREM DelegationTypeCorrect == Spec => []TypeOK
<1>1. StoreInv => TypeOK
  BY DEF StoreInv
<1>2. QED
  BY <1>1, StoreInvHolds, PTL

\* Whatever Get returns was issued by the root for that relay id, agreed to by
\* the operator it names, and has not lapsed.
THEOREM DelegationUsable == Spec => []UsableDelegation
<1>1. StoreInv => UsableDelegation
  BY DelegationAssumption
     DEF StoreInv, TypeOK, UsableDelegation, Get, Lapsed, Vetted, Document
<1>2. QED
  BY <1>1, StoreInvHolds, PTL

\* A relay id that is not being served is served again only when a document
\* for it is stored: what Get reads for it is otherwise unchanged, and a lapsed
\* document stays lapsed.
THEOREM DelegationServesByPush == Spec => ServesAgainOnlyByPush
<1> DEFINE OnlyByPush ==
      \A r \in Relays : Get(r) = None /\ Get(r)' # None =>
          \E d \in pending : d.relay = r /\ byID'[r] = d
<1>1. StoreInv /\ [Next]_vars => [OnlyByPush]_vars
  <2> SUFFICES ASSUME StoreInv, [Next]_vars, NEW r \in Relays,
                      Get(r) = None, Get(r)' # None,
                      byID'[r] \in {None, byID[r]}
               PROVE  FALSE
    BY StoreStep DEF StoreInv
  <2>1. /\ byID'[r] # None /\ byID'[r] = byID[r]
        /\ Lapsed(byID[r], now) /\ ~ Lapsed(byID[r], now')
    BY DEF Get
  <2>2. byID[r] \in Document /\ now \in Nat /\ now' \in {now, now + 1}
    BY <2>1, StoreStep, DelegationAssumption DEF StoreInv, TypeOK
  <2>3. QED
    BY <2>1, <2>2 DEF Lapsed, Document
<1>2. QED
  BY <1>1, StoreInvHolds, PTL DEF Spec, ServesAgainOnlyByPush

\* When the root never issues two documents that give one relay id to
\* different operators, an operator keeps its relay id for as long as its
\* delegation is usable, whatever is pushed: the store itself does not see to
\* it, the root has to.
THEOREM DelegationKeepsRelay ==
    ASSUME \A d, e \in Docs :
              Consented(d) /\ Consented(e) /\ d.relay = e.relay
                  => d.partner = e.partner
    PROVE  Spec => OperatorKeepsRelay
<1> DEFINE Kept ==
      \A r \in Relays : Get(r) # None /\ Get(r)' \notin {None, Get(r)} =>
          Get(r)'.partnerSig = Get(r).partner
<1>1. StoreInv /\ StoreInv' /\ [Next]_vars => [Kept]_vars
  <2> SUFFICES ASSUME StoreInv, StoreInv', NEW r \in Relays,
                      Get(r) # None, Get(r)' # None
               PROVE  Get(r)'.partnerSig = Get(r).partner
    OBVIOUS
  <2>1. Get(r) \in Docs /\ Get(r).relay = r /\ Consented(Get(r))
    BY DEF StoreInv, TypeOK, Get, Vetted, Consented
  <2>2. Get(r)' \in Docs /\ Get(r)'.relay = r /\ Consented(Get(r)')
    BY DEF StoreInv, TypeOK, Get, Vetted, Consented
  <2>3. QED
    BY <2>1, <2>2 DEF Consented
<1>2. QED
  BY <1>1, StoreInvHolds, PTL DEF Spec, OperatorKeepsRelay
=============================================================================
