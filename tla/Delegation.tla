----------------------------- MODULE Delegation -----------------------------
(***************************************************************************)
(* The delegation store of the enclave (pkg/delegation): the documents     *)
(* that let one enclave serve many relay operators.  A document names a    *)
(* relay id, the operator's control-plane key and adapter, and an expiry.  *)
(* It carries two signatures, the root's and the operator's.               *)
(*                                                                         *)
(* A signature is modelled by the key it verifies under: rootSig is the    *)
(* key under which the first signature covers these very payload bytes,    *)
(* None when it covers them under no key (tampered or absent).  Time is in *)
(* seconds, as in time.Now().Unix().                                       *)
(***************************************************************************)
EXTENDS Integers, FiniteSets

CONSTANTS
    Relays,     \* relay ids operators are enrolled under
    CpKeys,     \* control-plane signing keys, the root's among them
    Adapters,   \* cp-adapter base URLs
    RootPub,    \* Store.rootPub: FID_ROOT_CP_PUB, else the baked CP key
    Docs,       \* every document that is ever pushed to this enclave
    None,       \* no delegation (nil), no signing key
    MaxNow      \* bound on the clock

\* A delegation as it travels.  `shape` says whether the relay id, the key
\* length and the URL scheme are well formed.
Document == [relay: Relays, partner: CpKeys, adapter: Adapters,
             notAfter: Nat, shape: BOOLEAN,
             rootSig: CpKeys \cup {None}, partnerSig: CpKeys \cup {None}]

ASSUME DelegationAssumption ==
    /\ None \notin CpKeys
    /\ None \notin Document
    /\ RootPub \in CpKeys \cup {None}
    /\ Docs \subseteq Document
    /\ MaxNow \in Nat

VARIABLES
    byID,       \* Store.byID: the document held for each relay id
    pending,    \* documents Put has verified and not yet stored
    now         \* the wall clock

vars == <<byID, pending, now>>

TypeOK ==
    /\ byID \in [Relays -> Docs \cup {None}]
    /\ pending \in SUBSET Docs
    /\ now \in 0..MaxNow

-----------------------------------------------------------------------------
\* notAfter = 0 means no expiry; the last valid second is notAfter itself.
Lapsed(d, t) == d.notAfter > 0 /\ t > d.notAfter

ConsentedByRootOnly(d) == d.rootSig = RootPub

\* Root vouches for the document, and the operator it names agreed to it.
Consented(d) == d.rootSig = RootPub /\ d.partnerSig = d.partner

\* delegation.Verify
Verify(d, t) ==
    /\ d.shape
    /\ Consented(d)
    /\ ~Lapsed(d, t)

GetWithoutExpiry(r) == byID[r]

\* Store.Get: nil for an unknown id, and for a document that lapsed since.
Get(r) ==
    IF byID[r] = None \/ Lapsed(byID[r], now) THEN None ELSE byID[r]

Init ==
    /\ byID = [r \in Relays |-> None]
    /\ pending = {}
    /\ now = 0

-----------------------------------------------------------------------------
\* Store.Put verifies before it takes the lock: a document can wait between
\* the two while others are stored and time passes.  A refused document
\* leaves no trace.
PutVerify(d) ==
    /\ RootPub # None
    /\ Verify(d, now)
    /\ pending' = pending \cup {d}
    /\ UNCHANGED byID

PutStoreByPartner(d) ==
    /\ d \in pending
    /\ pending' = pending \ {d}
    /\ byID' = [r \in Relays |->
                  IF \/ r = d.relay
                     \/ byID[r] # None /\ byID[r].partner = d.partner
                  THEN d ELSE byID[r]]

PutStoreUnsigned(d) ==
    /\ d \in pending
    /\ pending' = pending \ {d}
    /\ byID' = [byID EXCEPT ![d.relay] =
                    [d EXCEPT !.rootSig = None, !.partnerSig = None]]

PutStore(d) ==
    /\ d \in pending
    /\ pending' = pending \ {d}
    /\ byID' = [byID EXCEPT ![d.relay] = d]

\* The store lives in memory: a restart forgets what it held.
Forget ==
    /\ byID' = [r \in Relays |-> None]
    /\ pending' = {}

Tick ==
    /\ now < MaxNow
    /\ now' = now + 1
    /\ UNCHANGED <<byID, pending>>

Next ==
    \/ \E d \in Docs : PutVerify(d) /\ UNCHANGED now
    \/ \E d \in Docs : PutStore(d) /\ UNCHANGED now
    \/ Forget /\ UNCHANGED now
    \/ Tick

Spec == Init /\ [][Next]_vars

-----------------------------------------------------------------------------
\* What the store hands out for a relay id was issued for that id by the root,
\* was counter-signed by the operator it names, and has not lapsed, however
\* pushes, restarts and the clock interleave (delegation.go:18 "Both
\* signatures are required").
UsableDelegation ==
    \A r \in Relays : Get(r) # None =>
        /\ Get(r).relay = r
        /\ Get(r).rootSig = RootPub
        /\ Get(r).partnerSig = Get(r).partner
        /\ Get(r).notAfter = 0 \/ now <= Get(r).notAfter

\* A relay id that has stopped (or never started) serving starts to serve only
\* by the storing of a document for that very id: neither the clock nor a push
\* for another operator brings it back (delegation.go:117 "a delegation that
\* lapses while cached stops being usable").
ServesAgainOnlyByPush ==
    [][\A r \in Relays : Get(r) = None /\ Get(r)' # None =>
            \E d \in pending : d.relay = r /\ byID'[r] = d]_vars

\* While an operator's delegation is usable, its adapter and its key change
\* only with that operator's own counter-signature (delegation.go:16 "Root
\* alone cannot point an operator's traffic at a different adapter or swap
\* their key").
OperatorKeepsRelay ==
    [][\A r \in Relays : Get(r) # None /\ Get(r)' \notin {None, Get(r)} =>
            Get(r)'.partnerSig = Get(r).partner]_vars

=============================================================================
