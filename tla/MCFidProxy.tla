----------------------------- MODULE MCFidProxy -----------------------------
(***************************************************************************)
(* Small instances of the data plane.                                      *)
(***************************************************************************)
EXTENDS FidProxy, TLC

CONSTANTS root, opA, opB, r1, r2, urlA, urlB, a1, a2, shared, own, m1, m2,
          f1, s1, q1, q2

Doc(r, p, u, exp, ps) ==
    [relay |-> r, partner |-> p, adapter |-> u, notAfter |-> exp,
     shape |-> TRUE, rootSig |-> root, partnerSig |-> ps]

\* Operator A under two relay ids; r1 passes to operator B, and a document
\* that B has not counter-signed would give it r2 as well.
DocsOperators ==
    {Doc(r1, opA, urlA, 1, opA), Doc(r2, opA, urlA, 0, opA),
     Doc(r1, opB, urlB, 0, opB), Doc(r2, opB, urlB, 0, None)}

Tok(k, pool, ms, exp) == [cp |-> k, pool |-> pool, models |-> ms, exp |-> exp]

tokA == Tok(opA, shared, {m1}, 0)
tokB == Tok(opB, shared, {AnyModel}, 1)
tokRoot == Tok(root, shared, {AnyModel}, 0)

TokensOperators == {tokA, tokB, tokRoot}

Ask(kind, relay, cred) ==
    [kind |-> kind, relay |-> relay, cred |-> cred, model |-> m1, fp |-> f1,
     need |-> 1, bodyOK |-> TRUE, session |-> None, account |-> a1,
     sealedFor |-> 1, blank |-> FALSE]

InputsOperators ==
    {Ask("chat", r1, RawKey), Ask("chat", r1, tokA), Ask("chat", r1, tokRoot),
     Ask("chat", None, tokRoot), Ask("byok", r1, tokA), Ask("byok", r2, RawKey),
     Ask("byok", r2, tokA), [Ask("byok", r2, tokA) EXCEPT !.blank = TRUE],
     [Ask("byok", r1, tokB) EXCEPT !.sealedFor = 2]}

Symmetry == Permutations(Reqs)

\* One relay; sealed prompts over one session, the compatible path, and the
\* requests each check turns away.
DocsServing == {Doc(r1, opA, urlA, 1, opA)}

tokOwn == Tok(root, own, {AnyModel}, 0)
tokRootSoon == Tok(root, shared, {m1}, 1)

tokASoon == Tok(opA, shared, {m1}, 1)

TokensServing == {tokOwn, tokRootSoon, tokASoon}

\* A sealed prompt is larger than any account's budget.
Infer(relay, cred) ==
    [Ask("infer", relay, cred) EXCEPT !.session = s1, !.need = 2]

InputsServing ==
    {Infer(None, tokRootSoon), Infer(r1, RawKey), Ask("models", None, tokOwn),
     [Infer(None, tokRootSoon) EXCEPT !.bodyOK = FALSE],
     [Ask("chat", None, tokRootSoon) EXCEPT !.bodyOK = FALSE],
     [Ask("chat", None, tokRootSoon) EXCEPT !.model = m2],
     Ask("chat", None, tokRootSoon), Ask("chat", None, tokOwn),
     Ask("chat", None, RawKey), Ask("chat", r1, None)}

\* a1 holds a pool key, a2's is refused by the attestation gate.
MembersTwo == shared :> {a1, a2} @@ own :> {}
BudgetTwo == a1 :> 1 @@ a2 :> 1
ScoreTwo == f1 :> (a1 :> 1 @@ a2 :> 2)

MembersOne == shared :> {a1} @@ own :> {}
BudgetOne == a1 :> 1
ScoreOne == f1 :> (a1 :> 1)
AdapterCps == urlA :> opA @@ urlB :> opB
=============================================================================
