---------------------------- MODULE MCDelegation ----------------------------
(***************************************************************************)
(* Two relay ids and three keys.  The documents are those an operator, the *)
(* root or a bystander can put together: an enrolment, its renewal at      *)
(* another adapter, one that lapses, an enrolment of a second operator     *)
(* under the same id, and refused ones of every kind.                      *)
(***************************************************************************)
EXTENDS Delegation

CONSTANTS root, opA, opB, r1, r2, urlA, urlB

Doc(r, p, u, exp, rs, ps) ==
    [relay |-> r, partner |-> p, adapter |-> u, notAfter |-> exp,
     shape |-> TRUE, rootSig |-> rs, partnerSig |-> ps]

MCDocs ==
    {Doc(r1, opA, urlA, 2, root, opA), Doc(r1, opA, urlB, 0, root, opA),
     Doc(r2, opB, urlB, 1, root, opB), Doc(r2, opA, urlA, 3, root, opA),
     Doc(r1, opB, urlB, 0, root, None),         \* not counter-signed
     Doc(r2, opB, urlB, 3, opB, opB),           \* not issued by root
     [Doc(r2, opA, urlA, 0, root, opA) EXCEPT !.shape = FALSE]}

\* The root enrols a second operator under an id that is in use.
MCDocsReissued == MCDocs \cup {Doc(r1, opB, urlB, 0, root, opB)}
=============================================================================
