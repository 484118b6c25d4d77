------------------------------- MODULE Routing ------------------------------
(***************************************************************************)
(* The placement decision of internal/routing: every prompt prefix ranks   *)
(* the accounts of a pool by a hash; Pick takes the first that has budget  *)
(* left, and when all are saturated the least used.                        *)
(*                                                                         *)
(* The 64-bit score of (fingerprint, account) is a constant function with  *)
(* no ties: SHA-256 is outside the model.  A fingerprint stands for the    *)
(* salted hash of model, tenant (if isolated) and prefix.                  *)
(***************************************************************************)
EXTENDS Integers, FiniteSets

CONSTANTS
    Accounts,   \* upstream account ids
    Pools,      \* pool ids a token may name, unknown ones included
    Members,    \* Router.pools: [Pools -> SUBSET Accounts]
    Budget,     \* Account.TPMBudget, 0 for unlimited
    Fps,        \* fingerprints
    Score,      \* score(fp, id)
    Needs       \* token counts a request may ask for

ASSUME RoutingAssumption ==
    /\ IsFiniteSet(Accounts)
    /\ Members \in [Pools -> SUBSET Accounts]
    /\ Budget \in [Accounts -> Nat]
    /\ Score \in [Fps -> [Accounts -> Nat]]
    /\ \A f \in Fps, a, b \in Accounts :
          Score[f][a] = Score[f][b] => a = b
    /\ Needs \subseteq Nat

-----------------------------------------------------------------------------
\* The first of S in the order sort.Slice gives it.
First(fp, S) ==
    CHOOSE a \in S : \A b \in S : Score[fp][a] <= Score[fp][b]

FitsStrictly(u, a, need) == Budget[a] = 0 \/ u[a] < Budget[a]

\* The account takes the request and stays within its budget.
Fits(u, a, need) == Budget[a] = 0 \/ u[a] + need <= Budget[a]

Fitting(u, pool, need) == {a \in Members[pool] : Fits(u, a, need)}

LeastUsed(u, pool) ==
    {a \in Members[pool] : \A b \in Members[pool] : u[a] <= u[b]}

ChoiceLeastUsed(u, pool, fp, need) == First(fp, LeastUsed(u, pool))

ChoiceTopWhenSaturated(u, pool, fp, need) ==
    IF Fitting(u, pool, need) # {}
    THEN First(fp, Fitting(u, pool, need))
    ELSE First(fp, Members[pool])

\* The account Pick returns, for a pool with at least one account.
Choice(u, pool, fp, need) ==
    IF Fitting(u, pool, need) # {}
    THEN First(fp, Fitting(u, pool, need))
    ELSE First(fp, LeastUsed(u, pool))

Credited(u, a, need) == [u EXCEPT ![a] = @ - need]

ChargedUnlessFull(u, a, need) ==
    IF Fits(u, a, need) THEN [u EXCEPT ![a] = @ + need] ELSE u

ChargedAfresh(u, a, need) == [u EXCEPT ![a] = need]

\* The counters after charging a request to account a.
Charged(u, a, need) == [u EXCEPT ![a] = @ + need]

\* The flag worked out after the charge.
AffinityAfterCharge(u, pool, fp, need) ==
    LET a == Choice(u, pool, fp, need)
    IN  /\ Fits(Charged(u, a, need), a, need)
        /\ a = First(fp, Members[pool])

\* affinity: some account had room, and it was the top-ranked one.
Affinity(u, pool, fp, need) ==
    /\ Fitting(u, pool, need) # {}
    /\ Choice(u, pool, fp, need) = First(fp, Members[pool])
=============================================================================
