------------------------------- MODULE Router -------------------------------
(***************************************************************************)
(* The router of the enclave (internal/routing): the per-account counters  *)
(* that Pick reads and charges under one lock.                             *)
(***************************************************************************)
EXTENDS Routing

CONSTANT MaxUsed    \* bound on the counters

VARIABLES
    used,       \* Router.used: tokens charged to each account
    last,       \* what the latest Pick was asked and what it returned
    placed      \* history: where each prefix of each pool was placed so far,
                \* with the smallest of the requests each account took of it

vars == <<used, last, placed>>

NoPick == [pool |-> "none"]

Picked == [pool: Pools, fp: Fps, need: Needs, acct: Accounts,
           affinity: BOOLEAN]

Placement == [acct: Accounts, need: Needs]

TypeOK ==
    /\ used \in [Accounts -> Nat]
    /\ last \in Picked \cup {NoPick}
    /\ placed \in [Pools -> [Fps -> SUBSET Placement]]

-----------------------------------------------------------------------------
Init ==
    /\ used = [a \in Accounts |-> 0]
    /\ last = NoPick
    /\ placed = [pool \in Pools |-> [fp \in Fps |-> {}]]

Smallest(S) == {e \in S : ~\E d \in S : d.acct = e.acct /\ d.need < e.need}

\* Router.Pick on a pool that has accounts; on an empty or unknown pool it
\* returns ok = false and changes nothing.
Pick(pool, fp, need) ==
    /\ Members[pool] # {}
    /\ LET a == Choice(used, pool, fp, need)
       IN  /\ used[a] + need <= MaxUsed
           /\ used' = Charged(used, a, need)
           /\ last' = [pool |-> pool, fp |-> fp, need |-> need, acct |-> a,
                       affinity |-> Affinity(used, pool, fp, need)]
           /\ placed' = [placed EXCEPT ![pool][fp] =
                            Smallest(@ \cup {[acct |-> a, need |-> need]})]

Next == \E pool \in Pools, fp \in Fps, need \in Needs : Pick(pool, fp, need)

Spec == Init /\ [][Next]_vars

\* Requests keep coming.
FairSpec == Spec /\ WF_vars(Next)

-----------------------------------------------------------------------------
\* Overload is spread: an account beyond its budget is ahead of no account of
\* some pool it serves by more than one request.  Neither the affinity of a
\* hot prefix nor the pools sharing an account can pile tokens onto one
\* account past its budget (routing.go:82 "Everyone saturated: least-used").
OverloadIsSpread ==
    \A a \in Accounts : Budget[a] > 0 /\ used[a] > Budget[a] =>
        \E pool \in Pools, n \in Needs :
            /\ a \in Members[pool]
            /\ \A b \in Members[pool] : used[a] <= used[b] + n

\* A counter passes its budget only when no account of the pool that was asked
\* had room for the request (routing.go:13 "if it is saturated, spill to the
\* next").
OverBudgetOnlyWhenPoolFull ==
    [][\A a \in Accounts :
            Budget[a] > 0 /\ used'[a] > used[a] /\ used'[a] > Budget[a] =>
                \A b \in Members[last'.pool] :
                    Budget[b] > 0 /\ used[b] + last'.need > Budget[b]]_vars

\* A prefix only ever moves on: whatever load of its own pool or of another
\* pool came in between, it leaves an account where it is cached only because
\* that account has no room for the request, and for one that ranks after it.
\* So it wanders down its ranking at most once, does not return to where it was
\* turned away, and no two of its accounts take turns in its misses; only a
\* smaller request, or one that finds the whole pool full, goes back up
\* (routing.go:6 "to get a cache hit we must send the same cacheable prefix
\* back to the same account").
MovesOn(e) ==
    LET full == Fitting(used, last'.pool, last'.need) = {} IN
    (e.need <= last'.need /\ e.acct # last'.acct /\ ~full) =>
        /\ ~Fits(used, e.acct, last'.need)
        /\ Score[last'.fp][e.acct] < Score[last'.fp][last'.acct]

PrefixNeverMovesBack ==
    [][\A e \in placed[last'.pool][last'.fp] : MovesOn(e)]_vars

\* When the client is told it got a cold account although its own top-ranked
\* one was picked, the whole pool was full for the request: a false flag always
\* tells of saturation, be it of one account or of all (routing.go:90 returns
\* false for whichever account is least used).
MissMeansSaturation ==
    last # NoPick /\ ~last.affinity =>
        LET top == First(last.fp, Members[last.pool])
        IN  /\ ~Fits(used, top, last.need)
            /\ last.acct = top =>
                  \A b \in Members[last.pool] : ~Fits(used, b, last.need)

\* The counters are said to be per window (routing.go:34 "accountID -> tokens
\* used this window", routing.go:27 "tokens-per-window budget"): a saturated
\* account eventually has budget again.
BudgetReturns ==
    \A a \in Accounts :
        (Budget[a] > 0 /\ used[a] >= Budget[a]) ~> (used[a] < Budget[a])

\* The flag told to the client (routing.go:58 "affinity=true means we got the
\* preferred (cache-warm) account; false means we had to spill").
NoAffinityMeansSpilled ==
    last # NoPick /\ ~last.affinity =>
        last.acct # First(last.fp, Members[last.pool])
=============================================================================
