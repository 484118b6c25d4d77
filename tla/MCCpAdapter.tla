---------------------------- MODULE MCCpAdapter -----------------------------
(***************************************************************************)
(* Two keys whose accounts change between the lane and outside it,         *)
(* accepted and revoked, with and without a limit of their own, ending     *)
(* within the life of a token; under each validator and policy.  One       *)
(* exchange is enough: handlers share nothing they could disturb.          *)
(***************************************************************************)
EXTENDS CpAdapter

CONSTANTS q1, k1, k2, lane, plain

Held(ok, limit, left, group, expires) ==
    [ok |-> ok, limit |-> limit, left |-> left, group |-> group,
     expires |-> expires]

MCAccounts ==
    {Held(TRUE, 2, 1, lane, 2), Held(TRUE, 1, None, plain, None),
     Held(TRUE, 2, 3, None, 0), Held(FALSE, 2, 0, lane, None),
     Held(FALSE, 1, None, plain, 1)}

Env(kind, admin, groups, unknown, cap) ==
    [kind |-> kind, admin |-> admin, groups |-> groups,
     unknown |-> unknown, cap |-> cap]

MCConfigs ==
    {Env("newapi", TRUE, {lane}, "refuse", 0),
     Env("newapi", FALSE, {lane}, "refuse", 0),
     Env("newapi", TRUE, {}, "refuse", 0),
     Env("http", FALSE, {lane}, "refuse", 0),
     Env("http", FALSE, {lane, plain}, "cap", 2),
     Env("exec", FALSE, {}, "cap", 0)}
=============================================================================
