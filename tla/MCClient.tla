------------------------------ MODULE MCClient ------------------------------
(***************************************************************************)
(* One address, one process.                                               *)
(***************************************************************************)
EXTENDS Client

CONSTANTS c1, good, other, idA, idB

Img(build, platform, tls, ident) ==
    [build |-> build, platform |-> platform, tls |-> tls, ident |-> ident]

MCImages ==
    {Img(good, "gcp-cs", "boot", idA), Img(other, "gcp-tdx", "derived", idB),
     Img(good, "mock-tee", "none", idB)}

Setting(prog, https, b, idpub, backend, lax) ==
    [prog |-> prog, https |-> https, pin |-> b, idpub |-> idpub,
     backend |-> backend, lax |-> lax]

MCSetups ==
    {Setting("sdk", TRUE, other, idB, "ita", FALSE),
     Setting("sdk", FALSE, None, idB, "qvl", FALSE),
     Setting("sdk", FALSE, other, idA, "stub", TRUE),
     Setting("call", TRUE, None, None, "stub", FALSE),
     Setting("verify", TRUE, None, None, "stub", FALSE),
     Setting("mcp", TRUE, None, None, "stub", FALSE)}

MCMaxKid == [i \in Issuers |-> IF i = "google" THEN 1 ELSE 0]

\* One build is published, or withdrawn again.
MCRegistries ==
    {[b \in Builds |-> IF b = good THEN idA ELSE None],
     [b \in Builds |-> None]}
=============================================================================
