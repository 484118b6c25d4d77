---------------------------- MODULE MCProvision ----------------------------
(***************************************************************************)
(* The three scripts, three in a row, with short polls.                    *)
(***************************************************************************)
EXTENDS Provision

CONSTANTS old, new

MCScripts ==
    {[builds |-> TRUE, digest |-> old, polls |-> 2, static |-> TRUE],
     [builds |-> FALSE, digest |-> old, polls |-> 3, static |-> FALSE],
     [builds |-> FALSE, digest |-> new, polls |-> 3, static |-> TRUE]}
=============================================================================
