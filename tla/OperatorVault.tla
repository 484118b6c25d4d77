---------------------------- MODULE OperatorVault ----------------------------
(***************************************************************************)
(* What an operator is promised of the upstream keys it puts into a shared *)
(* enclave (/byok and resolveKey in cmd/fid-proxy): a safe of its own that *)
(* holds one key per account, in which requests it authorised, and no      *)
(* others, put keys and find them.  A request looks into one safe, at one  *)
(* instant, at most once; when the enclave restarts every safe is empty.   *)
(***************************************************************************)
EXTENDS Naturals

CONSTANTS
    Operators,  \* control-plane keys
    Accounts,   \* upstream accounts
    Reqs,       \* requests
    None        \* no key, no reply

VARIABLES
    boot,       \* how often the enclave has been started
    vault,      \* the key each operator has in it for each account
    reply       \* what each request has been told

vars == <<boot, vault, reply>>

\* A key is known by who put it in and the boot it was sealed to.
Key == [owner: Operators, boot: Nat]

\* What request r was told: in whose safe it was, for which account, and the
\* key it put there or found, None for the empty key and for no key.
Reply == [op: {"put", "find"}, by: Operators, account: Accounts,
          key: Key \cup {None}]

Empty == [k \in Operators |-> [a \in Accounts |-> None]]

Init ==
    /\ boot = 1
    /\ vault = Empty
    /\ reply = [r \in Reqs |-> None]

\* Request r gets its one reply.
Answer(r) ==
    /\ reply[r] = None
    /\ reply'[r] \in Reply
    /\ reply' = [reply EXCEPT ![r] = reply'[r]]
    /\ UNCHANGED boot

\* Only a key sealed to this boot, by the operator itself, can be put in.
Put(r) ==
    LET told == reply'[r]
    IN  /\ Answer(r)
        /\ told.op = "put"
        /\ told.key \in {None, [owner |-> told.by, boot |-> boot]}
        /\ vault' = [vault EXCEPT ![told.by][told.account] = told.key]

Find(r) ==
    LET told == reply'[r]
    IN  /\ Answer(r)
        /\ told.op = "find"
        /\ told.key = vault[told.by][told.account]
        /\ UNCHANGED vault

Restart ==
    /\ boot' = boot + 1
    /\ vault' = Empty
    /\ reply' = [r \in Reqs |-> None]

Next ==
    \/ \E r \in Reqs : Put(r) \/ Find(r)
    \/ Restart

Spec == Init /\ [][Next]_vars

-----------------------------------------------------------------------------
\* What it comes to: a request is told of no key but one that the operator it
\* was made for has put in, since the enclave was last started.
OwnKeysOnly ==
    \A r \in Reqs : reply[r] # None =>
        (reply[r].key # None =>
            reply[r].key = [owner |-> reply[r].by, boot |-> boot])
=============================================================================
