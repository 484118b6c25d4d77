----------------------------- MODULE SealedCall -----------------------------
(***************************************************************************)
(* What the client promises its user (InferResult of sdk/python): a prompt *)
(* is opened by one enclave only, which runs the build the user pinned,    *)
(* and an answer is of an enclave that opened the prompt.                  *)
(*                                                                         *)
(* It is no promise that a prompt is opened once, or before the call is    *)
(* over: what was sent can be delivered again and late, and a call that    *)
(* failed takes nothing back.                                              *)
(*                                                                         *)
(* `host` is the enclave at the address.  An operator may replace it at    *)
(* any time, and each start is another boot.                               *)
(***************************************************************************)
EXTENDS Integers

CONSTANTS
    Calls,      \* every call of every client
    Builds,     \* measurements
    Images,     \* what an operator may start
    None        \* nothing pinned

VARIABLES host, want, readers, outcome

vars == <<host, want, readers, outcome>>

Init ==
    /\ \E image \in Images : host = [boot |-> 1, image |-> image]
    /\ want = [k \in Calls |-> None]
    /\ readers = [k \in Calls |-> {}]
    /\ outcome = [k \in Calls |-> "none"]

Redeploy(image) ==
    /\ host' = [boot |-> host.boot + 1, image |-> image]
    /\ UNCHANGED <<want, readers, outcome>>

Send(k) ==
    /\ outcome[k] = "none"
    /\ outcome' = [outcome EXCEPT ![k] = "sent"]
    /\ \E b \in Builds \cup {None} : want' = [want EXCEPT ![k] = b]
    /\ UNCHANGED <<host, readers>>

\* By the pinned build, and by nobody but who has opened it before.
Read(k) ==
    /\ outcome[k] # "none"
    /\ readers[k] \subseteq {host}
    /\ want[k] \in {None, host.image.build}
    /\ readers' = [readers EXCEPT ![k] = {host}]
    /\ UNCHANGED <<host, want, outcome>>

Answer(k) ==
    /\ outcome[k] = "sent"
    /\ readers[k] # {}
    /\ outcome' = [outcome EXCEPT ![k] = "answered"]
    /\ UNCHANGED <<host, want, readers>>

Next ==
    \/ \E image \in Images : Redeploy(image)
    \/ \E k \in Calls : Send(k) \/ Read(k) \/ Answer(k)

Spec == Init /\ [][Next]_vars

-----------------------------------------------------------------------------
\* What it comes to.  A prompt that was opened was opened by exactly one
\* enclave that an operator started, of the build the user pinned; and one
\* that was answered was opened.
OpenedByPinnedBuild ==
    \A k \in Calls :
        /\ readers[k] # {} =>
              \E image \in Images, boot \in 1..host.boot :
                  /\ readers[k] = {[boot |-> boot, image |-> image]}
                  /\ want[k] \in {None, image.build}
        /\ outcome[k] = "answered" => readers[k] # {}

\* Who has opened a prompt stays the only one for good, whatever is started at
\* the address after it, and the pin it was opened under stands.
ReaderKept ==
    \A k \in Calls :
        readers[k] # {} => readers'[k] = readers[k] /\ want'[k] = want[k]

ReaderIsFinal == [][ReaderKept]_vars
=============================================================================
