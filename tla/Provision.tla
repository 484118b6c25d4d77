------------------------------ MODULE Provision ------------------------------
(***************************************************************************)
(* The deployment scripts (deploy/gcp): each makes room for the one VM     *)
(* named fid-proxy-cs, launches it with an image digest, and writes down   *)
(* what it launched.  The cloud works behind their back: a deletion takes  *)
(* its time, an accepted launch may still fail, and any request may be     *)
(* refused, or carried out and its answer lost.                            *)
(*                                                                         *)
(* One person runs one script at a time.                                   *)
(***************************************************************************)
EXTENDS Integers

CONSTANTS
    Scripts,    \* cs_provision, relaunch_cs, ratls_relaunch
    Digests,    \* of images
    MaxRuns,    \* bound of the instance
    None        \* no VM, no record, no address; the empty digest

VARIABLES
    vm,         \* what holds the name
    record,     \* cs_state.json
    \* the script that runs, or ran last
    runs, script, pc, digest, ip, polls,
    request     \* the API call that is out

cloudVars == <<vm, record>>
runVars == <<runs, script, digest>>
vars == <<cloudVars, runVars, pc, ip, polls, request>>

-----------------------------------------------------------------------------
\* builds: builds and pushes the image it launches, else that of `digest`.
\* static: asks for the reserved address.
Script == [builds: BOOLEAN, digest: Digests, polls: Nat \ {0},
           static: BOOLEAN]

Addresses == {"static", "new"}

VM == [run: Nat, digest: Digests \cup {None}, ip: Addresses,
       state: {"launching", "there", "stopping"}]

Record == [digest: Digests \cup {None}, ip: Addresses \cup {None}]

\* Programs that are run without a timeout: go build; docker login and buildx.
Building == {"stage", "build"}

Asking == {"repo", "delete", "poll", "image", "address", "insert", "describe"}

Over == {"idle", "done", "raised"}

ASSUME ProvisionAssumption ==
    /\ Scripts \subseteq Script
    /\ MaxRuns \in Nat
    /\ None \notin Digests \cup VM \cup Record \cup Scripts \cup Addresses

TypeOK ==
    /\ vm \in VM \cup {None}
    /\ record \in Record \cup {None}
    /\ runs \in 0..MaxRuns
    /\ script \in Scripts \cup {None}
    /\ pc \in Asking \cup Building \cup Over
    /\ pc \notin Over => script # None
    /\ digest \in Digests \cup {None}
    /\ ip \in Addresses
    /\ polls \in Nat
    /\ request \in {"none", "out", "served"}

Init ==
    /\ vm = None /\ record = None
    /\ runs = 0 /\ script = None /\ pc = "idle"
    /\ digest = None /\ ip = "new" /\ polls = 0
    /\ request = "none"

-----------------------------------------------------------------------------
\* What a script needs before it asks for anything (its .env, keys.json, its
\* Python packages) it has, or it raises.
Start(s) ==
    /\ pc \in Over /\ runs < MaxRuns
    /\ runs' = runs + 1
    /\ script' = s
    /\ digest' = s.digest
    /\ ip' = "new" /\ polls' = 0
    /\ pc' = IF s.builds THEN "stage" ELSE "delete"
    /\ UNCHANGED <<cloudVars, request>>

\* The binary is built and the context of the image staged.
Stage ==
    /\ pc = "stage"
    /\ pc' = "repo"
    /\ UNCHANGED <<cloudVars, runVars, ip, polls, request>>

\* api() with its access token, the cached one or a new one.
Ask ==
    /\ pc \in Asking /\ request = "none"
    /\ request' = "out"
    /\ UNCHANGED <<cloudVars, runVars, pc, ip, polls>>

\* Delete and insert are accepted before they are carried out.  The name has
\* to be taken, or free.
Serve ==
    /\ request = "out"
    /\ request' = "served"
    /\ \/ /\ pc = "delete" /\ vm # None
          /\ vm' = [vm EXCEPT !.state = "stopping"]
       \/ /\ pc = "insert" /\ vm = None
          /\ vm' = [run |-> runs, digest |-> digest, ip |-> ip,
                    state |-> "launching"]
    /\ UNCHANGED <<record, runVars, pc, ip, polls>>

Answered ==
    /\ request' = "none"
    /\ UNCHANGED <<vm, runVars>>

RepoThere ==
    /\ pc = "repo" /\ request = "out"
    /\ pc' = "build"
    /\ UNCHANGED <<record, ip, polls>>
    /\ Answered

\* With an access token docker logs in, and buildx builds the image, pushes it
\* and reports its digest, or reports none, which stands for "" and stops
\* nothing.  A program that fails ends the script (Raise).
Build ==
    /\ pc = "build"
    /\ digest' \in Digests \cup {None}
    /\ pc' = "delete"
    /\ UNCHANGED <<cloudVars, runs, script, ip, polls, request>>

Deleting ==
    /\ pc = "delete" /\ request = "served"
    /\ polls' = script.polls
    /\ pc' = "poll"
    /\ UNCHANGED <<record, ip>>
    /\ Answered

PollsUnchecked == polls' = polls - 1 /\ UNCHANGED pc

PollsForever == UNCHANGED <<polls, pc>>

PollAgain ==
    /\ polls' = polls - 1
    /\ pc' = IF polls = 1 THEN "image" ELSE "poll"

StillThere ==
    /\ pc = "poll" /\ request = "out" /\ vm # None
    /\ PollAgain
    /\ UNCHANGED <<record, ip>>
    /\ Answered

ImageFound ==
    /\ pc = "image" /\ request = "out"
    /\ pc' = IF script.static THEN "address" ELSE "insert"
    /\ UNCHANGED <<record, ip, polls>>
    /\ Answered

AddressFound ==
    /\ pc = "address" /\ request = "out"
    /\ ip' = "static"
    /\ pc' = "insert"
    /\ UNCHANGED <<record, polls>>
    /\ Answered

Launching ==
    /\ pc = "insert" /\ request = "served"
    /\ pc' = "describe"
    /\ UNCHANGED <<record, ip, polls>>
    /\ Answered

\* After some twenty seconds.  A new address may not be assigned yet.
Describe ==
    /\ pc = "describe" /\ request = "out" /\ vm # None
    /\ \E at \in {vm.ip} \cup (IF vm.state = "launching" /\ vm.ip = "new"
                               THEN {None} ELSE {}) :
          record' = [digest |-> digest, ip |-> at]
    /\ pc' = "done"
    /\ UNCHANGED <<ip, polls>>
    /\ Answered

AfterErrorForgiven(step) ==
    IF step = "repo" THEN "build"
    ELSE IF step \in {"delete", "poll"} THEN "image"
    ELSE IF step = "address" THEN "insert"
    ELSE IF step = "insert" THEN "describe" ELSE "raised"

\* Where a GcpError leads: the polling takes any for "gone", the address
\* lookup any for "none reserved".
AfterError(step) ==
    IF step = "repo" THEN "build"
    ELSE IF step \in {"delete", "poll"} THEN "image"
    ELSE IF step = "address" THEN "insert" ELSE "raised"

\* Refused: not found, name taken, not permitted, a server's error; or, before
\* the request is out, a new access token is (also a GcpError).
Refuse ==
    /\ pc \in Asking
    /\ pc' = AfterError(pc)
    /\ UNCHANGED <<record, ip, polls>>
    /\ Answered

\* Any other exception ends the script: no answer, a timeout, a file missing, a
\* program that fails.
Raise ==
    /\ pc \notin Over
    /\ pc' = "raised"
    /\ UNCHANGED <<record, ip, polls>>
    /\ Answered

Run ==
    \/ Stage \/ Ask \/ Serve \/ RepoThere \/ Build \/ Deleting
    \/ StillThere \/ ImageFound \/ AddressFound \/ Launching \/ Describe
    \/ Refuse \/ Raise

-----------------------------------------------------------------------------
\* The cloud.

Gone ==
    /\ vm # None /\ vm.state \in {"stopping", "launching"}
    /\ vm' = None
    /\ UNCHANGED <<record, runVars, pc, ip, polls, request>>

Launched ==
    /\ vm # None /\ vm.state = "launching"
    /\ vm' = [vm EXCEPT !.state = "there"]
    /\ UNCHANGED <<record, runVars, pc, ip, polls, request>>

Next ==
    \/ \E s \in Scripts : Start(s)
    \/ Run
    \/ Gone \/ Launched

\* A process goes on, and every request ends: urlopen's timeout bounds each
\* operation on the socket, and the API is taken not to trickle its answers.
\* Nothing ends a program that hangs.
Spec == Init /\ [][Next]_vars /\ WF_vars(Run /\ pc \notin Building)

-----------------------------------------------------------------------------
\* The properties.

\* What is written to cs_state.json is the digest and the address of the very
\* VM this run launched, although every error of the deletion is passed over,
\* the polling may give up on a VM that is still there, and the launch is only
\* accepted when it is answered.
RecordTellsThisLaunch ==
    [][record' # record =>
        /\ vm # None /\ vm.run = runs
        /\ record'.digest = vm.digest
        /\ record'.ip \in {vm.ip, None}]_vars

\* A run that is past its builds ends, also when the old VM never goes away, and
\* one that is not can only be held up by a program it runs: go build, docker
\* login or buildx, which have no timeout (cs_provision.py:35).
RunEnds == pc \in Asking ~> (pc \in Over \/ pc = "build")
=============================================================================
