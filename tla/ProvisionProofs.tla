--------------------------- MODULE ProvisionProofs ---------------------------
(***************************************************************************)
(* What the deployment scripts guarantee, whatever the cloud does and      *)
(* however many runs there are.                                            *)
(***************************************************************************)
EXTENDS Provision, TLAPS

\* A run that looks at its VM has launched it; only such a run gets there.
OwnLaunch ==
    (pc = "describe" \/ (pc = "insert" /\ request = "served")) =>
        vm = None \/ (vm.run = runs /\ vm.digest = digest)

Inv ==
    /\ TypeOK
    /\ pc \notin Asking => request = "none"
    /\ pc = "poll" => polls > 0
    /\ OwnLaunch

\* No VM is mistaken for the absence of one.
LEMMA NoneIsNoVM == \A v \in VM : v # None
BY ProvisionAssumption

\* The invariant holds initially.
LEMMA InitInv == Init => Inv
<1> SUFFICES ASSUME Init PROVE Inv
    OBVIOUS
<1>1. runs \in 0..MaxRuns /\ polls \in Nat
    BY ProvisionAssumption DEF Init
<1>2. TypeOK
    BY <1>1 DEF Init, TypeOK, Over, Asking, Building, Addresses
<1> QED
    BY <1>2 DEF Init, Inv, OwnLaunch, Over, Asking

\* Every step keeps the invariant.
LEMMA NextInv == Inv /\ [Next]_vars => Inv'
<1> SUFFICES ASSUME Inv, [Next]_vars PROVE Inv'
    OBVIOUS
<1> USE NoneIsNoVM, ProvisionAssumption
<1>a. /\ TypeOK /\ OwnLaunch
      /\ pc \notin Asking => request = "none"
      /\ pc = "poll" => polls > 0
    BY DEF Inv
<1>1. CASE UNCHANGED vars
    BY <1>1 DEF Inv, TypeOK, OwnLaunch, vars, cloudVars, runVars
<1>2. ASSUME NEW s \in Scripts, Start(s)
      PROVE  Inv'
    <2>1. /\ pc' \in {"stage", "delete"} /\ request' = "none"
          /\ vm' = vm /\ s \in Script
        BY <1>2, <1>a DEF Start, cloudVars, Over, Asking
    <2>2. TypeOK'
        BY <1>2, <1>a, <2>1 DEF TypeOK, Start, cloudVars, Script,
            Over, Asking, Building, Addresses
    <2> QED
        BY <2>1, <2>2 DEF Inv, OwnLaunch, Asking
<1>3. CASE Stage \/ Build
    <2>1. /\ pc' \in {"repo", "delete"} /\ request' = "none"
          /\ digest' \in Digests \cup {None} /\ script # None
          /\ UNCHANGED <<cloudVars, runs, script, ip, polls>>
        BY <1>3, <1>a DEF Stage, Build, runVars, TypeOK, Asking, Over
    <2>2. TypeOK'
        BY <1>a, <2>1 DEF TypeOK, cloudVars, Asking
    <2> QED
        BY <2>1, <2>2 DEF Inv, OwnLaunch, Asking
<1>4. CASE Ask
    BY <1>4, <1>a DEF Ask, Inv, TypeOK, OwnLaunch, cloudVars, runVars
<1>5. CASE Serve
    <2>1. CASE pc = "delete" /\ vm # None
               /\ vm' = [vm EXCEPT !.state = "stopping"]
        <3>1. TypeOK'
            BY <1>5, <1>a, <2>1 DEF Serve, TypeOK, VM, runVars
        <3> QED
            BY <1>5, <1>a, <2>1, <3>1 DEF Serve, Inv, OwnLaunch, runVars, Asking
    <2>2. CASE /\ pc = "insert" /\ vm = None
               /\ vm' = [run |-> runs, digest |-> digest, ip |-> ip,
                         state |-> "launching"]
        <3>1. vm' \in VM
            BY <1>a, <2>2 DEF TypeOK, VM
        <3>2. TypeOK'
            BY <1>5, <1>a, <2>2, <3>1 DEF Serve, TypeOK, runVars
        <3> QED
            BY <1>5, <1>a, <2>2, <3>2 DEF Serve, Inv, OwnLaunch, runVars, Asking
    <2> QED
        BY <1>5, <2>1, <2>2 DEF Serve
<1>6. CASE RepoThere \/ Deleting \/ StillThere \/ ImageFound \/ AddressFound
           \/ Launching \/ Describe \/ Refuse \/ Raise
    <2>1. request' = "none" /\ UNCHANGED <<vm, runVars>>
        BY <1>6 DEF RepoThere, Deleting, StillThere, ImageFound, AddressFound,
            Launching, Describe, Refuse, Raise, Answered
    <2>2. /\ pc' \in Asking \cup {"build", "raised", "done"}
          /\ ip' \in Addresses /\ polls' \in Nat
          /\ record' \in Record \cup {None}
          /\ pc' = "poll" => polls' > 0
        <3>1. CASE Deleting \/ StillThere
            <4>1. script \in Script
                BY <3>1, <1>a DEF Deleting, StillThere, TypeOK, Over
            <4>2. CASE Deleting
                BY <4>1, <4>2, <1>a DEF Deleting, TypeOK, Script, Asking
            <4>3. CASE StillThere
                BY <4>3, <1>a DEF StillThere, PollAgain, TypeOK, Asking
            <4> QED
                BY <3>1, <4>2, <4>3
        <3>2. CASE Describe
            <4>1. vm \in VM
                BY <3>2, <1>a DEF Describe, TypeOK
            <4> QED
                BY <3>2, <4>1, <1>a DEF Describe, TypeOK, VM, Record
        <3>3. CASE Refuse
            BY <3>3, <1>a DEF Refuse, AfterError, TypeOK, Asking
        <3> QED
            BY <1>6, <1>a, <3>1, <3>2, <3>3 DEF RepoThere, ImageFound,
                AddressFound, Launching, Raise, TypeOK, Asking, Addresses
    <2>3. pc' \notin Over => pc \notin Over
        BY <1>6, <1>a DEF RepoThere, Deleting, StillThere, ImageFound,
            AddressFound, Launching, Describe, Refuse, Raise, Over, Asking
    <2>4. pc' = "describe" => pc = "insert" /\ request = "served"
        BY <1>6 DEF RepoThere, Deleting, StillThere, ImageFound, AddressFound,
            Launching, Describe, Refuse, Raise, AfterError, PollAgain
    <2>5. TypeOK'
        BY <1>a, <2>1, <2>2, <2>3 DEF TypeOK, runVars, Over, Building
    <2>6. OwnLaunch'
        BY <1>a, <2>1, <2>4 DEF OwnLaunch, runVars
    <2> QED
        BY <2>1, <2>2, <2>5, <2>6 DEF Inv
<1>7. CASE Gone \/ Launched
    <2>1. vm \in VM /\ vm' \in VM \cup {None}
        BY <1>7, <1>a DEF Gone, Launched, TypeOK, VM
    <2>2. vm' = None \/ (vm'.run = vm.run /\ vm'.digest = vm.digest)
        BY <1>7, <2>1 DEF Gone, Launched, VM
    <2>3. UNCHANGED <<record, runVars, pc, ip, polls, request>>
        BY <1>7 DEF Gone, Launched
    <2>4. TypeOK'
        BY <1>a, <2>1, <2>3 DEF TypeOK, runVars
    <2> QED
        BY <1>a, <2>1, <2>2, <2>3, <2>4 DEF Inv, OwnLaunch, runVars
<1> QED
    BY <1>1, <1>2, <1>3, <1>4, <1>5, <1>6, <1>7 DEF Next, Run

\* The invariant holds throughout.
THEOREM InvHolds == Spec => []Inv
<1> QED
    BY InitInv, NextInv, PTL DEF Spec

\* The type invariant of Provision.
THEOREM TypeCorrect == Spec => []TypeOK
<1>1. Inv => TypeOK
    BY DEF Inv
<1> QED
    BY <1>1, InvHolds, PTL

\* What is written down is what this run launched.
THEOREM RecordsAreTrue == Spec => RecordTellsThisLaunch
<1> DEFINE Told ==
        record' # record =>
            /\ vm # None /\ vm.run = runs
            /\ record'.digest = vm.digest
            /\ record'.ip \in {vm.ip, None}
<1>1. Inv /\ [Next]_vars => [Told]_vars
    <2> SUFFICES ASSUME Inv, Next, record' # record PROVE Told
        BY DEF vars, cloudVars
    <2>1. Describe
        BY DEF Next, Start, Run, Stage, Ask, Serve, RepoThere, Build, Deleting,
            StillThere, ImageFound, AddressFound, Launching, Refuse, Raise,
            Gone, Launched, cloudVars
    <2>2. vm # None /\ vm.run = runs /\ vm.digest = digest
        BY <2>1 DEF Inv, OwnLaunch, Describe
    <2>3. record'.digest = digest /\ record'.ip \in {vm.ip, None}
        BY <2>1 DEF Describe
    <2> QED
        BY <2>2, <2>3
<1> QED
    BY <1>1, InvHolds, PTL DEF Spec, RecordTellsThisLaunch
=============================================================================
