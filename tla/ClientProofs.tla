---------------------------- MODULE ClientProofs ----------------------------
(***************************************************************************)
(* What the verifying client guarantees, for any number of clients,        *)
(* enclaves, registries, restarts, rotations and calls.                    *)
(***************************************************************************)
EXTENDS Client, TLAPS

Step(c) ==
    \/ \E s \in Setups : Start(c, s)
    \/ Request(c)
    \/ Again(c)
    \/ Rerun(c)
    \/ \E n \in 1..MaxCalls : Open(c, n)

-----------------------------------------------------------------------------
\* The invariant: what is known of client c at each step.

Current == [host |-> host, fronted |-> fronted]

InHand == {"bind", "nonce", "appraise", "judge", "trusted", "posted", "ok"}
Bound == InHand \ {"bind"}
Judged == {"trusted", "posted", "ok"}

\* Which programs come where.
Program(c) ==
    /\ pc[c] = "idle" <=> setup[c] = None
    /\ pc[c] \in {"trusted", "posted"} => setup[c].prog # "verify"
    /\ pc[c] \in {"posted", "ok"} => setup[c].prog # "mcp"
    /\ pc[c] = "probe" => setup[c].prog = "verify" /\ known[c] # None
    /\ pc[c] = "resolve" => pin[c] = None
    /\ pc[c] = "idle" <=> calls[c] = 0

\* `verify` pins what its registry lists.
Listed(c) ==
    (pc[c] \in {"attest"} \cup InHand /\ setup[c].prog = "verify") =>
        pin[c] # None /\ known[c] # None /\ known[c][pin[c]] # None

\* The attestation in hand is this call's.
Fresh(c) ==
    pc[c] \in InHand =>
        quote[c] # None /\ \E s \in seen[c] : s.host = quote[c].host

\* It runs the pinned build: a mock's is checked at once, others' later.
Pinned(c) ==
    (pc[c] \in Judged
     \/ (pc[c] = "bind" /\ quote[c].host.image.platform = "mock-tee"))
        => PinOk(c, quote[c].host)

\* Past the TLS check, its key was met with nothing in front.
Unfronted(c) ==
    (pc[c] \in Bound /\ setup[c].https /\ quote[c].host.image.tls # "none") =>
        \E s \in seen[c] : ~s.fronted /\ TlsKey(s.host) = TlsKey(quote[c].host)

\* A boot is one enclave.
Past(h) == h.boot <= host.boot /\ (h.boot = host.boot => h = host)

\* The prompt of call n, once it is sent: to an enclave that was started, of
\* the build it was pinned to, and opened by nobody else.
Filed(c, n) ==
    posts[c][n] # None =>
        /\ n <= calls[c]
        /\ n = calls[c] => pc[c] \in {"posted", "ok", "failed"}
        /\ Past(posts[c][n].host)
        /\ posts[c][n].pin \in {None, posts[c][n].host.image.build}
        /\ posts[c][n].readers \subseteq {posts[c][n].host}
        /\ posts[c][n].answered => posts[c][n].readers # {}

Prompts(c) ==
    /\ \A n \in 1..MaxCalls : Filed(c, n)
    /\ pc[c] = "posted" =>
          posts[c][calls[c]] # None /\ ~posts[c][calls[c]].answered

RightIdentity(c) ==
    (pc[c] = "ok" /\ Seals(c)) =>
        /\ posts[c][calls[c]] # None
        /\ posts[c][calls[c]].answered
        /\ setup[c].idpub # None =>
              \A h \in posts[c][calls[c]].readers :
                  h.image.ident = setup[c].idpub

\* What stands at the address while c waits is in seen; a kept attestation
\* under the nonce of this call was made during it.
Witnessed(c) ==
    /\ pc[c] \in Waiting => Current \in seen[c]
    /\ (cached # None /\ cached.nonce.by = c) =>
          /\ cached.nonce.n <= calls[c]
          /\ cached.nonce.n = calls[c] =>
                \E s \in seen[c] : s.host = cached.host

Boots(c) ==
    /\ cached # None => Past(cached.host)
    /\ quote[c] # None => Past(quote[c].host)

Good(c) ==
    /\ Program(c) /\ Listed(c) /\ Fresh(c) /\ Pinned(c) /\ Unfronted(c)
    /\ Prompts(c) /\ Witnessed(c) /\ Boots(c) /\ RightIdentity(c)

Inv == TypeOK /\ \A c \in Clients : Good(c)

-----------------------------------------------------------------------------
\* Types.

\* None is neither a quote, a setup, a registry nor a build.
LEMMA NoneIsNothing ==
    /\ None \notin Quote /\ None \notin Setups /\ None \notin Builds
    /\ None \notin Clients /\ None \notin Registries /\ None \notin Idents
    /\ None \notin Prompt
BY ClientAssumption

\* A setup is one.
LEMMA SetupsTyped == \A s \in Setups : s \in Setup
BY ClientAssumption

\* Whatever is answered to a request for an attestation is an attestation.
LEMMA AttestationsTyped ==
    ASSUME TypeOK, NEW nonce \in Nonce
    PROVE  Attestations(nonce) \subseteq Quote
<1>1. kid["google"] \in Nat /\ now \in Nat /\ now + TokenTTL \in Nat
    BY ClientAssumption DEF TypeOK, Issuers
<1>2. Attested(nonce) \in Quote
    BY <1>1 DEF Attested, Quote, TypeOK
<1>3. {cached} \ {None} \subseteq Quote
    BY DEF TypeOK
<1> QED
    BY <1>2, <1>3 DEF Attestations

\* The nonces asked for are nonces.
LEMMA NoncesTyped ==
    ASSUME TypeOK, NEW c \in Clients
    PROVE  /\ [by |-> c, n |-> calls[c]] \in Nonce
           /\ [by |-> None, n |-> 0] \in Nonce
BY ClientAssumption DEF TypeOK, Nonce

\* A client that has started is at one of its calls.
LEMMA CallsNamed ==
    ASSUME TypeOK, NEW c \in Clients, Program(c), pc[c] # "idle"
    PROVE  calls[c] \in 1..MaxCalls
BY ClientAssumption DEF TypeOK, Program

\* One prompt is filed, or changed, and the others stay as they are.
LEMMA Entry ==
    ASSUME TypeOK, NEW c \in Clients, NEW n \in 1..MaxCalls, NEW q \in Prompt,
           posts' = [posts EXCEPT ![c][n] = q]
    PROVE  /\ posts' \in [Clients -> [1..MaxCalls -> Prompt \cup {None}]]
           /\ posts'[c][n] = q /\ posts'[c][n] # None
           /\ \A m \in 1..MaxCalls : m # n => posts'[c][m] = posts[c][m]
           /\ \A d \in Clients : d # c => posts'[d] = posts[d]
<1>1. posts \in [Clients -> [1..MaxCalls -> Prompt \cup {None}]]
    BY DEF TypeOK
<1>2. [posts[c] EXCEPT ![n] = q] \in [1..MaxCalls -> Prompt \cup {None}]
    BY <1>1
<1>3. /\ posts' \in [Clients -> [1..MaxCalls -> Prompt \cup {None}]]
      /\ posts'[c] = [posts[c] EXCEPT ![n] = q]
      /\ \A d \in Clients : d # c => posts'[d] = posts[d]
    BY <1>1, <1>2
<1>4. posts'[c][n] = q /\ \A m \in 1..MaxCalls : m # n => posts'[c][m] = posts[c][m]
    BY <1>1, <1>3
<1> QED
    BY <1>3, <1>4, NoneIsNothing

\* What is filed is a prompt.
LEMMA FiledIsPrompt ==
    ASSUME TypeOK, NEW c \in Clients, NEW n \in 1..MaxCalls, posts[c][n] # None
    PROVE  posts[c][n] \in Prompt /\ posts[c][n].host \in Host
<1>1. posts \in [Clients -> [1..MaxCalls -> Prompt \cup {None}]]
    BY DEF TypeOK
<1>2. posts[c] \in [1..MaxCalls -> Prompt \cup {None}]
    BY <1>1
<1>3. posts[c][n] \in Prompt
    BY <1>2
<1> QED
    BY <1>3 DEF Prompt

\* A prompt that is opened gets one more reader.
LEMMA OpenChanges ==
    ASSUME TypeOK, NEW c \in Clients, NEW n \in 1..MaxCalls, Open(c, n)
    PROVE  \E q \in Prompt :
             /\ posts[c][n] # None
             /\ q.host = posts[c][n].host /\ q.pin = posts[c][n].pin
             /\ q.answered = posts[c][n].answered
             /\ q.readers = posts[c][n].readers \cup {host}
             /\ posts' = [posts EXCEPT ![c][n] = q]
<1>1. posts[c][n] # None /\ host \in Host
    BY DEF Open, TypeOK
<1>5. posts[c][n] \in Prompt
    BY <1>1, FiledIsPrompt
<1>2. PICK q : q = [posts[c][n] EXCEPT !.readers = posts[c][n].readers \cup {host}]
    OBVIOUS
<1>3. /\ q \in Prompt
      /\ q.host = posts[c][n].host /\ q.pin = posts[c][n].pin
      /\ q.answered = posts[c][n].answered
      /\ q.readers = posts[c][n].readers \cup {host}
    BY <1>1, <1>2, <1>5 DEF Prompt
<1>4. posts' = [posts EXCEPT ![c][n] = q]
    BY <1>2 DEF Open
<1> QED
    BY <1>1, <1>3, <1>4

\* What is sent is the prompt of the current call, and nobody has opened it.
LEMMA PostChanges ==
    ASSUME TypeOK, NEW c \in Clients, Program(c), Fresh(c), PostSealed(c)
    PROVE  /\ calls[c] \in 1..MaxCalls
           /\ \E q \in Prompt :
                /\ q.host = quote[c].host /\ q.pin = pin[c]
                /\ q.answered = FALSE /\ q.readers = {}
                /\ posts' = [posts EXCEPT ![c][calls[c]] = q]
<1>1. calls[c] \in 1..MaxCalls /\ quote[c] \in Quote
    BY CallsNamed DEF PostSealed, Fresh, InHand, TypeOK
<1>2. PICK q : q = [host |-> quote[c].host, at |-> quote[c].at, pin |-> pin[c],
                    readers |-> {}, answered |-> FALSE]
    OBVIOUS
<1>3. q \in Prompt
    BY <1>1, <1>2 DEF Prompt, Quote, TypeOK
<1>4. posts' = [posts EXCEPT ![c][calls[c]] = q]
    BY <1>2 DEF PostSealed
<1> QED
    BY <1>1, <1>2, <1>3, <1>4

\* An answer is of a reader of the current prompt, and is taken or not.
LEMMA FinishChanges ==
    ASSUME TypeOK, NEW c \in Clients, Program(c), Prompts(c), Finish(c)
    PROVE  /\ calls[c] \in 1..MaxCalls
           /\ \E h \in posts[c][calls[c]].readers, q \in Prompt :
                /\ q.host = posts[c][calls[c]].host
                /\ q.pin = posts[c][calls[c]].pin
                /\ q.readers = posts[c][calls[c]].readers
                /\ q.answered <=> h.image.ident = Signer(c) /\ PinOk(c, h)
                /\ pc' = [pc EXCEPT ![c] = IF q.answered THEN "ok" ELSE "failed"]
                /\ posts' = [posts EXCEPT ![c][calls[c]] = q]
<1>0. calls[c] \in 1..MaxCalls /\ posts[c][calls[c]] # None
    BY CallsNamed DEF Finish, Prompts
<1>1. /\ calls[c] \in 1..MaxCalls
      /\ posts[c][calls[c]] \in Prompt
    BY <1>0, FiledIsPrompt
<1>2. PICK h \in posts[c][calls[c]].readers :
        LET accepted == h.image.ident = Signer(c) /\ PinOk(c, h) IN
        /\ pc' = [pc EXCEPT ![c] = IF accepted THEN "ok" ELSE "failed"]
        /\ posts' = [posts EXCEPT ![c][calls[c]].answered = accepted]
    BY DEF Finish
<1>3. PICK b \in BOOLEAN : b = (h.image.ident = Signer(c) /\ PinOk(c, h))
    OBVIOUS
<1>4. PICK q : q = [posts[c][calls[c]] EXCEPT !.answered = b]
    OBVIOUS
<1>5. /\ q \in Prompt /\ q.answered = b
      /\ q.host = posts[c][calls[c]].host /\ q.pin = posts[c][calls[c]].pin
      /\ q.readers = posts[c][calls[c]].readers
    BY <1>1, <1>3, <1>4 DEF Prompt
<1>6. /\ posts' = [posts EXCEPT ![c][calls[c]] = q]
      /\ pc' = [pc EXCEPT ![c] = IF b THEN "ok" ELSE "failed"]
    BY <1>2, <1>3, <1>4
<1> QED
    BY <1>1, <1>3, <1>5, <1>6

\* A step of a client leaves the others alone, and of the world all but what
\* a front end keeps.
LEMMA OthersUnchanged ==
    ASSUME TypeOK, NEW c \in Clients, Step(c)
    PROVE  /\ UNCHANGED <<now, host, fronted, kid, registry>>
           /\ \A d \in Clients : d # c =>
                /\ setup'[d] = setup[d] /\ pc'[d] = pc[d]
                /\ calls'[d] = calls[d] /\ pin'[d] = pin[d]
                /\ known'[d] = known[d] /\ quote'[d] = quote[d]
                /\ keys'[d] = keys[d] /\ posts'[d] = posts[d]
                /\ seen'[d] = seen[d]
<1> USE DEF TypeOK, worldVars
<1>1. CASE \E s \in Setups : Start(c, s)
    BY <1>1 DEF Start
<1>2. CASE Again(c)
    BY <1>2 DEF Again, NewCall
<1>3. CASE Rerun(c)
    BY <1>3 DEF Rerun, NewCall
<1>4. CASE \E n \in 1..MaxCalls : Open(c, n)
    BY <1>4 DEF Open
<1>5. CASE ResolveExpected(c) \/ Exchange(c) \/ ReadRegistry(c)
    BY <1>5 DEF ResolveExpected, Exchange, ReadRegistry
<1>6. CASE Probe(c)
    BY <1>6 DEF Probe
<1>7. CASE Attest(c)
    BY <1>7 DEF Attest
<1>8. CASE Bind(c) \/ GetNonce(c) \/ Appraise(c) \/ Finish(c) \/ Unanswered(c)
    BY <1>8 DEF Bind, GetNonce, Appraise, Finish, Unanswered
<1>9. CASE Judge(c)
    BY <1>9 DEF Judge
<1>10. CASE PostSealed(c) \/ PostPlain(c)
    BY <1>10 DEF PostSealed, PostPlain
<1> QED
    BY <1>1, <1>2, <1>3, <1>4, <1>5, <1>6, <1>7, <1>8, <1>9, <1>10
       DEF Step, Request

\* TypeOK is kept by a client's steps.
LEMMA StepTyped ==
    ASSUME TypeOK, NEW c \in Clients, Step(c), Program(c), Fresh(c), Prompts(c)
    PROVE  TypeOK'
<1> USE DEF TypeOK, worldVars, Waiting
<1>1. ASSUME NEW s \in Setups, Start(c, s)
      PROVE  TypeOK'
    <2>1. s.pin \in Builds \cup {None} /\ 1 \in 0..MaxCalls
        BY SetupsTyped, ClientAssumption DEF Setup
    <2>2. FirstStep(s) \in Waiting
        BY DEF FirstStep
    <2> QED
        BY <1>1, <2>1, <2>2 DEF Start
<1>2. CASE Again(c) \/ Rerun(c)
    <2>1. setup[c] \in Setups => setup[c].pin \in Builds \cup {None}
        BY SetupsTyped DEF Setup
    <2>2. NewCall(c) => calls[c] + 1 \in 0..MaxCalls
        BY ClientAssumption DEF NewCall
    <2>3. [i \in Issuers |-> {}] \in [Issuers -> SUBSET Nat]
        OBVIOUS
    <2>4. NewCall(c) => setup[c] \in Setups
        BY DEF NewCall, Program
    <2>5. pc' \in [Clients -> Waiting \cup {"idle", "ok", "failed"}]
        BY <1>2 DEF Again, Rerun, FirstStep
    <2>6. /\ pin' \in [Clients -> Builds \cup {None}]
          /\ keys' \in [Clients -> [Issuers -> SUBSET Nat]]
        <3>1. CASE Again(c)
            BY <3>1 DEF Again
        <3>2. CASE Rerun(c)
            <4>1. setup[c].pin \in Builds \cup {None}
                BY <3>2, <2>1, <2>4 DEF Rerun
            <4> QED
                BY <3>2, <4>1, <2>3 DEF Rerun
        <3> QED
            BY <1>2, <3>1, <3>2
    <2>7. NewCall(c)
        BY <1>2 DEF Again, Rerun
    <2> QED
        BY <2>2, <2>5, <2>6, <2>7 DEF NewCall
<1>3. ASSUME NEW n \in 1..MaxCalls, Open(c, n)
      PROVE  TypeOK'
    <2>1. posts' \in [Clients -> [1..MaxCalls -> Prompt \cup {None}]]
        <3>1. PICK q \in Prompt : posts' = [posts EXCEPT ![c][n] = q]
            BY <1>3, OpenChanges
        <3> QED
            BY <3>1, Entry
    <2> QED
        BY <1>3, <2>1 DEF Open
<1>4. CASE ResolveExpected(c) \/ Exchange(c) \/ ReadRegistry(c)
    <2>1. CASE ResolveExpected(c)
        BY <2>1 DEF ResolveExpected, Published
    <2>2. CASE Exchange(c)
        BY <2>2 DEF Exchange, Published
    <2>3. CASE ReadRegistry(c)
        BY <2>3 DEF ReadRegistry
    <2> QED
        BY <1>4, <2>1, <2>2, <2>3
<1>5. CASE Probe(c)
    <2>1. PICK q \in Attestations([by |-> None, n |-> 0]) :
            LET b == q.host.image.build IN
            /\ cached' = IF fronted THEN q ELSE cached
            /\ pin' = [pin EXCEPT ![c] = IF known[c][b] # None THEN b ELSE None]
            /\ pc' = [pc EXCEPT ![c] =
                         IF known[c][b] # None THEN "attest" ELSE "failed"]
        BY <1>5 DEF Probe
    <2>2. q \in Quote
        BY AttestationsTyped, NoncesTyped
    <2>3. q.host.image.build \in Builds
        BY <2>2, ClientAssumption DEF Quote, Host, Image
    <2> QED
        BY <1>5, <2>1, <2>2, <2>3 DEF Probe
<1>6. CASE Attest(c)
    <2>1. Attestations([by |-> c, n |-> calls[c]]) \subseteq Quote
        BY AttestationsTyped, NoncesTyped
    <2> QED
        BY <1>6, <2>1 DEF Attest
<1>7. CASE Bind(c) \/ GetNonce(c)
    BY <1>7 DEF Bind, GetNonce, AfterBind, Trusted
<1>8. CASE Appraise(c)
    <2>1. kid["intel"] \in Nat /\ now + TokenTTL \in Nat
        BY ClientAssumption DEF Issuers
    <2>2. [quote[c] EXCEPT !.kid = kid["intel"], !.exp = now + TokenTTL]
            \in Quote \cup {None}
        BY <1>8, <2>1 DEF Appraise, Fresh, InHand, Quote
    <2> QED
        BY <1>8, <2>1, <2>2 DEF Appraise
<1>9. CASE Judge(c)
    <2>1. \A i \in Issuers : KeysOf(c, i) \in SUBSET Nat
        BY DEF KeysOf, Jwks
    <2>2. Issuer(quote[c]) \in Issuers
        BY DEF Issuer, Issuers
    <2> QED
        BY <1>9, <2>1, <2>2 DEF Judge, Trusted
<1>10. CASE PostSealed(c) \/ PostPlain(c)
    <2>1. ASSUME PostSealed(c)
          PROVE  posts' \in [Clients -> [1..MaxCalls -> Prompt \cup {None}]]
        <3>1. PICK q \in Prompt : posts' = [posts EXCEPT ![c][calls[c]] = q]
            BY <2>1, PostChanges
        <3>2. calls[c] \in 1..MaxCalls
            BY <2>1, PostChanges
        <3> QED
            BY <3>1, <3>2, Entry
    <2> QED
        BY <1>10, <2>1 DEF PostSealed, PostPlain
<1>11. CASE Finish(c) \/ Unanswered(c)
    <2>1. ASSUME Finish(c)
          PROVE  posts' \in [Clients -> [1..MaxCalls -> Prompt \cup {None}]]
        <3>1. PICK h \in posts[c][calls[c]].readers, q \in Prompt :
                posts' = [posts EXCEPT ![c][calls[c]] = q]
            BY <2>1, FinishChanges
        <3>2. calls[c] \in 1..MaxCalls
            BY <2>1, FinishChanges
        <3> QED
            BY <3>1, <3>2, Entry
    <2> QED
        BY <1>11, <2>1 DEF Finish, Unanswered
<1> QED
    BY <1>1, <1>2, <1>3, <1>4, <1>5, <1>6, <1>7, <1>8, <1>9, <1>10, <1>11
       DEF Step, Request

\* And by the world's.
LEMMA WorldTyped ==
    ASSUME TypeOK, World
    PROVE  TypeOK'
<1> USE DEF TypeOK
<1>1. CASE Tick
    BY <1>1, ClientAssumption DEF Tick, clientVars
<1>2. ASSUME NEW image \in Images, Redeploy(image)
      PROVE  TypeOK'
    <2>1. host' \in Host
        BY <1>2, ClientAssumption DEF Redeploy, Host
    <2> QED
        BY <1>2, <2>1 DEF Redeploy, Changed
<1>3. CASE MoveFront
    <2>1. fronted' \in BOOLEAN /\ host' \in Host
        BY <1>3 DEF MoveFront
    <2>2. [host |-> host', fronted |-> fronted'] \in [host: Host, fronted: BOOLEAN]
        BY <2>1
    <2>3. seen' \in [Clients -> SUBSET [host: Host, fronted: BOOLEAN]]
        BY <1>3, <2>2 DEF MoveFront, Changed
    <2> QED
        BY <1>3, <2>1, <2>3 DEF MoveFront
<1>4. ASSUME NEW i \in Issuers, Rotate(i)
      PROVE  TypeOK'
    BY <1>4 DEF Rotate, clientVars
<1>5. ASSUME NEW r \in Registries, Publish(r)
      PROVE  TypeOK'
    BY <1>5 DEF Publish, clientVars
<1> QED
    BY <1>1, <1>2, <1>3, <1>4, <1>5 DEF World

-----------------------------------------------------------------------------
\* The invariant of the others is kept.

\* What is answered is new, and of the enclave at the address, or was kept.
LEMMA AttestationsKnown ==
    ASSUME NEW nonce, NEW q \in Attestations(nonce)
    PROVE  \/ fronted /\ cached # None /\ q = cached
           \/ q.nonce = nonce /\ q.host = host
BY DEF Attestations, Attested

\* A front end keeps what it passed on.
LEMMA CacheKept ==
    ASSUME NEW c \in Clients, Step(c)
    PROVE  \/ cached' = cached
           \/ /\ cached'.host = host
              /\ cached'.nonce \in {[by |-> c, n |-> calls[c]],
                                    [by |-> None, n |-> 0]}
<1>1. CASE Probe(c)
    BY <1>1, AttestationsKnown DEF Probe
<1>2. CASE Attest(c)
    BY <1>2, AttestationsKnown DEF Attest
<1>3. CASE ~Probe(c) /\ ~Attest(c)
    BY <1>3 DEF Step, Request, Start, Again, Rerun, NewCall, Open,
        ResolveExpected, Exchange, ReadRegistry, Bind, GetNonce, Appraise,
        Judge, PostSealed, PostPlain, Finish, Unanswered, worldVars
<1> QED
    BY <1>1, <1>2, <1>3

\* Another client's step changes nothing that is known of d.
LEMMA OthersGood ==
    ASSUME Inv, NEW c \in Clients, Step(c), NEW d \in Clients, d # c
    PROVE  Good(d)'
<1>1. /\ UNCHANGED <<now, host, fronted, kid, registry>>
      /\ setup'[d] = setup[d] /\ pc'[d] = pc[d]
      /\ calls'[d] = calls[d] /\ pin'[d] = pin[d]
      /\ known'[d] = known[d] /\ quote'[d] = quote[d]
      /\ keys'[d] = keys[d] /\ posts'[d] = posts[d]
      /\ seen'[d] = seen[d]
    BY OthersUnchanged DEF Inv
<1>2. Good(d)
    BY DEF Inv
<1>3. (Program(d) /\ Listed(d))'
    BY <1>1, <1>2 DEF Good, Program, Listed
<1>4. (Fresh(d) /\ Pinned(d) /\ Unfronted(d))'
    BY <1>1, <1>2 DEF Good, Fresh, Pinned, Unfronted, PinOk
<1>5. (Prompts(d) /\ RightIdentity(d))'
    BY <1>1, <1>2 DEF Good, Prompts, Filed, Past, RightIdentity, Seals
<1>6. Witnessed(d)'
    <2>1. CASE cached' = cached
        BY <1>1, <1>2, <2>1 DEF Good, Witnessed, Current
    <2>2. CASE cached'.nonce \in {[by |-> c, n |-> calls[c]],
                                  [by |-> None, n |-> 0]}
        <3>1. cached'.nonce.by # d
            BY <2>2, NoneIsNothing
        <3> QED
            BY <1>1, <1>2, <3>1 DEF Good, Witnessed, Current
    <2> QED
        BY <2>1, <2>2, CacheKept
<1>7. Boots(d)'
    <2>1. Past(host)
        BY DEF Past, Inv, TypeOK, Host
    <2> QED
        BY <1>1, <1>2, <2>1, CacheKept DEF Good, Boots, Past
<1> QED
    BY <1>3, <1>4, <1>5, <1>6, <1>7 DEF Good

-----------------------------------------------------------------------------
\* The world keeps it.

LEMMA WorldGood ==
    ASSUME Inv, World, NEW c \in Clients
    PROVE  Good(c)'
<1>1. /\ UNCHANGED <<setup, pc, calls, pin, known, quote, keys, posts>>
      /\ cached' \in {cached, None}
      /\ seen[c] \subseteq seen'[c]
      /\ host'.boot >= host.boot
      /\ host'.boot = host.boot => host' = host
      /\ pc[c] \in Waiting => Current' \in seen'[c]
    <2>1. CASE Tick \/ (\E i \in Issuers : Rotate(i))
               \/ (\E r \in Registries : Publish(r))
        <3>1. UNCHANGED <<clientVars, host, fronted, cached>>
            BY <2>1 DEF Tick, Rotate, Publish
        <3>2. host.boot \in Nat
            BY DEF Inv, TypeOK, Host
        <3> QED
            BY <3>1, <3>2 DEF clientVars, Inv, Good, Witnessed, Current
    <2>2. CASE \E image \in Images : Redeploy(image)
        <3>1. host'.boot = host.boot + 1 /\ host.boot \in Nat
            BY <2>2 DEF Redeploy, Inv, TypeOK, Host
        <3> QED
            BY <2>2, <3>1 DEF Redeploy, Changed, Current
    <2>3. CASE MoveFront
        <3>1. host.boot \in Nat
            BY DEF Inv, TypeOK, Host
        <3> QED
            BY <2>3, <3>1 DEF MoveFront, Changed, Current
    <2> QED
        BY <2>1, <2>2, <2>3 DEF World
<1>2. Good(c)
    BY DEF Inv
<1>3. (Program(c) /\ Listed(c))'
    BY <1>1, <1>2 DEF Good, Program, Listed
<1>4. (Fresh(c) /\ Pinned(c) /\ Unfronted(c))'
    BY <1>1, <1>2 DEF Good, Fresh, Pinned, Unfronted, PinOk
<1>5. RightIdentity(c)'
    BY <1>1, <1>2 DEF Good, RightIdentity, Seals
<1>6. Witnessed(c)'
    <2>1. (pc[c] \in Waiting)' => (Current \in seen[c])'
        BY <1>1 DEF Waiting
    <2>2. ASSUME cached' # None, cached'.nonce.by = c
          PROVE  /\ cached'.nonce.n <= calls'[c]
                 /\ cached'.nonce.n = calls'[c] =>
                       \E s \in seen'[c] : s.host = cached'.host
        <3>1. cached' = cached /\ calls' = calls
            BY <1>1, <2>2
        <3> QED
            BY <1>1, <1>2, <2>2, <3>1 DEF Good, Witnessed
    <2> QED
        BY <2>1, <2>2 DEF Witnessed
<1>7. ASSUME NEW h \in Host, Past(h) PROVE Past(h)'
    <2>1. TypeOK /\ TypeOK'
        BY WorldTyped DEF Inv
    <2>2. host \in Host /\ host' \in Host
        BY <2>1 DEF TypeOK
    <2>3. h.boot \in Int /\ host.boot \in Int /\ host'.boot \in Int
        BY <2>2 DEF Host
    <2> QED
        BY <1>1, <1>7, <2>3 DEF Past
<1>8. Boots(c)'
    <2>1. cached # None => cached.host \in Host
        BY DEF Inv, TypeOK, Quote
    <2>2. quote[c] # None => quote[c].host \in Host
        BY DEF Inv, TypeOK, Quote
    <2> QED
        BY <1>1, <1>2, <1>7, <2>1, <2>2 DEF Good, Boots
<1>9. Prompts(c)'
    <2>1. ASSUME NEW n \in 1..MaxCalls
          PROVE  Filed(c, n)'
        <3>1. posts[c][n] # None => posts[c][n].host \in Host
            BY FiledIsPrompt DEF Inv
        <3>2. Filed(c, n)
            BY <1>2 DEF Good, Prompts
        <3> QED
            BY <1>1, <1>7, <3>1, <3>2 DEF Filed
    <2>2. (pc[c] = "posted" =>
             posts[c][calls[c]] # None /\ ~posts[c][calls[c]].answered)'
        BY <1>1, <1>2 DEF Good, Prompts
    <2> QED
        BY <2>1, <2>2 DEF Prompts
<1> QED
    BY <1>3, <1>4, <1>5, <1>6, <1>8, <1>9 DEF Good

-----------------------------------------------------------------------------
\* The client's own steps keep it.

\* Where a program starts: with its pin, or without one.
LEMMA FirstSteps ==
    ASSUME NEW s \in Setups
    PROVE  \/ FirstStep(s) = "attest" /\ s.prog = "sdk"
           \/ FirstStep(s) = "resolve" /\ s.pin = None
BY ClientAssumption DEF FirstStep

\* What was sent stays filed while nothing is sent or opened, whether the call
\* goes on before it has sent its own, or ends.
LEMMA PromptsKept ==
    ASSUME TypeOK, NEW c \in Clients, Prompts(c),
           UNCHANGED <<host, posts>>,
           \/ calls'[c] = calls[c] + 1 /\ pc'[c] # "posted"
           \/ calls'[c] = calls[c] /\ pc'[c] \in {"ok", "failed"}
           \/ calls'[c] = calls[c] /\ pc[c] \in Waiting \ {"posted"}
              /\ pc'[c] # "posted"
    PROVE  Prompts(c)'
<1>1. ASSUME NEW n \in 1..MaxCalls
      PROVE  Filed(c, n)'
    <2>1. Filed(c, n) /\ calls[c] \in Int
        BY DEF Prompts, TypeOK
    <2> QED
        BY <2>1 DEF Filed, Past, Waiting
<1>2. pc'[c] # "posted"
    OBVIOUS
<1> QED
    BY <1>1, <1>2 DEF Prompts

\* A call begins with nothing in hand.
LEMMA BeginGood ==
    ASSUME Inv, NEW c \in Clients,
           (\E s \in Setups : Start(c, s)) \/ Again(c) \/ Rerun(c)
    PROVE  Good(c)'
<1>0. TypeOK /\ Good(c)
    BY DEF Inv
<1>1. /\ UNCHANGED <<host, fronted, cached>>
      /\ calls'[c] = calls[c] + 1
      /\ seen'[c] = {Current}
      /\ posts' = posts
      /\ quote'[c] \in {quote[c], None}
    <2>1. ASSUME NEW s \in Setups, Start(c, s)
          PROVE  <1>1!:
        BY <1>0, <2>1 DEF Start, TypeOK, Good, Program, worldVars, Current
    <2>2. CASE NewCall(c)
        BY <1>0, <2>2 DEF NewCall, TypeOK, worldVars, Current
    <2> QED
        BY <2>1, <2>2 DEF Again, Rerun
<1>2. /\ setup'[c] \in Setups
      /\ \/ pc'[c] = "attest" /\ setup'[c].prog = "sdk"
         \/ pc'[c] = "resolve" /\ pin'[c] = None
    <2>1. ASSUME NEW s \in Setups, Start(c, s)
          PROVE  <1>2!:
        BY <1>0, <2>1, FirstSteps DEF Start, TypeOK
    <2>2. NewCall(c) => setup[c] \in Setups /\ setup' = setup
        BY <1>0 DEF NewCall, Good, Program, TypeOK
    <2>3. CASE Again(c)
        BY <1>0, <2>2, <2>3 DEF Again, TypeOK
    <2>4. CASE Rerun(c)
        BY <1>0, <2>2, <2>4, FirstSteps DEF Rerun, TypeOK
    <2> QED
        BY <2>1, <2>3, <2>4
<1>3. setup'[c] # None
    BY <1>2, NoneIsNothing
<1>4. (Program(c) /\ Listed(c))'
    <2>1. calls[c] \in Nat
        BY <1>0 DEF TypeOK
    <2> QED
        BY <1>1, <1>2, <1>3, <2>1 DEF Program, Listed, InHand
<1>5. (Fresh(c) /\ Pinned(c) /\ Unfronted(c))'
    BY <1>2 DEF Fresh, Pinned, Unfronted, InHand, Bound, Judged
<1>6. (Prompts(c) /\ RightIdentity(c))'
    BY <1>0, <1>1, <1>2, PromptsKept DEF RightIdentity, Good
<1>7. Witnessed(c)'
    <2>1. cached # None /\ cached.nonce.by = c => cached.nonce.n \in Int
        BY <1>0 DEF TypeOK, Quote, Nonce
    <2>2. calls[c] \in Int
        BY <1>0 DEF TypeOK
    <2> QED
        BY <1>0, <1>1, <2>1, <2>2 DEF Good, Witnessed, Current
<1>8. Boots(c)'
    BY <1>0, <1>1 DEF Good, Boots, Past
<1> QED
    BY <1>4, <1>5, <1>6, <1>7, <1>8 DEF Good

\* A live session is of the attested boot, which is the enclave there.
LEMMA AliveIsAttested ==
    ASSUME NEW q, Past(q.host), SessionAlive(q)
    PROVE  host = q.host
BY DEF Past, SessionAlive

\* Who opens a prompt is whom it was sealed to, however late.
LEMMA OpenGood ==
    ASSUME Inv, NEW c \in Clients, NEW n \in 1..MaxCalls, Open(c, n)
    PROVE  Good(c)'
<1>0. TypeOK /\ Good(c)
    BY DEF Inv
<1>1. UNCHANGED <<worldVars, setup, pc, calls, pin, known, quote, keys, seen>>
    BY DEF Open
<1>2. (/\ Program(c) /\ Listed(c) /\ Fresh(c) /\ Pinned(c) /\ Unfronted(c)
       /\ Witnessed(c) /\ Boots(c))'
    BY <1>0, <1>1 DEF Good, Program, Listed, Fresh, Pinned, PinOk, Unfronted,
        Witnessed, Current, Boots, Past, worldVars
<1>3. Filed(c, n) /\ posts[c][n] # None
    BY <1>0 DEF Good, Prompts, Open
<1>4. host = posts[c][n].host
    BY <1>3, AliveIsAttested DEF Filed, Open
<1>5. PICK q \in Prompt :
         /\ q.host = posts[c][n].host /\ q.pin = posts[c][n].pin
         /\ q.answered = posts[c][n].answered
         /\ q.readers = posts[c][n].readers \cup {host}
         /\ posts' = [posts EXCEPT ![c][n] = q]
    BY <1>0, OpenChanges
<1>6. /\ posts'[c][n] = q /\ posts'[c][n] # None
      /\ \A m \in 1..MaxCalls : m # n => posts'[c][m] = posts[c][m]
    BY <1>0, <1>5, Entry
<1>7. q.readers = {q.host}
    BY <1>3, <1>4, <1>5 DEF Filed
<1>8. ASSUME NEW m \in 1..MaxCalls
      PROVE  Filed(c, m)'
    <2>1. CASE m = n
        BY <1>1, <1>3, <1>5, <1>6, <1>7, <2>1 DEF Filed, Past, worldVars
    <2>2. CASE m # n
        BY <1>0, <1>1, <1>6, <2>2 DEF Good, Prompts, Filed, Past, worldVars
    <2> QED
        BY <2>1, <2>2
<1>9. pc[c] # "idle" => calls[c] \in 1..MaxCalls
    BY <1>0, CallsNamed DEF Good
<1>10. (pc[c] = "posted" =>
          posts[c][calls[c]] # None /\ ~posts[c][calls[c]].answered)'
    BY <1>0, <1>1, <1>5, <1>6, <1>9 DEF Good, Prompts
<1>11. RightIdentity(c)'
    <2>1. CASE calls[c] = n
        <3>1. posts[c][n].answered => posts[c][n].readers = {host}
            BY <1>3, <1>4 DEF Filed
        <3> QED
            BY <1>0, <1>1, <1>5, <1>6, <2>1, <3>1 DEF Good, RightIdentity, Seals
    <2>2. CASE calls[c] # n
        BY <1>0, <1>1, <1>6, <1>9, <2>2 DEF Good, RightIdentity, Seals
    <2> QED
        BY <2>1, <2>2
<1> QED
    BY <1>2, <1>8, <1>10, <1>11 DEF Good, Prompts

\* What stood at the address during the call stays on record.
LEMMA RequestWitnessed ==
    ASSUME Inv, NEW c \in Clients, Request(c)
    PROVE  Witnessed(c)'
<1>0. TypeOK /\ Good(c) /\ Step(c)
    BY DEF Inv, Step
<1>1. UNCHANGED <<host, fronted, seen, calls>> /\ pc[c] \in Waiting
    BY DEF Request, ResolveExpected, Exchange, ReadRegistry, Probe, Attest,
        Bind, GetNonce, Appraise, Judge, PostSealed, PostPlain, Finish,
        Unanswered, worldVars, Waiting
<1>2. Current \in seen[c]
    BY <1>0, <1>1 DEF Good, Witnessed
<1>3. CASE cached' = cached
    BY <1>0, <1>1, <1>2, <1>3 DEF Good, Witnessed, Current
<1>4. CASE /\ cached'.host = host
           /\ cached'.nonce \in {[by |-> c, n |-> calls[c]],
                                 [by |-> None, n |-> 0]}
    <2>1. cached'.nonce.by = c => cached'.nonce.n = calls[c]
        BY <1>4, NoneIsNothing
    <2>2. calls[c] <= calls[c]
        BY <1>0 DEF TypeOK
    <2>3. Current.host = cached'.host
        BY <1>4 DEF Current
    <2> QED
        BY <1>1, <1>2, <2>1, <2>2, <2>3 DEF Witnessed, Current
<1> QED
    BY <1>0, <1>3, <1>4, CacheKept

\* Before the attestation there is a pin, a registry or a failure.
LEMMA ResolveGood ==
    ASSUME Inv, NEW c \in Clients,
           \/ ResolveExpected(c) \/ Exchange(c) \/ ReadRegistry(c) \/ Probe(c)
           \/ Unanswered(c)
    PROVE  Good(c)'
<1>0. TypeOK /\ Good(c) /\ Witnessed(c)'
    BY RequestWitnessed DEF Inv, Request
<1>1. /\ UNCHANGED <<host, fronted, setup, calls, quote, posts, seen>>
      /\ pc[c] \in Waiting
    BY DEF ResolveExpected, Exchange, ReadRegistry, Probe, Unanswered,
        worldVars, Waiting
<1>2. pc'[c] \in {"attest", "probe", "failed"}
    BY <1>0 DEF ResolveExpected, Exchange, ReadRegistry, Probe, Unanswered,
        TypeOK
<1>3. setup'[c] # None
    BY <1>0, <1>1 DEF Good, Program, Waiting
<1>4. Boots(c)'
    <2>1. Past(host)
        BY <1>0 DEF Past, TypeOK, Host
    <2>2. Step(c)
        BY DEF Step, Request
    <2> QED
        BY <1>0, <1>1, <2>1, <2>2, CacheKept DEF Good, Boots, Past
<1>5. (Fresh(c) /\ Pinned(c) /\ Unfronted(c) /\ RightIdentity(c))'
    BY <1>2 DEF Fresh, Pinned, Unfronted, RightIdentity, InHand, Bound, Judged
<1>7. Prompts(c)'
    <2>1. pc'[c] = "failed" \/ pc[c] \in {"resolve", "probe"}
        BY <1>0 DEF ResolveExpected, Exchange, ReadRegistry, Probe, Unanswered,
            TypeOK
    <2> QED
        BY <1>0, <1>1, <1>2, <2>1, PromptsKept DEF Good, Waiting
<1>6. calls'[c] # 0
    BY <1>0, <1>1 DEF Good, Program, Waiting
<1>8. (Program(c) /\ Listed(c))'
    <2>1. CASE ResolveExpected(c) \/ Exchange(c)
        <3>1. pc'[c] = "attest" /\ setup'[c].prog # "verify"
            BY <1>0, <1>1, <2>1 DEF ResolveExpected, Exchange, TypeOK
        <3> QED
            BY <1>3, <1>6, <3>1 DEF Program, Listed
    <2>2. CASE ReadRegistry(c)
        <3>1. registry # None
            BY <1>0, NoneIsNothing DEF TypeOK
        <3> QED
            BY <1>0, <1>1, <1>3, <1>6, <2>2, <3>1 DEF Program, Listed, InHand,
                TypeOK, ReadRegistry
    <2>3. CASE Probe(c)
        <3>1. PICK q \in Attestations([by |-> None, n |-> 0]) :
                LET b == q.host.image.build IN
                /\ pin' = [pin EXCEPT ![c] =
                             IF known[c][b] # None THEN b ELSE None]
                /\ pc' = [pc EXCEPT ![c] =
                             IF known[c][b] # None THEN "attest" ELSE "failed"]
            BY <2>3 DEF Probe
        <3>2. q.host.image.build \in Builds
            <4>1. q \in Quote
                BY <1>0, AttestationsTyped, NoncesTyped
            <4> QED
                BY <4>1, ClientAssumption DEF Quote, Host, Image
        <3>3. known[c] # None /\ known' = known
            BY <1>0, <2>3 DEF Good, Program, Probe
        <3>4. Listed(c)'
            BY <1>0, <3>1, <3>2, <3>3, NoneIsNothing DEF Listed, InHand, TypeOK
        <3> QED
            BY <1>0, <1>3, <1>6, <3>1, <3>4 DEF Program, TypeOK
    <2>4. CASE Unanswered(c)
        BY <1>0, <1>3, <1>6, <2>4 DEF Unanswered, Program, Listed, InHand, TypeOK
    <2> QED
        BY <2>1, <2>2, <2>3, <2>4
<1> QED
    BY <1>0, <1>4, <1>5, <1>7, <1>8 DEF Good

\* An attestation that echoes the nonce of this call was made during it.
LEMMA AttestGood ==
    ASSUME Inv, NEW c \in Clients, Attest(c)
    PROVE  Good(c)'
<1>0. TypeOK /\ Good(c) /\ Witnessed(c)'
    BY RequestWitnessed DEF Inv, Request
<1>1. /\ UNCHANGED <<host, fronted, setup, calls, pin, known, posts, seen>>
      /\ pc[c] = "attest"
    BY DEF Attest
<1>2. PICK q \in Attestations([by |-> c, n |-> calls[c]]) :
        /\ cached' = IF fronted THEN q ELSE cached
        /\ quote' = [quote EXCEPT ![c] = q]
        /\ pc' = [pc EXCEPT ![c] = IF Opening(c, q) THEN "bind" ELSE "failed"]
    BY DEF Attest
<1>3. q \in Quote /\ q # None
    BY <1>0, AttestationsTyped, NoncesTyped, NoneIsNothing
<1>4. quote'[c] = q /\ pc'[c] = IF Opening(c, q) THEN "bind" ELSE "failed"
    BY <1>0, <1>2 DEF TypeOK
<1>5. Past(host)
    BY <1>0 DEF Past, TypeOK, Host
<1>6. Past(q.host)
    BY <1>0, <1>5, AttestationsKnown DEF Good, Boots
<1>7. Boots(c)'
    BY <1>0, <1>1, <1>2, <1>4, <1>6 DEF Good, Boots, Past
<1>8. Echoed(c, q) => \E s \in seen[c] : s.host = q.host
    <2>1. CASE fronted /\ cached # None /\ q = cached
        <3>1. ASSUME Echoed(c, q)
              PROVE  cached.nonce.by = c /\ cached.nonce.n = calls[c]
            BY <2>1, <3>1 DEF Echoed
        <3> QED
            BY <1>0, <2>1, <3>1 DEF Good, Witnessed
    <2>2. CASE q.host = host
        <3>1. Current \in seen[c] /\ Current.host = q.host
            BY <1>0, <1>1, <2>2 DEF Good, Witnessed, Current, Waiting
        <3> QED
            BY <3>1
    <2> QED
        BY <2>1, <2>2, AttestationsKnown
<1>9. Fresh(c)'
    BY <1>1, <1>3, <1>4, <1>8 DEF Fresh, InHand, Opening
<1>10. Pinned(c)'
    BY <1>1, <1>4 DEF Pinned, PinOk, Opening, Judged
<1>11. (Program(c) /\ Listed(c) /\ Unfronted(c))'
    BY <1>0, <1>1, <1>4 DEF Good, Program, Listed, Unfronted, Bound, InHand
<1>12. (Prompts(c) /\ RightIdentity(c))'
    BY <1>0, <1>1, <1>4, PromptsKept DEF Good, RightIdentity, Waiting
<1> QED
    BY <1>0, <1>7, <1>9, <1>10, <1>11, <1>12 DEF Good

\* A key that is the attested one is not a front end's.
LEMMA PeerMet ==
    ASSUME TypeOK, NEW c \in Clients, PeerOk(c), quote[c] \in Quote,
           setup[c].https, quote[c].host.image.tls # "none"
    PROVE  ~fronted /\ TlsKey(host) = TlsKey(quote[c].host)
<1>1. Presented = TlsKey(quote[c].host)
    BY DEF PeerOk
<1>2. TlsKey(quote[c].host) >= 0
    <2>1. quote[c].host.boot \in Nat
        BY DEF Quote, Host
    <2> QED
        BY <2>1 DEF TlsKey
<1> QED
    BY <1>1, <1>2 DEF Presented, TypeOK

\* The TLS check, the appraisal and the verdict.
LEMMA VerifyGood ==
    ASSUME Inv, NEW c \in Clients,
           Bind(c) \/ GetNonce(c) \/ Appraise(c) \/ Judge(c)
    PROVE  Good(c)'
<1>0. TypeOK /\ Good(c) /\ Witnessed(c)'
    BY RequestWitnessed DEF Inv, Request
<1>1. /\ UNCHANGED <<host, fronted, cached, setup, calls, pin, known, posts,
                     seen>>
      /\ pc[c] \in {"bind", "nonce", "appraise", "judge"}
      /\ quote'[c].host = quote[c].host /\ quote'[c] # None
      /\ quote[c] # None /\ quote[c] \in Quote
    <2>1. quote[c] \in Quote /\ quote[c] # None
        BY <1>0 DEF Bind, GetNonce, Appraise, Judge, Good, Fresh, InHand, TypeOK
    <2>2. CASE Bind(c) \/ GetNonce(c) \/ Judge(c)
        BY <2>1, <2>2 DEF Bind, GetNonce, Judge, worldVars
    <2>3. CASE Appraise(c)
        <3>1. quote'[c] = [quote[c] EXCEPT !.kid = kid["intel"],
                                           !.exp = now + TokenTTL]
            BY <1>0, <2>3 DEF Appraise, TypeOK
        <3>2. quote'[c].host = quote[c].host
            BY <2>1, <3>1 DEF Quote
        <3>3. quote'[c] \in Quote
            <4>1. kid["intel"] \in Nat /\ now + TokenTTL \in Nat
                BY <1>0, ClientAssumption DEF Issuers, TypeOK
            <4> QED
                BY <2>1, <3>1, <4>1 DEF Quote
        <3> QED
            BY <2>1, <2>3, <3>2, <3>3, NoneIsNothing DEF Appraise, worldVars
    <2> QED
        BY <2>2, <2>3
<1>2. /\ pc'[c] \in {"nonce", "appraise", "judge", "trusted", "ok", "failed"}
      /\ pc'[c] = "trusted" => setup[c].prog # "verify"
      /\ pc'[c] = "ok" => setup[c].prog = "verify"
    BY <1>0 DEF Bind, GetNonce, Appraise, Judge, AfterBind, Trusted, TypeOK
<1>3. pc'[c] \in Judged => PinOk(c, quote[c].host)
    <2>1. CASE Bind(c)
        BY <1>0, <2>1 DEF Bind, AfterBind, TdxOk, Good, Pinned, Judged, TypeOK
    <2>2. CASE GetNonce(c) \/ Appraise(c)
        BY <1>0, <2>2 DEF GetNonce, Appraise, Judged, TypeOK
    <2>3. CASE Judge(c)
        BY <1>0, <2>3 DEF Judge, TokenOk, Judged, TypeOK
    <2> QED
        BY <2>1, <2>2, <2>3
<1>4. (Program(c) /\ Listed(c))'
    BY <1>0, <1>1, <1>2 DEF Good, Program, Listed, InHand
<1>5. (Fresh(c) /\ Pinned(c))'
    BY <1>0, <1>1, <1>2, <1>3 DEF Good, Fresh, Pinned, PinOk, InHand
<1>6. Unfronted(c)'
    <2>1. CASE Bind(c) /\ pc'[c] # "failed" /\ setup[c].https
               /\ quote[c].host.image.tls # "none"
        <3>1. PeerOk(c)
            BY <1>0, <2>1 DEF Bind, TypeOK
        <3>2. ~fronted /\ TlsKey(host) = TlsKey(quote[c].host)
            BY <1>0, <1>1, <2>1, <3>1, PeerMet
        <3>3. Current \in seen[c]
            BY <1>0, <1>1 DEF Good, Witnessed, Waiting
        <3>4. /\ ~Current.fronted
              /\ TlsKey(Current.host) = TlsKey(quote[c].host)
            BY <3>2 DEF Current
        <3> QED
            BY <1>1, <3>3, <3>4 DEF Unfronted
    <2>2. CASE GetNonce(c) \/ Appraise(c) \/ Judge(c)
        BY <1>0, <1>1, <2>2 DEF Good, Unfronted, Bound, InHand, GetNonce,
            Appraise, Judge
    <2> QED
        BY <1>1, <1>2, <2>1, <2>2 DEF Unfronted, Bound, InHand
<1>7. (Prompts(c) /\ RightIdentity(c))'
    BY <1>0, <1>1, <1>2, PromptsKept DEF Good, RightIdentity, Waiting, Seals
<1>8. Boots(c)'
    BY <1>0, <1>1 DEF Good, Boots, Past
<1> QED
    BY <1>0, <1>4, <1>5, <1>6, <1>7, <1>8 DEF Good

\* The prompt is sent.
LEMMA CallGood ==
    ASSUME Inv, NEW c \in Clients, PostSealed(c) \/ PostPlain(c)
    PROVE  Good(c)'
<1>0. TypeOK /\ Good(c) /\ Witnessed(c)'
    BY RequestWitnessed DEF Inv, Request
<1>1. /\ UNCHANGED <<host, fronted, cached, setup, calls, pin, known, quote,
                     seen>>
      /\ pc[c] = "trusted"
      /\ \/ pc'[c] = "posted" /\ setup[c].prog # "mcp"
         \/ pc'[c] = "failed"
    BY <1>0 DEF PostSealed, PostPlain, worldVars, TypeOK
<1>2. (/\ Program(c) /\ Listed(c) /\ Fresh(c) /\ Pinned(c) /\ Unfronted(c)
       /\ Boots(c) /\ RightIdentity(c))'
    BY <1>0, <1>1 DEF Good, Program, Listed, Fresh, Pinned, PinOk, Unfronted,
        Boots, Past, RightIdentity, InHand, Bound, Judged
<1>3. CASE PostPlain(c)
    <2>1. UNCHANGED <<host, posts>> /\ pc'[c] = "failed"
        BY <1>0, <1>3 DEF PostPlain, worldVars, TypeOK
    <2> QED
        BY <1>0, <1>1, <1>2, <2>1, PromptsKept DEF Good
<1>4. CASE PostSealed(c)
    <2>1. PICK q \in Prompt :
            /\ q.host = quote[c].host /\ q.pin = pin[c]
            /\ q.answered = FALSE /\ q.readers = {}
            /\ posts' = [posts EXCEPT ![c][calls[c]] = q]
        BY <1>0, <1>4, PostChanges DEF Good
    <2>2. calls[c] \in 1..MaxCalls /\ pc'[c] = "posted"
        BY <1>0, <1>4, PostChanges DEF Good, PostSealed, TypeOK
    <2>3. /\ posts'[c][calls[c]] = q /\ posts'[c][calls[c]] # None
          /\ \A m \in 1..MaxCalls : m # calls[c] => posts'[c][m] = posts[c][m]
        BY <1>0, <2>1, <2>2, Entry
    <2>4. quote[c] # None /\ PinOk(c, quote[c].host) /\ Past(quote[c].host)
        BY <1>0, <1>1 DEF Good, Fresh, Pinned, Boots, InHand, Judged
    <2>5. ASSUME NEW m \in 1..MaxCalls
          PROVE  Filed(c, m)'
        <3>1. CASE m = calls[c]
            BY <1>1, <2>1, <2>2, <2>3, <2>4, <3>1 DEF Filed, Past, PinOk
        <3>2. CASE m # calls[c]
            BY <1>0, <1>1, <2>3, <3>2 DEF Good, Prompts, Filed, Past
        <3> QED
            BY <3>1, <3>2
    <2>6. (pc[c] = "posted" =>
             posts[c][calls[c]] # None /\ ~posts[c][calls[c]].answered)'
        BY <1>1, <2>1, <2>3
    <2> QED
        BY <1>0, <1>2, <2>5, <2>6 DEF Good, Prompts
<1> QED
    BY <1>3, <1>4

\* The answer is judged.
LEMMA FinishGood ==
    ASSUME Inv, NEW c \in Clients, Finish(c)
    PROVE  Good(c)'
<1>0. TypeOK /\ Good(c) /\ Witnessed(c)'
    BY RequestWitnessed DEF Inv, Request
<1>1. /\ UNCHANGED <<host, fronted, cached, setup, calls, pin, known, quote,
                     seen>>
      /\ pc[c] = "posted"
    BY DEF Finish, worldVars
<1>2. PICK h \in posts[c][calls[c]].readers, q \in Prompt :
        /\ q.host = posts[c][calls[c]].host
        /\ q.pin = posts[c][calls[c]].pin
        /\ q.readers = posts[c][calls[c]].readers
        /\ q.answered <=> h.image.ident = Signer(c) /\ PinOk(c, h)
        /\ pc' = [pc EXCEPT ![c] = IF q.answered THEN "ok" ELSE "failed"]
        /\ posts' = [posts EXCEPT ![c][calls[c]] = q]
    BY <1>0, FinishChanges DEF Good
<1>3. /\ calls[c] \in 1..MaxCalls
      /\ pc'[c] = IF q.answered THEN "ok" ELSE "failed"
    BY <1>0, <1>2, FinishChanges DEF Good, TypeOK
<1>4. /\ posts'[c][calls[c]] = q /\ posts'[c][calls[c]] # None
      /\ \A m \in 1..MaxCalls : m # calls[c] => posts'[c][m] = posts[c][m]
    <2>1. posts' = [posts EXCEPT ![c][calls[c]] = q]
        BY <1>2
    <2> HIDE <1>2
    <2> QED
        BY <1>0, <1>3, <2>1, Entry
<1>5. (/\ Program(c) /\ Listed(c) /\ Fresh(c) /\ Pinned(c) /\ Unfronted(c)
       /\ Boots(c))'
    BY <1>0, <1>1, <1>3 DEF Good, Program, Listed, Fresh, Pinned, PinOk,
        Unfronted, Boots, Past, InHand, Bound, Judged
<1>6. posts[c][calls[c]] # None /\ Filed(c, calls[c])
    BY <1>0, <1>1, <1>3 DEF Good, Prompts
<1>7. ASSUME NEW m \in 1..MaxCalls
      PROVE  Filed(c, m)'
    <2>1. CASE m = calls[c]
        BY <1>1, <1>2, <1>3, <1>4, <1>6, <2>1 DEF Filed, Past
    <2>2. CASE m # calls[c]
        BY <1>0, <1>1, <1>4, <2>2 DEF Good, Prompts, Filed, Past
    <2> QED
        BY <2>1, <2>2
<1>8. Prompts(c)'
    BY <1>3, <1>7 DEF Prompts
<1>9. RightIdentity(c)'
    <2>1. q.readers = {h}
        BY <1>2, <1>6 DEF Filed
    <2> QED
        BY <1>1, <1>2, <1>3, <1>4, <2>1 DEF RightIdentity, Signer
<1> QED
    BY <1>0, <1>5, <1>8, <1>9 DEF Good

-----------------------------------------------------------------------------
\* The invariant.

\* It holds initially.
LEMMA InitInv == Init => Inv
<1> SUFFICES ASSUME Init PROVE Inv
    OBVIOUS
<1> USE ClientAssumption
<1>1. TypeOK
    <2>1. host \in Host
        BY DEF Init, Host
    <2>2. 0 \in 0..MaxNow /\ 0 \in 0..MaxCalls
        OBVIOUS
    <2>3. /\ kid \in [Issuers -> Nat]
          /\ keys \in [Clients -> [Issuers -> SUBSET Nat]]
          /\ posts \in [Clients -> [1..MaxCalls -> Prompt \cup {None}]]
        BY DEF Init
    <2> QED
        BY <2>1, <2>2, <2>3 DEF Init, TypeOK
<1>2. ASSUME NEW c \in Clients
      PROVE  Good(c)
    BY DEF Init, Good, Program, Listed, Fresh, Pinned, Unfronted, Prompts,
        Filed, Witnessed, Boots, RightIdentity, InHand, Bound, Judged,
        Waiting, Seals
<1> QED
    BY <1>1, <1>2 DEF Inv

\* Every step keeps it.
LEMMA NextInv == Inv /\ [Next]_vars => Inv'
<1> SUFFICES ASSUME Inv, [Next]_vars PROVE Inv'
    OBVIOUS
<1>1. ASSUME NEW c \in Clients, Step(c)
      PROVE  Inv'
    <2>1. TypeOK'
        BY <1>1, StepTyped DEF Inv, Good
    <2>2. Good(c)'
        BY <1>1, BeginGood, OpenGood, ResolveGood, AttestGood, VerifyGood,
            CallGood, FinishGood DEF Step, Request
    <2>3. \A d \in Clients : Good(d)'
        BY <1>1, <2>2, OthersGood
    <2> QED
        BY <2>1, <2>3 DEF Inv
<1>2. CASE World
    BY <1>2, WorldTyped, WorldGood DEF Inv
<1>3. CASE UNCHANGED vars
    BY <1>3 DEF vars, worldVars, clientVars, Inv, TypeOK, Good, Program,
        Listed, Fresh, Pinned, PinOk, Unfronted, Prompts, Filed, Witnessed,
        Current, Boots, Past, RightIdentity, Seals
<1> QED
    BY <1>1, <1>2, <1>3 DEF Next, Step

\* The invariant holds throughout.
THEOREM InvHolds == Spec => []Inv
<1> QED
    BY InitInv, NextInv, PTL DEF Spec

\* The type invariant of Client.
THEOREM TypeCorrect == Spec => []TypeOK
<1>1. Inv => TypeOK
    BY DEF Inv
<1> QED
    BY <1>1, InvHolds, PTL

\* Only the enclave whose attestation was judged ever opens the prompt.
THEOREM PromptsAreSafe == Spec => []OpenedByAttestedBoot
<1>1. Inv => OpenedByAttestedBoot
    BY DEF Inv, Good, Prompts, Filed, OpenedByAttestedBoot
<1> QED
    BY <1>1, InvHolds, PTL

\* A verdict is about an enclave that was there, and about the pinned build.
THEOREM VerdictsAreFresh == Spec => []VerdictIsFresh
<1>1. Inv => VerdictIsFresh
    BY DEF Inv, Good, Fresh, Pinned, PinOk, Listed, InHand, Judged,
        VerdictIsFresh
<1> QED
    BY <1>1, InvHolds, PTL

\* No call over https ends well that met nothing but a front end.
THEOREM FrontsAreNoticed == Spec => []FrontIsNoticed
<1>1. Inv => FrontIsNoticed
    BY DEF Inv, Good, Unfronted, Bound, InHand, FrontIsNoticed
<1> QED
    BY <1>1, InvHolds, PTL

\* No answer but the pinned identity's is handed out.
THEOREM AnswersAreThePinned == Spec => []AnswerUnderPinnedIdentity
<1>1. Inv => AnswerUnderPinnedIdentity
    BY DEF Inv, Good, RightIdentity, AnswerUnderPinnedIdentity
<1> QED
    BY <1>1, InvHolds, PTL

-----------------------------------------------------------------------------
\* The refinement of SealedCall.

\* What SealedCall sees of call k.
Want(k) == IF Sent(k) = None THEN None ELSE Sent(k).pin
ReadBy(k) == IF Sent(k) = None THEN {} ELSE Sent(k).readers
Outcome(k) ==
    IF Sent(k) = None THEN "none"
    ELSE IF Sent(k).answered THEN "answered" ELSE "sent"

\* What a step that changes the prompt of one call is in the abstract
\* specification.
IsSent(k) ==
    /\ Outcome(k) = "none" /\ Outcome(k)' = "sent"
    /\ Want(k)' \in Builds \cup {None} /\ ReadBy(k)' = ReadBy(k)

IsRead(k) ==
    /\ Outcome(k) # "none" /\ Outcome(k)' = Outcome(k)
    /\ Want(k)' = Want(k) /\ Want(k) \in {None, host.image.build}
    /\ ReadBy(k) \subseteq {host} /\ ReadBy(k)' = {host}

IsAnswered(k) ==
    /\ Outcome(k) = "sent" /\ Outcome(k)' = "answered"
    /\ Want(k)' = Want(k) /\ ReadBy(k)' = ReadBy(k) /\ ReadBy(k) # {}

Stays(k) ==
    Outcome(k)' = Outcome(k) /\ Want(k)' = Want(k) /\ ReadBy(k)' = ReadBy(k)

\* The abstract step of one call is a step of the abstract specification.
LEMMA Lifted ==
    ASSUME NEW k \in Sealed, host' = host,
           \A j \in Sealed : j # k => Stays(j),
           IsSent(k) \/ IsRead(k) \/ IsAnswered(k) \/ Stays(k)
    PROVE  [Promise!Next]_(Promise!vars)
<1>1. CASE IsSent(k)
    <2>1. Promise!Send(k)
        BY <1>1 DEF IsSent, Stays, Outcome, Want, ReadBy, Promise!Send
    <2> QED
        BY <2>1 DEF Promise!Next
<1>2. CASE IsRead(k)
    <2>1. Promise!Read(k)
        BY <1>2 DEF IsRead, Stays, Outcome, Want, ReadBy, Promise!Read
    <2> QED
        BY <2>1 DEF Promise!Next
<1>3. CASE IsAnswered(k)
    <2>1. Promise!Answer(k)
        BY <1>3 DEF IsAnswered, Stays, Outcome, Want, ReadBy, Promise!Answer
    <2> QED
        BY <2>1 DEF Promise!Next
<1>4. CASE Stays(k)
    BY <1>4 DEF Stays, Outcome, Want, ReadBy, Promise!vars
<1> QED
    BY <1>1, <1>2, <1>3, <1>4

\* A call is a client and a number.
LEMMA CallsPaired ==
    ASSUME NEW c \in Clients, NEW n \in 1..MaxCalls,
           \A d \in Clients : d # c => posts'[d] = posts[d],
           \A m \in 1..MaxCalls : m # n => posts'[c][m] = posts[c][m]
    PROVE  /\ <<c, n>> \in Sealed
           /\ Sent(<<c, n>>) = posts[c][n] /\ Sent(<<c, n>>)' = posts'[c][n]
           /\ \A j \in Sealed : j # <<c, n>> => Stays(j)
<1>1. /\ <<c, n>> \in Sealed
      /\ Sent(<<c, n>>) = posts[c][n] /\ Sent(<<c, n>>)' = posts'[c][n]
    BY DEF Sealed, Sent
<1>2. ASSUME NEW j \in Sealed, j # <<c, n>>
      PROVE  Stays(j)
    <2>1. PICK d \in Clients, m \in 1..MaxCalls : j = <<d, m>>
        BY DEF Sealed
    <2>2. posts'[d][m] = posts[d][m]
        BY <1>2, <2>1
    <2>3. Sent(j)' = Sent(j)
        BY <2>1, <2>2 DEF Sent
    <2> QED
        BY <2>3 DEF Stays, Outcome, Want, ReadBy
<1> QED
    BY <1>1, <1>2

\* Where no prompt is sent, opened or answered, nothing that was promised
\* changes.
LEMMA NothingPromised ==
    ASSUME posts' = posts, host' = host
    PROVE  UNCHANGED Promise!vars
BY DEF Promise!vars, Sent

\* A prompt that is sent, opened or answered is one step of the promise.
LEMMA PromptsPromised ==
    ASSUME Inv, NEW c \in Clients,
           \/ PostSealed(c) \/ Finish(c)
           \/ \E n \in 1..MaxCalls : Open(c, n)
    PROVE  [Promise!Next]_(Promise!vars)
<1>0. TypeOK /\ Good(c)
    BY DEF Inv
<1>1. CASE PostSealed(c)
    <2>1. PICK q \in Prompt :
            /\ q.pin = pin[c] /\ q.answered = FALSE /\ q.readers = {}
            /\ posts' = [posts EXCEPT ![c][calls[c]] = q]
        BY <1>0, <1>1, PostChanges DEF Good
    <2>2. PICK n \in 1..MaxCalls : n = calls[c]
        BY <1>0, <1>1, PostChanges DEF Good
    <2>3. /\ posts'[c][n] = q /\ posts'[c][n] # None
          /\ \A m \in 1..MaxCalls : m # n => posts'[c][m] = posts[c][m]
          /\ \A d \in Clients : d # c => posts'[d] = posts[d]
        <3>1. posts' = [posts EXCEPT ![c][n] = q]
            BY <2>1, <2>2
        <3> QED
            BY <1>0, <3>1, Entry
    <2>4. posts[c][n] = None
        BY <1>0, <1>1, <2>2 DEF Good, Prompts, Filed, PostSealed
    <2>5. IsSent(<<c, n>>)
        <3>1. Sent(<<c, n>>) = None /\ Sent(<<c, n>>)' = q
            BY <2>3, <2>4, CallsPaired
        <3>2. q # None /\ q.pin \in Builds \cup {None}
            BY <2>3 DEF Prompt
        <3> QED
            BY <2>1, <3>1, <3>2 DEF IsSent, Outcome, Want, ReadBy
    <2> QED
        BY <1>1, <2>3, <2>5, CallsPaired, Lifted DEF PostSealed, worldVars
<1>2. CASE Finish(c)
    <2>1. PICK h \in posts[c][calls[c]].readers, q \in Prompt :
            /\ q.pin = posts[c][calls[c]].pin
            /\ q.readers = posts[c][calls[c]].readers
            /\ posts' = [posts EXCEPT ![c][calls[c]] = q]
        BY <1>0, <1>2, FinishChanges DEF Good
    <2>2. PICK n \in 1..MaxCalls : n = calls[c]
        BY <1>0, <1>2, FinishChanges DEF Good
    <2>3. /\ posts'[c][n] = q /\ posts'[c][n] # None
          /\ \A m \in 1..MaxCalls : m # n => posts'[c][m] = posts[c][m]
          /\ \A d \in Clients : d # c => posts'[d] = posts[d]
        <3>1. posts' = [posts EXCEPT ![c][n] = q]
            BY <2>1, <2>2
        <3> QED
            BY <1>0, <3>1, Entry
    <2>4. posts[c][n] # None /\ ~posts[c][n].answered
        BY <1>0, <1>2, <2>2 DEF Good, Prompts, Finish
    <2>5. IsAnswered(<<c, n>>) \/ Stays(<<c, n>>)
        BY <2>1, <2>2, <2>3, <2>4, CallsPaired
           DEF IsAnswered, Stays, Outcome, Want, ReadBy
    <2> QED
        BY <1>2, <2>3, <2>5, CallsPaired, Lifted DEF Finish, worldVars
<1>3. ASSUME NEW n \in 1..MaxCalls, Open(c, n)
      PROVE  [Promise!Next]_(Promise!vars)
    <2>1. PICK q \in Prompt :
            /\ posts[c][n] # None
            /\ q.host = posts[c][n].host /\ q.pin = posts[c][n].pin
            /\ q.answered = posts[c][n].answered
            /\ q.readers = posts[c][n].readers \cup {host}
            /\ posts' = [posts EXCEPT ![c][n] = q]
        BY <1>0, <1>3, OpenChanges
    <2>2. /\ posts'[c][n] = q /\ posts'[c][n] # None
          /\ \A m \in 1..MaxCalls : m # n => posts'[c][m] = posts[c][m]
          /\ \A d \in Clients : d # c => posts'[d] = posts[d]
        BY <1>0, <2>1, Entry
    <2>3. Filed(c, n)
        BY <1>0 DEF Good, Prompts
    <2>4. host = posts[c][n].host
        BY <1>3, <2>1, <2>3, AliveIsAttested DEF Filed, Open
    <2>5. IsRead(<<c, n>>)
        BY <2>1, <2>2, <2>3, <2>4, CallsPaired
           DEF IsRead, Outcome, Want, ReadBy, Filed
    <2> QED
        BY <1>3, <2>2, <2>5, CallsPaired, Lifted DEF Open, worldVars
<1> QED
    BY <1>1, <1>2, <1>3

\* The SDK and `fidrouter call` keep the promise: every behaviour of Client
\* is one of SealedCall.
THEOREM ClientKeepsPromise == Spec => KeepsPromise
<1>1. Init => Promise!Init
    <2> SUFFICES ASSUME Init PROVE Promise!Init
        OBVIOUS
    <2>1. \A k \in Sealed : Sent(k) = None
        BY DEF Init, Sealed, Sent
    <2> QED
        BY <2>1 DEF Init, Promise!Init
<1>2. Inv /\ [Next]_vars => [Promise!Next]_(Promise!vars)
    <2> SUFFICES ASSUME Inv, [Next]_vars
                 PROVE  [Promise!Next]_(Promise!vars)
        OBVIOUS
    <2>1. ASSUME NEW c \in Clients, Step(c)
          PROVE  [Promise!Next]_(Promise!vars)
        <3>1. CASE PostSealed(c) \/ Finish(c) \/ \E n \in 1..MaxCalls : Open(c, n)
            BY <3>1, PromptsPromised
        <3>2. CASE ~(PostSealed(c) \/ Finish(c)
                     \/ \E n \in 1..MaxCalls : Open(c, n))
            <4>1. posts' = posts /\ host' = host
                BY <2>1, <3>2 DEF Step, Request, Start, Again, Rerun, NewCall,
                    ResolveExpected, Exchange, ReadRegistry, Probe, Attest,
                    Bind, GetNonce, Appraise, Judge, PostPlain, Unanswered,
                    worldVars
            <4> QED
                BY <4>1, NothingPromised
        <3> QED
            BY <3>1, <3>2
    <2>2. CASE World
        <3>1. posts' = posts
            BY <2>2 DEF World, Tick, Redeploy, MoveFront, Rotate, Publish,
                clientVars
        <3>2. CASE \E image \in Images : Redeploy(image)
            <4>1. PICK image \in Images :
                    host' = [boot |-> host.boot + 1, image |-> image]
                BY <3>2 DEF Redeploy
            <4>2. Promise!Redeploy(image)
                BY <3>1, <4>1 DEF Promise!Redeploy, Sent
            <4> QED
                BY <4>2 DEF Promise!Next
        <3>3. CASE host' = host
            BY <3>1, <3>3, NothingPromised
        <3> QED
            BY <2>2, <3>2, <3>3 DEF World, Tick, MoveFront, Rotate, Publish
    <2>3. CASE UNCHANGED vars
        BY <2>3, NothingPromised DEF vars, worldVars, clientVars
    <2> QED
        BY <2>1, <2>2, <2>3 DEF Next, Step
<1> QED
    BY <1>1, <1>2, InvHolds, PTL DEF Spec, KeepsPromise, Promise!Spec

-----------------------------------------------------------------------------
\* What the promise comes to.  O, W and R are the outcome, the pin and the
\* readers of each call as SealedCall sees them.
O == [k \in Sealed |-> IF Sent(k) = None THEN "none"
                       ELSE IF Sent(k).answered THEN "answered" ELSE "sent"]
W == [k \in Sealed |-> IF Sent(k) = None THEN None ELSE Sent(k).pin]
R == [k \in Sealed |-> IF Sent(k) = None THEN {} ELSE Sent(k).readers]

\* The prompt of call k was opened by nobody, or by one enclave that had been
\* started, of the build that is asked for; by somebody, if it was answered;
\* and by nobody before it was sent.
ReadWell(k) ==
    /\ R[k] # {} =>
          \E image \in Images, boot \in 1..host.boot :
              /\ R[k] = {[boot |-> boot, image |-> image]}
              /\ W[k] \in {None, image.build}
    /\ O[k] = "answered" => R[k] # {}
    /\ O[k] = "none" => R[k] = {}

PInv ==
    /\ \E image \in Images, boot \in Nat \ {0} :
          host = [boot |-> boot, image |-> image]
    /\ \A k \in Sealed : ReadWell(k)

\* Whatever keeps the promise keeps this too.
LEMMA PromiseInv == KeepsPromise => []PInv
<1>1. Promise!Init => PInv
    <2> SUFFICES ASSUME Promise!Init
                 PROVE  PInv
        OBVIOUS
    <2>1. \E image \in Images : host = [boot |-> 1, image |-> image]
        BY DEF Promise!Init
    <2>2. O = [k \in Sealed |-> "none"] /\ R = [k \in Sealed |-> {}]
        BY DEF Promise!Init, O, R
    <2> QED
        BY <2>1, <2>2 DEF PInv, ReadWell
<1>2. PInv /\ [Promise!Next]_(Promise!vars) => PInv'
    <2> SUFFICES ASSUME PInv, [Promise!Next]_(Promise!vars)
                 PROVE  PInv'
        OBVIOUS
    <2>1. ASSUME NEW image \in Images, Promise!Redeploy(image)
          PROVE  PInv'
        <3>1. host' = [boot |-> host.boot + 1, image |-> image]
              /\ O' = O /\ W' = W /\ R' = R
            BY <2>1 DEF Promise!Redeploy, O, W, R
        <3>2. PICK old \in Images, boot \in Nat \ {0} :
                host = [boot |-> boot, image |-> old]
            BY DEF PInv
        <3>3. /\ host'.boot \in Nat \ {0}
              /\ 1..host.boot \subseteq 1..host'.boot
            BY <3>1, <3>2
        <3> QED
            BY <3>1, <3>3 DEF PInv, ReadWell
    <2>2. ASSUME NEW k \in Sealed, Promise!Send(k)
          PROVE  PInv'
        <3>1. /\ host' = host /\ R' = R
              /\ O[k] = "none" /\ O' = [O EXCEPT ![k] = "sent"]
              /\ \E b : W' = [W EXCEPT ![k] = b]
            BY <2>2 DEF Promise!Send, O, W, R
        <3>2. /\ O'[k] = "sent" /\ R[k] = {}
              /\ \A j \in Sealed \ {k} : O'[j] = O[j] /\ W'[j] = W[j]
            BY <3>1 DEF O, W, PInv, ReadWell
        <3> QED
            BY <3>1, <3>2 DEF PInv, ReadWell
    <2>3. ASSUME NEW k \in Sealed, Promise!Read(k)
          PROVE  PInv'
        <3>1. /\ host' = host /\ O' = O /\ W' = W
              /\ R' = [R EXCEPT ![k] = {host}]
              /\ W[k] \in {None, host.image.build} /\ O[k] # "none"
            BY <2>3 DEF Promise!Read, O, W, R
        <3>2. PICK image \in Images, boot \in Nat \ {0} :
                host = [boot |-> boot, image |-> image]
            BY DEF PInv
        <3>3. host.boot \in 1..host.boot /\ host.image = image
            BY <3>2
        <3>4. \A j \in Sealed : R'[j] = IF j = k THEN {host} ELSE R[j]
            BY <3>1 DEF R
        <3>5. ReadWell(k)'
            BY <3>1, <3>2, <3>3, <3>4 DEF ReadWell
        <3>6. ASSUME NEW j \in Sealed, j # k
              PROVE  ReadWell(j)'
            BY <3>1, <3>4, <3>6 DEF PInv, ReadWell
        <3> QED
            BY <3>1, <3>5, <3>6 DEF PInv
    <2>4. ASSUME NEW k \in Sealed, Promise!Answer(k)
          PROVE  PInv'
        <3>1. /\ host' = host /\ W' = W /\ R' = R /\ R[k] # {}
              /\ \A j \in Sealed : O'[j] = IF j = k THEN "answered" ELSE O[j]
            BY <2>4 DEF Promise!Answer, O, W, R
        <3> QED
            BY <3>1 DEF PInv, ReadWell
    <2>5. CASE UNCHANGED Promise!vars
        <3>1. host' = host /\ O' = O /\ W' = W /\ R' = R
            BY <2>5 DEF Promise!vars, O, W, R
        <3> QED
            BY <3>1 DEF PInv, ReadWell
    <2> QED
        BY <2>1, <2>2, <2>3, <2>4, <2>5 DEF Promise!Next
<1> QED
    BY <1>1, <1>2, PTL DEF KeepsPromise, Promise!Spec

\* Whatever keeps the promise shows a prompt to one enclave at most, started by
\* the operator and of the pinned build, and answers none that was not opened.
THEOREM PromiseIsOneReader == KeepsPromise => []Promise!OpenedByPinnedBuild
<1>1. PInv => Promise!OpenedByPinnedBuild
    BY DEF PInv, ReadWell, O, W, R, Promise!OpenedByPinnedBuild
<1> QED
    BY <1>1, PromiseInv, PTL

\* Whatever keeps the promise lets nobody open a prompt after the enclave that
\* has opened it, ever.
THEOREM PromiseReaderStays == KeepsPromise => Promise!ReaderIsFinal
<1>1. PInv /\ Promise!Next => Promise!ReaderKept
    <2> SUFFICES ASSUME PInv, Promise!Next, NEW k \in Sealed, R[k] # {}
                 PROVE  R'[k] = R[k] /\ W'[k] = W[k]
        BY DEF Promise!ReaderKept, W, R
    <2>1. ReadWell(k)
        BY DEF PInv
    <2>2. ASSUME NEW image \in Images, Promise!Redeploy(image)
          PROVE  R'[k] = R[k] /\ W'[k] = W[k]
        BY <2>2 DEF Promise!Redeploy, W, R
    <2>3. ASSUME NEW j \in Sealed, Promise!Send(j)
          PROVE  R'[k] = R[k] /\ W'[k] = W[k]
        <3>1. O[j] = "none" /\ R' = R
            BY <2>3 DEF Promise!Send, O, R
        <3>2. k # j
            BY <2>1, <3>1 DEF ReadWell
        <3>3. W'[k] = W[k]
            BY <2>3, <3>2 DEF Promise!Send, W
        <3> QED
            BY <3>1, <3>3
    <2>4. ASSUME NEW j \in Sealed, Promise!Read(j)
          PROVE  R'[k] = R[k] /\ W'[k] = W[k]
        <3>1. /\ W' = W /\ R[j] \subseteq {host}
              /\ \A i \in Sealed : R'[i] = IF i = j THEN {host} ELSE R[i]
            BY <2>4 DEF Promise!Read, W, R
        <3> QED
            BY <3>1
    <2>5. ASSUME NEW j \in Sealed, Promise!Answer(j)
          PROVE  R'[k] = R[k] /\ W'[k] = W[k]
        BY <2>5 DEF Promise!Answer, W, R
    <2> QED
        BY <2>2, <2>3, <2>4, <2>5 DEF Promise!Next
<1> QED
    BY <1>1, PromiseInv, PTL DEF KeepsPromise, Promise!Spec,
        Promise!ReaderIsFinal

\* So a prompt of the SDK or `fidrouter call` is opened, however late and
\* however often it is delivered, by one enclave of the pinned build.
THEOREM PromptsHaveOneReader ==
    Spec => []Promise!OpenedByPinnedBuild /\ Promise!ReaderIsFinal
<1> QED
    BY ClientKeepsPromise, PromiseIsOneReader, PromiseReaderStays, PTL
=============================================================================
