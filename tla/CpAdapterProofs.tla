-------------------------- MODULE CpAdapterProofs ---------------------------
(***************************************************************************)
(* Proofs about CpAdapter, for any accounts, configurations and number of  *)
(* exchanges.  The argument: what a handler carries from the gateway is    *)
(* always something the gateway held since the question (Grounded), and    *)
(* once it has answered neither the answer nor that history moves          *)
(* (AnswersStand).                                                         *)
(***************************************************************************)
EXTENDS CpAdapter, TLAPS

-----------------------------------------------------------------------------
\* The inductive invariant.

\* How far a handler got agrees with what was asked and answered, and while the
\* exchange is open the key's account is part of its history.
Staged(r) ==
    /\ pc[r] = "idle" <=> asked[r] = None
    /\ pc[r] = "done" <=> answer[r] # None
    /\ pc[r] \in {"idle", "asked"} => verdict[r] = None
    /\ pc[r] \in {"admin", "verdict"} => verdict[r] # None
    /\ pc[r] = "admin" => verdict[r].status = "ok" /\ cfg.kind = "newapi"
    /\ pc[r] \in {"asked", "admin", "verdict"} => acct[asked[r]] \in seen[r]

\* The lane of a verdict is one the key was in.
LaneGrounded(r) ==
    verdict[r].group # None => \E a \in seen[r] : a.group = verdict[r].group

\* newapi: the limit comes from an accepted account, and may only have shrunk.
LimitGrounded(r) ==
    cfg.kind = "newapi" =>
        /\ verdict[r].remaining # None
        /\ \E a \in seen[r] : a.ok /\ verdict[r].remaining <= a.limit

\* The others: quota and expiry are those of one accepted account.
TermsGrounded(r) ==
    cfg.kind # "newapi" =>
        \E a \in seen[r] :
            /\ a.ok
            /\ verdict[r].remaining = a.left
            /\ verdict[r].expires = IF a.expires = 0 THEN None ELSE a.expires

Grounded(r) ==
    verdict[r] # None =>
        (verdict[r].status = "ok" =>
            LaneGrounded(r) /\ LimitGrounded(r) /\ TermsGrounded(r))

AInv ==
    /\ TypeOK
    /\ \A r \in Reqs : Staged(r)
    /\ \A r \in Reqs : Grounded(r)
    /\ LaneIsGated
    /\ GrantWithinQuota
    /\ TokenEndsSoonAfterKey

-----------------------------------------------------------------------------
\* What the handler makes of a verdict.

\* What an answering validator says is a verdict, and if it accepts it says
\* what the account holds.
LEMMA AnswersAreVerdicts ==
    ASSUME cfg \in Configs, NEW a \in Accounts, NEW v \in Answers(a)
    PROVE  /\ v \in Verdict
           /\ v.status = "ok" => a.ok /\ v = Accepted(a)
  <1>1. cfg \in Config /\ a \in Account
    BY CpAdapterAssumption
  <1>2. NoToken("refused") \in Verdict /\ NoToken("unavailable") \in Verdict
        /\ NoToken("broken") \in Verdict
    BY DEF NoToken, Verdict
  <1>3. Accepted(a) \in Verdict
    BY <1>1 DEF Accepted, Verdict, Account
  <1> QED
    BY <1>2, <1>3 DEF Answers, NoToken, Garbled

\* The admin lookup keeps a verdict one, and lowers its quota if anything.
LEMMA ListedAreVerdicts ==
    ASSUME NEW v \in Verdict, NEW a \in Account, v.remaining # None,
           NEW w \in Listed(v, a)
    PROVE  /\ w \in Verdict
           /\ w.status = v.status
           /\ w.remaining # None /\ w.remaining <= v.remaining
           /\ w.group = v.group \/ w.group = a.group
  <1>1. None \notin Nat
    BY CpAdapterAssumption
  <1>2. v.remaining \in Nat /\ (a.left = None \/ a.left \in Nat)
    BY DEF Verdict, Account
  <1>3. Narrowed(v, a) \in Nat /\ Narrowed(v, a) <= v.remaining
    BY <1>2 DEF Narrowed, Lesser
  <1>4. CASE w = v
    BY <1>4, <1>2
  <1>5. CASE w = [v EXCEPT !.group = a.group]
    BY <1>5, <1>2 DEF Verdict, Account
  <1>6. CASE w = [v EXCEPT !.group = a.group, !.remaining = Narrowed(v, a)]
    BY <1>6, <1>1, <1>2, <1>3 DEF Verdict, Account
  <1> QED
    BY <1>4, <1>5, <1>6 DEF Listed

\* A token lives between the floor of a minute and the operator's token life,
\* and past the key's expiry only by that floor.
LEMMA LifeBounded ==
    ASSUME TypeOK, NEW v \in Verdict
    PROVE  /\ Life(v) \in 0..TTL
           /\ v.expires # None =>
                Life(v) = MinTTL \/ now + Life(v) <= v.expires
  BY CpAdapterAssumption DEF TypeOK, Life, Larger, Lesser, Verdict

\* Every outcome is a reply given now: a refusal, or the token of a verdict
\* that passed every check.
LEMMA OutcomeIsReply ==
    ASSUME TypeOK, NEW v \in Verdict
    PROVE  /\ Outcome(v) \in Reply
           /\ Outcome(v).at = now
           /\ Outcome(v).code = 200 =>
                /\ v.status = "ok" /\ LaneOpen(v) /\ QuotaKnown(v)
                /\ Outcome(v) = Token(v)
  <1>1. now \in Nat /\ cfg \in Config
    BY CpAdapterAssumption DEF TypeOK
  <1>2. \A c \in Codes : Refusal(c) \in Reply /\ Refusal(c).at = now
                         /\ Refusal(c).code = c
    BY <1>1 DEF Refusal, Reply
  <1>3. Life(v) \in Nat
    BY LifeBounded, CpAdapterAssumption
  <1>4. Ceiling(v) \in Int
    BY <1>1 DEF Ceiling, Verdict, Config
  <1>5. Token(v) \in Reply /\ Token(v).at = now
    BY <1>1, <1>3, <1>4 DEF Token, Reply, Codes
  <1>6. v.status \in {"ok", "refused", "unavailable", "broken"}
    BY DEF Verdict
  <1>7. CASE v.status = "ok" /\ LaneOpen(v) /\ QuotaKnown(v)
    BY <1>5, <1>7 DEF Outcome
  <1>8. CASE ~(v.status = "ok" /\ LaneOpen(v) /\ QuotaKnown(v))
    <2>1. \E c \in Codes : c # 200 /\ Outcome(v) = Refusal(c)
      BY <1>6, <1>8 DEF Outcome, Codes
    <2> QED
      BY <2>1, <1>2
  <1> QED
    BY <1>7, <1>8

-----------------------------------------------------------------------------
\* What a step leaves alone.

\* A verdict stays grounded while the history it rests on only grows.
LEMMA GroundsStand ==
    ASSUME NEW r \in Reqs, Grounded(r), cfg' = cfg,
           verdict'[r] = verdict[r], seen[r] \subseteq seen'[r]
    PROVE  Grounded(r)'
  BY DEF Grounded, LaneGrounded, LimitGrounded, TermsGrounded

\* What an answer promised stays true once its exchange is closed.
LEMMA AnswersStand ==
    ASSUME LaneIsGated, GrantWithinQuota, TokenEndsSoonAfterKey,
           cfg' = cfg, answer' = answer,
           \A r \in Reqs : answer[r] # None => seen'[r] = seen[r]
    PROVE  LaneIsGated' /\ GrantWithinQuota' /\ TokenEndsSoonAfterKey'
  <1>1. LaneIsGated'
    BY DEF LaneIsGated
  <1>2. GrantWithinQuota'
    BY DEF GrantWithinQuota
  <1>3. TokenEndsSoonAfterKey'
    BY DEF TokenEndsSoonAfterKey
  <1> QED
    BY <1>1, <1>2, <1>3

-----------------------------------------------------------------------------
\* One lemma per action.

LEMMA ReceiveKeeps ==
    ASSUME AInv, NEW q \in Reqs, NEW k \in Keys, Receive(q, k)
    PROVE  AInv'
  <1> USE DEF AInv
  <1>1. TypeOK /\ k # None /\ acct[k] \in Accounts
    BY CpAdapterAssumption DEF TypeOK
  <1>2. /\ pc[q] = "idle" /\ pc' = [pc EXCEPT ![q] = "asked"]
        /\ asked' = [asked EXCEPT ![q] = k]
        /\ seen' = [seen EXCEPT ![q] = {acct[k]}]
        /\ UNCHANGED <<now, acct, answer, cfg, verdict>>
    BY DEF Receive, Ask
  <1>3. TypeOK'
    BY <1>1, <1>2 DEF TypeOK
  <1>4. Staged(q) /\ answer[q] = None /\ verdict[q] = None
    BY <1>2 DEF Staged
  <1>5. \A r \in Reqs : Staged(r)'
    BY <1>1, <1>2, <1>4 DEF TypeOK, Staged
  <1>6. \A r \in Reqs : Grounded(r)'
    <2> TAKE r \in Reqs
    <2>1. CASE r = q
      BY <2>1, <1>2, <1>4 DEF Grounded
    <2>2. CASE r # q
      BY <2>2, <1>1, <1>2, GroundsStand DEF TypeOK
    <2> QED
      BY <2>1, <2>2
  <1>7. \A r \in Reqs : answer[r] # None => seen'[r] = seen[r]
    BY <1>1, <1>2, <1>4 DEF TypeOK
  <1> QED
    BY <1>2, <1>3, <1>5, <1>6, <1>7, AnswersStand

LEMMA ValidateKeeps ==
    ASSUME AInv, NEW q \in Reqs, Validate(q)
    PROVE  AInv'
  <1> USE DEF AInv
  <1>1. PICK v \in Answers(acct[asked[q]]) :
          /\ verdict' = [verdict EXCEPT ![q] = v]
          /\ pc' = [pc EXCEPT ![q] =
                      IF cfg.kind = "newapi" /\ cfg.admin /\ v.status = "ok"
                      THEN "admin" ELSE "verdict"]
    BY DEF Validate
  <1>2. TypeOK /\ pc[q] = "asked" /\ UNCHANGED <<vars, cfg>>
    BY DEF Validate
  <1>3. Staged(q) /\ asked[q] \in Keys /\ acct[asked[q]] \in Accounts
        /\ acct[asked[q]] \in seen[q] /\ answer[q] = None
    BY <1>2 DEF Staged, TypeOK
  <1> DEFINE a == acct[asked[q]]
  <1>4. /\ v \in Verdict
        /\ v.status = "ok" => a.ok /\ v = Accepted(a)
    BY <1>2, <1>3, AnswersAreVerdicts DEF TypeOK
  <1>5. TypeOK'
    BY <1>1, <1>2, <1>4 DEF TypeOK, vars
  <1>6. v # None
    BY <1>4, CpAdapterAssumption
  <1>7. \A r \in Reqs : Staged(r)'
    BY <1>1, <1>2, <1>3, <1>6 DEF Staged, TypeOK, vars
  <1>8. Grounded(q)'
    <2>1. verdict'[q] = v /\ seen' = seen /\ cfg' = cfg
      BY <1>1, <1>2 DEF TypeOK, vars
    <2>2. a \in Account /\ a \in seen[q] /\ None \notin Nat
      BY <1>3, CpAdapterAssumption
    <2>3. ASSUME v.status = "ok"
          PROVE  LaneGrounded(q)'
      BY <2>1, <2>2, <2>3, <1>4 DEF LaneGrounded, Accepted
    <2>4. ASSUME v.status = "ok"
          PROVE  LimitGrounded(q)'
      BY <2>1, <2>2, <2>4, <1>4 DEF LimitGrounded, Accepted, Account
    <2>5. ASSUME v.status = "ok"
          PROVE  TermsGrounded(q)'
      BY <2>1, <2>2, <2>5, <1>4 DEF TermsGrounded, Accepted
    <2> QED
      BY <2>1, <2>3, <2>4, <2>5 DEF Grounded
  <1>9. \A r \in Reqs : Grounded(r)'
    <2> TAKE r \in Reqs
    <2>1. CASE r = q
      BY <2>1, <1>8
    <2>2. CASE r # q
      BY <2>2, <1>1, <1>2, GroundsStand DEF TypeOK, vars
    <2> QED
      BY <2>1, <2>2
  <1> QED
    BY <1>2, <1>5, <1>7, <1>9, AnswersStand DEF vars

LEMMA AdminLookupKeeps ==
    ASSUME AInv, NEW q \in Reqs, AdminLookup(q)
    PROVE  AInv'
  <1> USE DEF AInv
  <1>1. PICK w \in Listed(verdict[q], acct[asked[q]]) :
          verdict' = [verdict EXCEPT ![q] = w]
    BY DEF AdminLookup
  <1>2. TypeOK /\ pc[q] = "admin" /\ pc' = [pc EXCEPT ![q] = "verdict"]
        /\ UNCHANGED <<vars, cfg>>
    BY DEF AdminLookup
  <1>3. /\ Staged(q) /\ asked[q] \in Keys /\ acct[asked[q]] \in Accounts
        /\ acct[asked[q]] \in seen[q] /\ answer[q] = None
        /\ verdict[q] \in Verdict /\ verdict[q].status = "ok"
        /\ cfg.kind = "newapi"
    BY <1>2 DEF Staged, TypeOK
  <1> DEFINE a == acct[asked[q]]
             v == verdict[q]
  <1>4. v # None /\ a \in Account
    BY <1>3, CpAdapterAssumption
  <1>5. LaneGrounded(q) /\ LimitGrounded(q)
    BY <1>3, <1>4 DEF Grounded
  <1>6. v.remaining # None
    BY <1>3, <1>5 DEF LimitGrounded
  <1>7. /\ w \in Verdict /\ w.status = "ok"
        /\ w.remaining # None /\ w.remaining <= v.remaining
        /\ w.group = v.group \/ w.group = a.group
    BY <1>3, <1>4, <1>6, ListedAreVerdicts
  <1>8. TypeOK'
    BY <1>1, <1>2, <1>7 DEF TypeOK, vars
  <1>9. w # None
    BY <1>7, CpAdapterAssumption
  <1>10. \A r \in Reqs : Staged(r)'
    BY <1>1, <1>2, <1>3, <1>9 DEF Staged, TypeOK, vars
  <1>11. verdict'[q] = w /\ seen' = seen /\ cfg' = cfg
    BY <1>1, <1>2 DEF TypeOK, vars
  <1>12. Grounded(q)'
    <2>1. LaneGrounded(q)'
      BY <1>3, <1>5, <1>7, <1>11 DEF LaneGrounded
    <2>2. LimitGrounded(q)'
      <3>1. PICK b \in seen[q] : b.ok /\ v.remaining <= b.limit
        BY <1>3, <1>5 DEF LimitGrounded
      <3>2. b \in Account
        BY <1>2, CpAdapterAssumption DEF TypeOK
      <3>3. w.remaining \in Nat /\ v.remaining \in Nat /\ b.limit \in Nat
        BY <1>3, <1>6, <1>7, <3>2 DEF Verdict, Account
      <3>4. w.remaining <= b.limit
        BY <3>1, <3>3, <1>7
      <3> QED
        BY <3>1, <3>4, <1>7, <1>11 DEF LimitGrounded
    <2>3. TermsGrounded(q)'
      BY <1>3, <1>11 DEF TermsGrounded
    <2> QED
      BY <2>1, <2>2, <2>3 DEF Grounded
  <1>13. \A r \in Reqs : Grounded(r)'
    <2> TAKE r \in Reqs
    <2>1. CASE r = q
      BY <2>1, <1>12
    <2>2. CASE r # q
      BY <2>2, <1>1, <1>2, GroundsStand DEF TypeOK, vars
    <2> QED
      BY <2>1, <2>2
  <1> QED
    BY <1>2, <1>8, <1>10, <1>13, AnswersStand DEF vars

LEMMA ConcludeKeeps ==
    ASSUME AInv, NEW q \in Reqs, Conclude(q)
    PROVE  AInv'
  <1> USE DEF AInv
  <1> DEFINE v == verdict[q]
             o == Outcome(v)
  <1>1. TypeOK /\ pc[q] = "verdict" /\ pc' = [pc EXCEPT ![q] = "done"]
        /\ answer' = [answer EXCEPT ![q] = o]
        /\ UNCHANGED <<now, acct, asked, seen, cfg, verdict>>
    BY DEF Conclude
  <1>2. Staged(q) /\ Grounded(q) /\ v \in Verdict /\ v # None
    BY <1>1 DEF Staged, TypeOK
  <1>3. /\ o \in Reply /\ o # None /\ o.at = now
        /\ o.code = 200 =>
             /\ v.status = "ok" /\ LaneOpen(v) /\ QuotaKnown(v)
             /\ o = Token(v)
    BY <1>2, OutcomeIsReply, CpAdapterAssumption
  <1> HIDE DEF o
  <1>4. TypeOK'
    BY <1>1, <1>3 DEF TypeOK
  <1>5. \A r \in Reqs : Staged(r)'
    BY <1>1, <1>2, <1>3 DEF TypeOK, Staged
  <1>6. \A r \in Reqs : Grounded(r)'
    BY <1>1, GroundsStand
  <1>7. answer'[q] = o /\ (\A r \in Reqs \ {q} : answer'[r] = answer[r])
    BY <1>1 DEF TypeOK
  <1>8. ASSUME o.code = 200
        PROVE  /\ LaneGrounded(q) /\ LimitGrounded(q) /\ TermsGrounded(q)
               /\ LaneOpen(v) /\ QuotaKnown(v)
               /\ o.exp = now + Life(v) /\ o.max = Ceiling(v)
    BY <1>2, <1>3, <1>8 DEF Grounded, Token
  <1>9. /\ cfg \in Config /\ seen[q] \subseteq Account /\ now \in Nat
        /\ MinTTL \in Nat /\ None \notin Nat /\ None \notin Groups
    BY <1>1, CpAdapterAssumption DEF TypeOK
  <1>10. ASSUME o.code = 200, cfg.groups # {}
         PROVE  \E a \in seen[q] : a.group \in cfg.groups
    <2>1. v.group \in cfg.groups /\ v.group # None
      BY <1>8, <1>9, <1>10 DEF LaneOpen, Config
    <2> QED
      BY <2>1, <1>8, <1>10 DEF LaneGrounded
  <1>11. ASSUME o.code = 200
         PROVE  \E a \in seen[q] :
                   /\ a.ok
                   /\ cfg.kind = "newapi" => o.max <= a.limit
                   /\ cfg.kind # "newapi" =>
                         IF a.left # None THEN o.max <= a.left
                         ELSE cfg.unknown = "cap" /\ o.max <= cfg.cap
    <2>1. CASE cfg.kind = "newapi"
      BY <2>1, <1>8, <1>11 DEF LimitGrounded, Ceiling
    <2>2. CASE cfg.kind # "newapi"
      <3>1. PICK a \in seen[q] : a.ok /\ v.remaining = a.left
        BY <2>2, <1>8, <1>11 DEF TermsGrounded
      <3>2. a.left = None \/ a.left \in Nat
        BY <3>1, <1>9 DEF Account
      <3>3. cfg.cap \in Nat
        BY <1>9 DEF Config
      <3> QED
        BY <2>2, <3>1, <3>2, <3>3, <1>8, <1>11 DEF Ceiling, QuotaKnown
    <2> QED
      BY <2>1, <2>2
  <1>12. ASSUME o.code = 200, cfg.kind # "newapi"
         PROVE  \E a \in seen[q] :
                   /\ a.ok
                   /\ \/ a.expires \in {None, 0}
                      \/ o.exp <= Larger(a.expires, o.at + MinTTL)
    <2>1. PICK a \in seen[q] :
            /\ a.ok
            /\ v.expires = IF a.expires = 0 THEN None ELSE a.expires
      BY <1>8, <1>12 DEF TermsGrounded
    <2>2. a.expires = None \/ a.expires \in Nat
      BY <2>1, <1>9 DEF Account
    <2>3. CASE a.expires \in {None, 0}
      BY <2>1, <2>3
    <2>4. CASE a.expires \notin {None, 0}
      <3>1. v.expires = a.expires /\ v.expires # None
        BY <2>1, <2>4
      <3>2. Life(v) \in Nat
            /\ (Life(v) = MinTTL \/ now + Life(v) <= a.expires)
        BY <3>1, <1>1, <1>2, LifeBounded, CpAdapterAssumption
      <3>3. o.exp = now + Life(v) /\ o.at = now
        BY <1>3, <1>8, <1>12
      <3>4. o.exp <= Larger(a.expires, o.at + MinTTL)
        BY <3>2, <3>3, <2>2, <2>4, <1>9 DEF Larger
      <3> QED
        BY <2>1, <3>4
    <2> QED
      BY <2>3, <2>4
  <1>13. LaneIsGated'
    <2> SUFFICES ASSUME NEW r \in Reqs, answer'[r] # None,
                        answer'[r].code = 200, cfg.groups # {}
                 PROVE  \E a \in seen[r] : a.group \in cfg.groups
      BY <1>1 DEF LaneIsGated
    <2> QED
      BY <1>7, <1>10 DEF LaneIsGated
  <1>14. GrantWithinQuota'
    <2> SUFFICES ASSUME NEW r \in Reqs, answer'[r] # None,
                        answer'[r].code = 200
                 PROVE  \E a \in seen[r] :
                           /\ a.ok
                           /\ cfg.kind = "newapi" =>
                                 answer'[r].max <= a.limit
                           /\ cfg.kind # "newapi" =>
                                 IF a.left # None
                                 THEN answer'[r].max <= a.left
                                 ELSE /\ cfg.unknown = "cap"
                                      /\ answer'[r].max <= cfg.cap
      BY <1>1 DEF GrantWithinQuota
    <2>1. CASE r = q
      BY <2>1, <1>7, <1>11
    <2>2. CASE r # q
      BY <2>2, <1>7 DEF GrantWithinQuota
    <2> QED
      BY <2>1, <2>2
  <1>15. TokenEndsSoonAfterKey'
    <2> SUFFICES ASSUME NEW r \in Reqs, answer'[r] # None,
                        answer'[r].code = 200, cfg.kind # "newapi"
                 PROVE  \E a \in seen[r] :
                           /\ a.ok
                           /\ \/ a.expires \in {None, 0}
                              \/ answer'[r].exp <=
                                   Larger(a.expires, answer'[r].at + MinTTL)
      BY <1>1 DEF TokenEndsSoonAfterKey
    <2>1. CASE r = q
      BY <2>1, <1>7, <1>12
    <2>2. CASE r # q
      BY <2>2, <1>7 DEF TokenEndsSoonAfterKey
    <2> QED
      BY <2>1, <2>2
  <1> QED
    BY <1>4, <1>5, <1>6, <1>13, <1>14, <1>15

LEMMA EnvironmentKeeps ==
    ASSUME AInv, Environment
    PROVE  AInv'
  <1> USE DEF AInv
  <1>1. TypeOK /\ UNCHANGED <<cfg, pc, verdict>>
    BY DEF Environment
  <1>2. CASE Tick
    <2>1. UNCHANGED <<acct, asked, seen, answer>> /\ now' = now + 1
          /\ now < MaxNow
      BY <1>2 DEF Tick
    <2>2. TypeOK'
      BY <1>1, <2>1, CpAdapterAssumption DEF TypeOK
    <2>3. \A r \in Reqs : Staged(r)'
      BY <1>1, <2>1 DEF Staged
    <2>4. \A r \in Reqs : Grounded(r)'
      BY <1>1, <2>1, GroundsStand
    <2> QED
      BY <1>1, <2>1, <2>2, <2>3, <2>4, AnswersStand
  <1>3. ASSUME NEW k \in Keys, NEW a \in Accounts, GatewayChanges(k, a)
        PROVE  AInv'
    <2>1. /\ acct' = [acct EXCEPT ![k] = a]
          /\ UNCHANGED <<now, asked, answer>>
          /\ \A r \in Reqs : seen'[r] = IF Open(r) /\ asked[r] = k
                                       THEN seen[r] \cup {a} ELSE seen[r]
      BY <1>3 DEF GatewayChanges
    <2>2. seen' \in [Reqs -> SUBSET Accounts]
      BY <1>1, <1>3 DEF TypeOK, GatewayChanges
    <2>3. TypeOK'
      BY <1>1, <2>1, <2>2 DEF TypeOK
    <2>4. \A r \in Reqs : seen[r] \subseteq seen'[r]
      BY <2>1
    <2>5. \A r \in Reqs : Staged(r)'
      <3> TAKE r \in Reqs
      <3>1. pc[r] \in {"asked", "admin", "verdict"} =>
               acct'[asked[r]] \in seen'[r]
        <4> HAVE pc[r] \in {"asked", "admin", "verdict"}
        <4>1. Staged(r) /\ Open(r) /\ asked[r] \in Keys
          BY <1>1 DEF Staged, Open, TypeOK
        <4>2. acct[asked[r]] \in seen[r]
          BY <4>1 DEF Staged
        <4>3. CASE asked[r] = k
          BY <4>1, <4>3, <2>1, <1>1 DEF TypeOK
        <4>4. CASE asked[r] # k
          BY <4>2, <4>4, <2>1, <2>4, <1>1, <4>1 DEF TypeOK
        <4> QED
          BY <4>3, <4>4
      <3> QED
        BY <3>1, <1>1, <2>1 DEF Staged
    <2>6. \A r \in Reqs : Grounded(r)'
      BY <1>1, <2>4, GroundsStand
    <2>7. \A r \in Reqs : answer[r] # None => seen'[r] = seen[r]
      BY <2>1 DEF Open
    <2> QED
      BY <1>1, <2>1, <2>3, <2>5, <2>6, <2>7, AnswersStand
  <1> QED
    BY <1>2, <1>3 DEF Environment

-----------------------------------------------------------------------------
\* The theorems.

LEMMA AdapterInvariant == AdapterSpec => []AInv
  <1>1. AdapterInit => AInv
    <2> SUFFICES ASSUME AdapterInit
                 PROVE  AInv
      OBVIOUS
    <2>1. TypeOK
      BY CpAdapterAssumption DEF AdapterInit, Init, TypeOK
    <2>2. \A r \in Reqs : Staged(r) /\ Grounded(r)
      BY DEF AdapterInit, Init, Staged, Grounded
    <2>3. LaneIsGated /\ GrantWithinQuota /\ TokenEndsSoonAfterKey
      BY DEF AdapterInit, Init, LaneIsGated, GrantWithinQuota,
             TokenEndsSoonAfterKey
    <2> QED
      BY <2>1, <2>2, <2>3 DEF AInv
  <1>2. AInv /\ [AdapterNext]_aVars => AInv'
    <2> SUFFICES ASSUME AInv, [AdapterNext]_aVars
                 PROVE  AInv'
      OBVIOUS
    <2>1. CASE UNCHANGED aVars
      <3>1. TypeOK' /\ LaneIsGated' /\ GrantWithinQuota'
            /\ TokenEndsSoonAfterKey'
        BY <2>1, AnswersStand DEF AInv, aVars, vars, TypeOK
      <3>2. \A r \in Reqs : Staged(r)' /\ Grounded(r)'
        BY <2>1, GroundsStand DEF AInv, aVars, vars, Staged
      <3> QED
        BY <3>1, <3>2 DEF AInv
    <2>2. CASE AdapterNext
      BY <2>2, ReceiveKeeps, ValidateKeeps, AdminLookupKeeps, ConcludeKeeps,
         EnvironmentKeeps DEF AdapterNext
    <2> QED
      BY <2>1, <2>2
  <1> QED
    BY <1>1, <1>2, PTL DEF AdapterSpec

\* Type correctness, for any gateway and configuration.
THEOREM AdapterTypeCorrect == AdapterSpec => []TypeOK
  <1>1. AInv => TypeOK
    BY DEF AInv
  <1> QED
    BY <1>1, AdapterInvariant, PTL

\* A token is minted only for a key that was in an allowed lane meanwhile.
THEOREM AdapterGatesTheLane == AdapterSpec => []LaneIsGated
  <1>1. AInv => LaneIsGated
    BY DEF AInv
  <1> QED
    BY <1>1, AdapterInvariant, PTL

\* No token grants more than the gateway, or the configured cap, allowed.
THEOREM AdapterGrantsWithinQuota == AdapterSpec => []GrantWithinQuota
  <1>1. AInv => GrantWithinQuota
    BY DEF AInv
  <1> QED
    BY <1>1, AdapterInvariant, PTL

\* A token outlives a reported expiry by at most the floor of a minute.
THEOREM AdapterShortensTokens == AdapterSpec => []TokenEndsSoonAfterKey
  <1>1. AInv => TokenEndsSoonAfterKey
    BY DEF AInv
  <1> QED
    BY <1>1, AdapterInvariant, PTL

\* The token a handler concludes with is justified by the history.
LEMMA ConcludeIsAnswer ==
    ASSUME AInv, NEW q \in Reqs, Conclude(q)
    PROVE  Promise!Answer(q)
  <1> DEFINE v == verdict[q]
             o == Outcome(v)
  <1>1. /\ TypeOK /\ Staged(q) /\ Grounded(q) /\ pc[q] = "verdict"
        /\ v \in Verdict /\ v # None
        /\ answer' = [answer EXCEPT ![q] = o]
        /\ UNCHANGED <<now, acct, asked, seen>>
    BY DEF AInv, Conclude, Staged, TypeOK
  <1>2. Promise!Open(q)
    BY <1>1 DEF Staged, Promise!Open
  <1>3. /\ o \in Reply /\ o.at = now
        /\ o.code = 200 => v.status = "ok" /\ o = Token(v)
    BY <1>1, OutcomeIsReply
  <1> HIDE DEF o
  <1>4. answer'[q] = o /\ answer' = [answer EXCEPT ![q] = answer'[q]]
    BY <1>1 DEF TypeOK
  <1>5. ASSUME o.code = 200
        PROVE  Promise!Justified(q, o)
    <2>1. \E a \in seen[q] : a.ok
      BY <1>1, <1>3, <1>5 DEF Grounded, LimitGrounded, TermsGrounded
    <2>2. o.exp = now + Life(v) /\ Life(v) \in 0..TTL
      BY <1>1, <1>3, <1>5, LifeBounded DEF Token
    <2>3. o.exp \in now..(now + TTL)
      BY <2>2, <1>1, CpAdapterAssumption DEF TypeOK
    <2> QED
      BY <2>1, <2>3 DEF Promise!Justified
  <1>6. o \in Promise!Reply
    BY <1>3 DEF Reply, Codes, Promise!Reply, Promise!Codes
  <1> QED
    BY <1>1, <1>2, <1>3, <1>4, <1>5, <1>6 DEF Promise!Answer

\* The adapter implements what the enclave relies on: at most one answer to a
\* question, and a token only for a key the gateway accepted meanwhile.
THEOREM AdapterKeepsPromise == AdapterSpec => KeepsPromise
  <1>1. AdapterInit => Promise!Init
    BY DEF AdapterInit, Init, Promise!Init
  <1>2. AInv /\ [AdapterNext]_aVars => [Promise!Next]_(Promise!vars)
    <2> SUFFICES ASSUME AInv, AdapterNext
                 PROVE  Promise!Next \/ UNCHANGED Promise!vars
      BY DEF aVars, vars, Promise!vars
    <2>1. ASSUME NEW r \in Reqs, NEW k \in Keys, Receive(r, k)
          PROVE  Promise!Next
      BY <2>1 DEF Receive, Ask, Promise!Ask, Promise!Next
    <2>2. ASSUME NEW r \in Reqs, Validate(r) \/ AdminLookup(r)
          PROVE  UNCHANGED Promise!vars
      BY <2>2 DEF Validate, AdminLookup, vars, Promise!vars
    <2>3. ASSUME NEW r \in Reqs, Conclude(r)
          PROVE  Promise!Next
      BY <2>3, ConcludeIsAnswer DEF Promise!Next
    <2>4. ASSUME Environment
          PROVE  Promise!Next
      <3>1. CASE Tick
        BY <3>1 DEF Tick, Promise!Tick, Promise!Next
      <3>2. ASSUME NEW k \in Keys, NEW a \in Accounts, GatewayChanges(k, a)
            PROVE  Promise!Next
        BY <3>2 DEF GatewayChanges, Open, Promise!GatewayChanges,
                    Promise!Open, Promise!Next
      <3> QED
        BY <2>4, <3>1, <3>2 DEF Environment
    <2> QED
      BY <2>1, <2>2, <2>3, <2>4 DEF AdapterNext
  <1> QED
    BY <1>1, <1>2, AdapterInvariant, PTL
       DEF AdapterSpec, KeepsPromise, Promise!Spec

-----------------------------------------------------------------------------
\* What the promise comes to, whoever keeps it.

\* Only questions that were asked are answered, and tokens only for keys the
\* gateway accepted.
PInv ==
    /\ now \in Nat
    /\ acct \in [Keys -> Accounts]
    /\ asked \in [Reqs -> Keys \cup {None}]
    /\ seen \in [Reqs -> SUBSET Accounts]
    /\ answer \in [Reqs -> Reply \cup {None}]
    /\ \A r \in Reqs : answer[r] # None => asked[r] # None
    /\ TokensWereAccepted

\* Exchange keeps that invariant.
LEMMA PromiseInvariant == Spec => []PInv
  <1>1. Init => PInv
    BY CpAdapterAssumption DEF Init, PInv, TokensWereAccepted
  <1>2. PInv /\ [Next]_vars => PInv'
    <2> SUFFICES ASSUME PInv, [Next]_vars
                 PROVE  PInv'
      OBVIOUS
    <2> USE CpAdapterAssumption DEF PInv, TokensWereAccepted
    <2>1. ASSUME NEW r \in Reqs, NEW k \in Keys, Ask(r, k)
          PROVE  PInv'
      BY <2>1 DEF Ask
    <2>2. ASSUME NEW k \in Keys, NEW a \in Accounts, GatewayChanges(k, a)
          PROVE  PInv'
      BY <2>2 DEF GatewayChanges, Open
    <2>3. ASSUME NEW r \in Reqs, Answer(r)
          PROVE  PInv'
      <3> DEFINE o == answer'[r]
      <3>1. /\ Open(r) /\ o \in Reply /\ o.at = now
            /\ o.code = 200 => Justified(r, o)
            /\ answer' = [answer EXCEPT ![r] = o]
            /\ UNCHANGED <<now, acct, asked, seen>>
        BY <2>3 DEF Answer
      <3> HIDE DEF o
      <3>2. QED
        BY <3>1 DEF Open, Justified
    <2>4. CASE Tick
      BY <2>4 DEF Tick
    <2>5. CASE UNCHANGED vars
      BY <2>5 DEF vars
    <2> QED
      BY <2>1, <2>2, <2>3, <2>4, <2>5 DEF Next
  <1> QED
    BY <1>1, <1>2, PTL DEF Spec

\* A token always stands for a key that was accepted while it was asked about.
THEOREM PromiseJustifiesTokens == Spec => []TokensWereAccepted
  <1>1. PInv => TokensWereAccepted
    BY DEF PInv
  <1> QED
    BY <1>1, PromiseInvariant, PTL

\* An answer that was given is neither replaced nor justified afterwards.
THEOREM PromiseAnswersOnce == Spec => AnswersAreFinal
  <1> DEFINE Final ==
        \A r \in Reqs : answer[r] # None =>
            /\ answer'[r] = answer[r]
            /\ asked'[r] = asked[r] /\ seen'[r] = seen[r]
  <1>1. PInv /\ [Next]_vars => [Final]_vars
    <2> SUFFICES ASSUME PInv, Next, NEW q \in Reqs, answer[q] # None
                 PROVE  /\ answer'[q] = answer[q]
                        /\ asked'[q] = asked[q] /\ seen'[q] = seen[q]
      OBVIOUS
    <2> USE DEF PInv
    <2>1. ASSUME NEW r \in Reqs, NEW k \in Keys, Ask(r, k)
          PROVE  UNCHANGED <<answer[q], asked[q], seen[q]>>
      BY <2>1 DEF Ask
    <2>2. ASSUME NEW k \in Keys, NEW a \in Accounts, GatewayChanges(k, a)
          PROVE  UNCHANGED <<answer[q], asked[q], seen[q]>>
      BY <2>2 DEF GatewayChanges, Open
    <2>3. ASSUME NEW r \in Reqs, Answer(r)
          PROVE  UNCHANGED <<answer[q], asked[q], seen[q]>>
      <3>1. q # r /\ answer' = [answer EXCEPT ![r] = answer'[r]]
            /\ UNCHANGED <<asked, seen>>
        BY <2>3 DEF Answer, Open
      <3>2. answer'[q] = answer[q]
        BY <3>1
      <3> QED
        BY <3>1, <3>2
    <2>4. CASE Tick
      BY <2>4 DEF Tick
    <2> QED
      BY <2>1, <2>2, <2>3, <2>4 DEF Next
  <1> QED
    BY <1>1, PromiseInvariant, PTL DEF Spec, AnswersAreFinal

\* So the adapter's tokens are justified and its answers final, whatever
\* gateway and configuration it runs with.
THEOREM AdapterAnswersOnce ==
    AdapterSpec => AnswersAreFinal /\ []TokensWereAccepted
  <1>1. Promise!Init => Init
    BY DEF Promise!Init, Init
  <1>2. [Promise!Next]_(Promise!vars) => [Next]_vars
    BY DEF Promise!Next, Promise!vars, Promise!Ask, Promise!GatewayChanges,
           Promise!Answer, Promise!Tick, Promise!Open, Promise!Justified,
           Promise!Reply, Promise!Codes, Next, vars, Ask, GatewayChanges,
           Answer, Tick, Open, Justified, Reply, Codes
  <1>3. KeepsPromise => Spec
    BY <1>1, <1>2, PTL DEF KeepsPromise, Promise!Spec, Spec
  <1> QED
    BY <1>3, AdapterKeepsPromise, PromiseJustifiesTokens, PromiseAnswersOnce,
       PTL
=============================================================================
