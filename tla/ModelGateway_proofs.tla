------------------------ MODULE ModelGateway_proofs ------------------------
(* What ModelGateway promises, for every list of challenges, latency,      *)
(* timeout and number of calls.                                            *)
EXTENDS ModelGateway, FiniteSetTheorems, TLAPS

(* What a challenge is judged by is a disposition.                         *)
LEMMA OracleDispositions ==
  ASSUME NEW run
  PROVE  BehavioralOracle(run).disposition \in
           {"clear", "inconclusive", "quarantine"}
BY DEF BehavioralOracle, Result

(* A pack of one challenge is judged by that one.                          *)
LEMMA PackOfOne ==
  ASSUME NEW run
  PROVE  BehavioralChallengePack(<<run>>).disposition =
           IF ChallengeCode(run) = "challenge-observed" THEN "clear"
           ELSE IF ChallengeCode(run) = "challenge-inconclusive"
           THEN "inconclusive" ELSE "quarantine"
<1> DEFINE runs == <<run>>
           stops == {m \in DOMAIN runs : ChallengeCode(runs[m]) # "challenge-observed"}
           last == IF stops = {} THEN Len(runs)
                   ELSE CHOOSE m \in stops : \A j \in stops : m <= j
<1>1. runs # <<>> /\ Len(runs) = 1 /\ DOMAIN runs = {1} /\ runs[1] = run
  OBVIOUS
<1>2. stops = (IF ChallengeCode(run) = "challenge-observed" THEN {} ELSE {1})
  BY <1>1
<1>3. last = 1
  <2>1. CASE stops = {}
    BY <2>1, <1>1
  <2>2. CASE stops # {}
    <3>1. stops = {1}
      BY <2>2, <1>2
    <3> QED
      BY <3>1
  <2> QED
    BY <2>1, <2>2
<1>4. ChallengeCode(runs[last]) = ChallengeCode(run)
  BY <1>1, <1>3
<1> HIDE DEF runs, stops, last
<1>5. [m \in 1..last |-> ChallengeCode(runs[m])][last] = ChallengeCode(run)
  BY <1>3, <1>4
<1>6. BehavioralChallengePack(runs) =
        LET codes == [m \in 1..last |-> ChallengeCode(runs[m])]
        IN  CASE runs = <<>> ->
                   Result("retryable_infra", <<"challenge-pack-unavailable">>)
              [] runs # <<>> /\ stops = {} -> Result("clear", codes)
              [] runs # <<>> /\ stops # {} ->
                   Result(IF codes[last] = "challenge-inconclusive"
                            THEN "inconclusive" ELSE "quarantine", codes)
  BY DEF BehavioralChallengePack, runs, stops, last
<1>7. BehavioralChallengePack(runs).disposition =
        IF stops = {} THEN "clear"
        ELSE IF ChallengeCode(run) = "challenge-inconclusive"
        THEN "inconclusive" ELSE "quarantine"
  BY <1>1, <1>5, <1>6 DEF Result
<1> QED
  BY <1>2, <1>7 DEF runs

LEMMA DispositionType ==
  ASSUME NEW challenge, NEW ok, NEW tokens, NEW shape
  PROVE  Disposition(challenge, ok, tokens, shape) \in Dispositions
BY OracleDispositions, PackOfOne DEF Disposition, Dispositions
(* A challenge without a usable answer decides nothing.                    *)
LEMMA UnusableIsInconclusive ==
  ASSUME NEW challenge, NEW tokens, NEW shape
  PROVE  Disposition(challenge, FALSE, tokens, shape) = "inconclusive"
BY PackOfOne DEF Disposition, BehavioralOracle, Result, ChallengeCode

-----------------------------------------------------------------------------
(* Types                                                                   *)

LEMMA ConstantTypes ==
  /\ Low \in Nat /\ High \in Nat /\ ExecTicks \in Nat /\ MinElapsed \in Nat
  /\ Timeout \in Nat /\ CallCap \in Nat /\ MaxCalls \in Nat /\ MaxTurns \in Nat
  /\ MinElapsed <= ExecTicks + Low /\ MinGatewayCalls \in Nat \ {0}
  /\ Len(Asked) \in Nat /\ DOMAIN Asked = 1..Len(Asked)
BY GatewayAssumption, MinGatewayCallsAssumption

(* What a step that rewrites one request leaves of the others.             *)
Rewrites(i, state, nonce, during) ==
  /\ request' \in [Ids -> Requests]
  /\ request'[i].state = state /\ request'[i].nonce = nonce
  /\ request'[i].age = 0 /\ request'[i].during = during
  /\ \A j \in Ids : j # i => request'[j] = request[j]

LEMMA BecomesRewrites ==
  ASSUME request \in [Ids -> Requests], NEW i \in Ids,
         NEW state \in {"unsent", "sent", "waiting", "answered", "failed"},
         NEW nonce \in BOOLEAN, NEW during \in 0..Len(Asked),
         Becomes(i, state, nonce, during)
  PROVE  Rewrites(i, state, nonce, during)
<1> DEFINE r == [state |-> state, nonce |-> nonce, age |-> 0, during |-> during]
<1>1. r \in Requests
  BY DEF Requests
<1>2. /\ r.state = state /\ r.nonce = nonce /\ r.age = 0 /\ r.during = during
  OBVIOUS
<1>3. request' = [request EXCEPT ![i] = r]
  BY DEF Becomes
<1> HIDE DEF r
<1>4. request' \in [Ids -> Requests] /\ request'[i] = r
  BY <1>1, <1>3
<1>5. \A j \in Ids : j # i => request'[j] = request[j]
  BY <1>3
<1> QED
  BY <1>2, <1>4, <1>5 DEF Rewrites

(* The parts of a request.                                                 *)
LEMMA RequestParts ==
  ASSUME TypeOK, NEW i \in Ids
  PROVE  /\ request[i].state \in {"unsent", "sent", "waiting", "answered", "failed"}
         /\ request[i].nonce \in BOOLEAN /\ request[i].age \in Nat
         /\ request[i].during \in 0..Len(Asked)
BY DEF TypeOK, Requests

LEMMA RecordCounts ==
  ASSUME TypeOK, NEW i, Record(i)
  PROVE  calls' # calls
BY DEF Record, TypeOK

(* What each step of a request makes of it.                                *)
LEMMA SendRewrites ==
  ASSUME TypeOK, NEW i \in Ids, NEW carries \in BOOLEAN, Send(i, carries)
  PROVE  Rewrites(i, "sent", carries, 0) /\ request[i].state = "unsent"
BY BecomesRewrites, ConstantTypes DEF Send, TypeOK

LEMMA FailsRewrites ==
  ASSUME TypeOK, NEW i \in Ids, Fails(i)
  PROVE  Rewrites(i, "failed", request[i].nonce, request[i].during)
BY BecomesRewrites, RequestParts DEF Fails, TypeOK

LEMMA RecordRewrites ==
  ASSUME TypeOK, NEW i \in Ids, Record(i)
  PROVE  /\ request[i].state = "sent"
         /\ \E nonce \in {request[i].nonce, FALSE} :
               Rewrites(i, "waiting", nonce, IF phase = "asked" THEN k ELSE 0)
<1> PICK nonce \in {request[i].nonce, FALSE} :
           Becomes(i, "waiting", nonce, IF phase = "asked" THEN k ELSE 0)
  BY DEF Record
<1>1. nonce \in BOOLEAN
  BY RequestParts
<1>2. (IF phase = "asked" THEN k ELSE 0) \in 0..Len(Asked)
  BY ConstantTypes DEF TypeOK
<1>3. Rewrites(i, "waiting", nonce, IF phase = "asked" THEN k ELSE 0)
  BY <1>1, <1>2, BecomesRewrites DEF TypeOK
<1> QED
  BY <1>3 DEF Record

LEMMA ReplyRewrites ==
  ASSUME TypeOK, NEW i \in Ids, Reply(i)
  PROVE  /\ request[i].state = "waiting" /\ Low <= request[i].age
         /\ Rewrites(i, "answered", request[i].nonce, request[i].during)
BY BecomesRewrites, RequestParts DEF Reply, Due, TypeOK

LEMMA TickRewrites ==
  ASSUME TypeOK, Tick
  PROVE  /\ request' \in [Ids -> Requests]
         /\ \A i \in Ids :
              /\ request'[i].state = request[i].state
              /\ request'[i].nonce = request[i].nonce
              /\ request'[i].during = request[i].during
              /\ request'[i].age = IF request[i].state = "waiting"
                                   THEN request[i].age + 1 ELSE request[i].age
<1>1. ASSUME NEW i \in Ids
      PROVE  /\ request'[i] \in Requests
             /\ request'[i].state = request[i].state
             /\ request'[i].nonce = request[i].nonce
             /\ request'[i].during = request[i].during
             /\ request'[i].age = IF request[i].state = "waiting"
                                  THEN request[i].age + 1 ELSE request[i].age
  <2>1. request[i] \in Requests
    BY DEF TypeOK
  <2>2. CASE request[i].state = "waiting"
    <3>1. request'[i] = [request[i] EXCEPT !.age = @ + 1]
      BY <2>2 DEF Tick, In
    <3> QED
      BY <2>1, <2>2, <3>1 DEF Requests
  <2>3. CASE request[i].state # "waiting"
    <3>1. request'[i] = request[i]
      BY <2>3 DEF Tick, In
    <3> QED
      BY <2>1, <2>3, <3>1
  <2> QED
    BY <2>2, <2>3
<1>2. request' \in [Ids -> Requests]
  <2>1. request' = [i \in Ids |-> IF i \in In("waiting")
                                 THEN [request[i] EXCEPT !.age = @ + 1]
                                 ELSE request[i]]
    BY DEF Tick
  <2> QED
    BY <1>1, <2>1
<1> QED
  BY <1>1, <1>2

(* An answer gives the challenge a disposition, unless the marks cannot be *)
(* read, and the tokens it carried.                                        *)
JudgedAs(d, tokens) ==
  /\ phase = "asked" /\ phase' \in {"judged", "raised"}
  /\ verdict' = verdict \/ verdict' = [verdict EXCEPT ![k] = d]
  /\ surfaced' = [surfaced EXCEPT ![k] = tokens]
  /\ UNCHANGED <<relay, api, gatewayVars, relayVars, k, before, elapsed>>

LEMMA AnswerIsJudged ==
  ASSUME TypeOK, HarnessAnswers \/ RelayAnswers \/ TimesOut
  PROVE  \E d \in Dispositions, tokens \in SUBSET Tokens :
           JudgedAs(d, tokens) /\ tokens \subseteq heard \cup {said}
<1>1. CASE HarnessAnswers
  <2> PICK ok \in BOOLEAN, shape \in BOOLEAN, tokens \in SUBSET heard :
             Judge(ok, tokens, shape)
    BY <1>1 DEF HarnessAnswers
  <2>1. Disposition(Asked[k], ok, tokens, shape) \in Dispositions
    BY DispositionType
  <2>2. JudgedAs(Disposition(Asked[k], ok, tokens, shape), tokens)
    BY DEF Judge, JudgedAs
  <2>3. tokens \in SUBSET Tokens
    BY DEF TypeOK
  <2> QED
    BY <2>1, <2>2, <2>3
<1>2. CASE Judge(FALSE, {}, FALSE)
  <2>1. JudgedAs("inconclusive", {})
    BY <1>2, UnusableIsInconclusive DEF Judge, JudgedAs
  <2> QED
    BY <2>1 DEF Dispositions
<1>3. CASE said \in Tokens /\ Judge(TRUE, {said}, TRUE)
  <2> DEFINE d == Disposition(Asked[k], TRUE, {said}, TRUE)
  <2>1. d \in Dispositions
    BY OracleDispositions, PackOfOne DEF Disposition, Dispositions
  <2>2. JudgedAs(d, {said})
    BY <1>3 DEF Judge, JudgedAs
  <2>3. {said} \in SUBSET Tokens /\ {said} \subseteq heard \cup {said}
    BY <1>3
  <2> HIDE DEF d
  <2> QED
    BY <2>1, <2>2, <2>3
<1> QED
  BY <1>1, <1>2, <1>3 DEF RelayAnswers, TimesOut

(* Every variable keeps its type, whatever the harness does.               *)
THEOREM TypeCorrect == Spec => []TypeOK
<1>1. Init => TypeOK
  <2> SUFFICES ASSUME Init PROVE TypeOK
    OBVIOUS
  <2>1. Unsent \in Requests
    BY ConstantTypes DEF Requests, Unsent
  <2>2. request \in [Ids -> Requests]
    BY <2>1 DEF Init
  <2>3. /\ verdict \in [DOMAIN Asked -> Dispositions \cup {"-"}]
        /\ surfaced \in [DOMAIN Asked -> SUBSET Tokens]
    BY DEF Init
  <2>4. /\ calls \in Nat /\ turns \in Nat /\ before \in Nat /\ elapsed \in Nat
        /\ turn \in 0..MaxCalls /\ k \in 0..Len(Asked)
    BY ConstantTypes DEF Init
  <2>5. /\ relay \in BOOLEAN /\ api \in {"chat", "responses"} /\ fault \in BOOLEAN
        /\ heard \subseteq Tokens /\ said \in Tokens \cup {"nothing", "failed"}
        /\ phase \in {"idle", "asked", "judged", "raised"}
        /\ ~(phase \in {"asked", "judged"})
    BY DEF Init
  <2> QED
    BY <2>2, <2>3, <2>4, <2>5 DEF TypeOK
<1>2. TypeOK /\ [Next]_vars => TypeOK'
  <2> SUFFICES ASSUME TypeOK, [Next]_vars PROVE TypeOK'
    OBVIOUS
  <2> USE ConstantTypes DEF gatewayVars, relayVars, gateVars
  <2>1. CASE \E i \in Ids : AnyCall(i)
    <3> PICK i \in Ids : AnyCall(i)
      BY <2>1
    <3> PICK carries \in BOOLEAN : Send(i, carries)
      BY DEF AnyCall
    <3>1. request' \in [Ids -> Requests]
      BY SendRewrites DEF Rewrites
    <3> QED
      BY <3>1 DEF AnyCall, Send, TypeOK
  <2>2. CASE \E i \in Ids : RelayTurn(i)
    <3> PICK i \in Ids : RelayTurn(i)
      BY <2>2
    <3>1. (said # "nothing") \in BOOLEAN /\ Send(i, said # "nothing")
      BY DEF RelayTurn
    <3>2. request' \in [Ids -> Requests]
      BY <3>1, SendRewrites DEF Rewrites
    <3> QED
      BY <3>1, <3>2 DEF RelayTurn, Send, TypeOK, Ids
  <2>3. CASE \E i \in Ids : NotFound(i) \/ BadRequest(i) \/ ReplyLost(i)
    <3> PICK i \in Ids : NotFound(i) \/ BadRequest(i) \/ ReplyLost(i)
      BY <2>3
    <3>1. Fails(i) /\ fault' \in BOOLEAN
      BY DEF NotFound, BadRequest, ReplyLost, TypeOK
    <3>2. request' \in [Ids -> Requests]
      BY <3>1, FailsRewrites DEF Rewrites
    <3> QED
      BY <3>1, <3>2 DEF Fails, Told, TypeOK
  <2>4. CASE \E i \in Ids : Record(i)
    <3> PICK i \in Ids : Record(i)
      BY <2>4
    <3>1. request' \in [Ids -> Requests]
      BY RecordRewrites DEF Rewrites
    <3> QED
      BY <3>1 DEF Record, TypeOK
  <2>5. CASE \E i \in Ids : Reply(i)
    <3> PICK i \in Ids : Reply(i)
      BY <2>5
    <3>1. request' \in [Ids -> Requests]
      BY ReplyRewrites DEF Rewrites
    <3>2. ResponseContent(request[i]) \in Tokens
      BY DEF ResponseContent, Tokens
    <3> QED
      BY <3>1, <3>2 DEF Reply, Told, TypeOK
  <2>6. CASE Ask
    BY <2>6 DEF Ask, TypeOK
  <2>7. CASE HarnessAnswers \/ RelayAnswers \/ TimesOut
    <3> PICK d \in Dispositions, tokens \in SUBSET Tokens : JudgedAs(d, tokens)
      BY <2>7, AnswerIsJudged
    <3>1. k \in DOMAIN Asked
      BY DEF JudgedAs, TypeOK
    <3>2. verdict' \in [DOMAIN Asked -> Dispositions \cup {"-"}]
      BY <3>1 DEF JudgedAs, TypeOK
    <3>3. surfaced' \in [DOMAIN Asked -> SUBSET Tokens]
      BY <3>1 DEF JudgedAs, TypeOK
    <3>4. fault' \in BOOLEAN
      BY <2>7 DEF HarnessAnswers, RelayAnswers, TimesOut, TypeOK
    <3> QED
      BY <3>2, <3>3, <3>4 DEF JudgedAs, TypeOK
  <2>11. CASE Tick
    <3>1. request' \in [Ids -> Requests]
      BY <2>11, TickRewrites
    <3> QED
      BY <2>11, <3>1 DEF Tick, TypeOK
  <2>12. CASE UNCHANGED vars
    BY <2>12 DEF vars, TypeOK
  <2> QED
    BY <2>1, <2>2, <2>3, <2>4, <2>5, <2>6, <2>7, <2>11, <2>12
       DEF Next
<1> QED
  BY <1>1, <1>2, PTL DEF Spec
-----------------------------------------------------------------------------
(* Calls and marks                                                         *)

(* The marks made during a challenge are those the gate will count, none   *)
(* belongs to a later challenge, and what is clear was called for.         *)
SentUncounted ==
  \A i \in Ids : request[i].state \in {"unsent", "sent"}
                   => request[i].during = 0

CountInv ==
  /\ SentUncounted
  /\ \A j \in DOMAIN Asked : k < j => CountedDuring(j) = {} /\ verdict[j] = "-"
  /\ phase = "asked" => /\ before <= calls /\ verdict[k] = "-"
                        /\ Cardinality(CountedDuring(k)) = calls - before
  /\ \A j \in DOMAIN Asked : Asked[j].oracle /\ verdict[j] = "clear"
       => /\ Cardinality(CountedDuring(j)) >= MinGatewayCalls
          /\ surfaced[j] # {}

(* A step that records no request leaves the counts as they are.           *)
LEMMA DuringKept ==
  ASSUME TypeOK, SentUncounted, [Next]_vars, ~\E i \in Ids : Record(i)
  PROVE  /\ \A j \in Ids : request'[j].during = request[j].during
         /\ SentUncounted'
<1> USE DEF SentUncounted
<1>1. CASE \E i \in Ids : AnyCall(i) \/ RelayTurn(i)
  <2> PICK i \in Ids, carries \in BOOLEAN : Send(i, carries)
    BY <1>1 DEF AnyCall, RelayTurn
  <2>1. Rewrites(i, "sent", carries, 0) /\ request[i].state = "unsent"
    BY SendRewrites
  <2> QED
    BY <2>1 DEF Rewrites
<1>2. CASE \E i \in Ids : NotFound(i) \/ BadRequest(i) \/ ReplyLost(i)
  <2> PICK i \in Ids : Fails(i)
    BY <1>2 DEF NotFound, BadRequest, ReplyLost
  <2> QED
    BY FailsRewrites DEF Rewrites
<1>3. CASE \E i \in Ids : Reply(i)
  BY <1>3, ReplyRewrites DEF Rewrites
<1>4. CASE Ask \/ HarnessAnswers \/ RelayAnswers \/ TimesOut
  BY <1>4 DEF Ask, HarnessAnswers, RelayAnswers, TimesOut, Judge, gatewayVars
<1>5. CASE Tick
  BY <1>5, TickRewrites
<1>6. CASE UNCHANGED vars
  BY <1>6 DEF vars, gatewayVars
<1> QED
  BY <1>1, <1>2, <1>3, <1>4, <1>5, <1>6 DEF Next

(* An oracle is clear only if it was called and a token was surfaced.      *)
LEMMA ClearOracle ==
  ASSUME TypeOK, NEW challenge, challenge.oracle, NEW ok, NEW tokens, NEW shape,
         Disposition(challenge, ok, tokens, shape) = "clear"
  PROVE  GatewayCalls >= MinGatewayCalls /\ TokenObserved(tokens)
<1> DEFINE run == [ok |-> ok, calls |-> GatewayCalls,
                   token |-> TokenObserved(tokens), fast |-> elapsed < MinElapsed]
<1>1. BehavioralOracle(run).disposition = "clear"
  BY DEF Disposition
<1>2. GatewayCalls \in Nat /\ MinGatewayCalls \in Nat
  BY ConstantTypes DEF TypeOK, GatewayCalls
<1>3. run.calls = GatewayCalls /\ run.token = TokenObserved(tokens)
  OBVIOUS
<1> HIDE DEF run
<1>4. ~(run.calls < MinGatewayCalls) /\ run.token
  BY <1>1, <1>2, <1>3 DEF BehavioralOracle, Result, TokenObserved
<1> QED
  BY <1>2, <1>3, <1>4

LEMMA CountStep ==
  ASSUME TypeOK, CountInv, [Next]_vars, TypeOK'
  PROVE  CountInv'
<1> USE ConstantTypes
<1>1. CASE \E i \in Ids : Record(i)
  <2> PICK i \in Ids : Record(i)
    BY <1>1
  <2>1. /\ request[i].during = 0
        /\ \A j \in Ids : j # i => request'[j] = request[j]
        /\ request'[i].during = (IF phase = "asked" THEN k ELSE 0)
        /\ request'[i].state = "waiting"
    BY RecordRewrites DEF CountInv, SentUncounted, Rewrites
  <2>2. calls' = calls + 1 /\ UNCHANGED gateVars
    BY DEF Record
  <2>3. \A j \in DOMAIN Asked : IsFiniteSet(CountedDuring(j))
    <3>1. IsFiniteSet(Ids)
      BY FS_Interval DEF Ids
    <3> QED
      BY <3>1, FS_Subset DEF CountedDuring
  <2>4. \A j \in DOMAIN Asked : phase # "asked" \/ j # k
          => CountedDuring(j)' = CountedDuring(j)
    BY <2>1 DEF CountedDuring, TypeOK
  <2>5. ASSUME phase = "asked"
        PROVE  /\ CountedDuring(k)' = CountedDuring(k) \cup {i}
               /\ i \notin CountedDuring(k) /\ k \in DOMAIN Asked
    <3>1. k \in 1..Len(Asked) /\ k' = k
      BY <2>2, <2>5 DEF TypeOK, gateVars
    <3> QED
      BY <2>1, <2>5, <3>1 DEF CountedDuring
  <2>6. ASSUME phase = "asked"
        PROVE  Cardinality(CountedDuring(k)') = Cardinality(CountedDuring(k)) + 1
    BY <2>3, <2>5, <2>6, FS_AddElement
  <2>7. SentUncounted'
    BY <2>1 DEF CountInv, SentUncounted
  <2>8. \A j \in DOMAIN Asked : k < j => CountedDuring(j)' = CountedDuring(j)
    BY <2>4 DEF TypeOK
  <2>9. ASSUME NEW j \in DOMAIN Asked, verdict[j] = "clear"
        PROVE  CountedDuring(j)' = CountedDuring(j)
    BY <2>4, <2>9 DEF CountInv
  <2>10. ASSUME phase = "asked"
         PROVE  /\ before <= calls' /\ verdict[k] = "-"
                /\ Cardinality(CountedDuring(k)') = calls' - before
    BY <2>2, <2>6, <2>10 DEF CountInv, TypeOK
  <2> QED
    BY <2>2, <2>7, <2>8, <2>9, <2>10 DEF CountInv, gateVars, CountedDuring
<1>2. ASSUME ~\E i \in Ids : Record(i)
      PROVE  /\ \A j : CountedDuring(j)' = CountedDuring(j)
             /\ SentUncounted'
  BY <1>2, DuringKept DEF CountedDuring, CountInv
<1>3. CASE Ask
  <2>1. ~\E i \in Ids : Record(i)
    BY <1>3, RecordCounts DEF Ask, gatewayVars
  <2>2. Cardinality({}) = 0
    BY FS_EmptySet
  <2>3. k' \in DOMAIN Asked /\ k < k'
    BY <1>3 DEF Ask, TypeOK
  <2>4. \A j \in DOMAIN Asked : CountedDuring(j)' = CountedDuring(j)
    BY <1>2, <2>1
  <2>5. CountedDuring(k)' = {} /\ verdict'[k'] = "-"
    BY <1>3, <2>3, <2>4 DEF Ask, CountInv
  <2>6. Cardinality(CountedDuring(k)') = calls' - before'
    <3>1. calls' - before' = 0
      BY <1>3 DEF Ask, TypeOK, gatewayVars
    <3> QED
      BY <2>2, <2>5, <3>1
  <2>7. \A j \in DOMAIN Asked : k' < j => CountedDuring(j)' = {} /\ verdict'[j] = "-"
    BY <1>3, <2>3, <2>4 DEF Ask, CountInv, TypeOK
  <2>8. before' <= calls'
    BY <1>3 DEF Ask, TypeOK, gatewayVars
  <2>9. \A j \in DOMAIN Asked : Asked[j].oracle /\ verdict'[j] = "clear"
          => /\ Cardinality(CountedDuring(j)') >= MinGatewayCalls
             /\ surfaced'[j] # {}
    BY <1>3, <2>4 DEF Ask, CountInv
  <2> QED
    BY <1>2, <2>1, <2>5, <2>6, <2>7, <2>8, <2>9 DEF CountInv
<1>4. ASSUME NEW ok, NEW tokens, NEW shape, Judge(ok, tokens, shape)
      PROVE  CountInv'
  <2>1. ~\E i \in Ids : Record(i)
    BY <1>4, RecordCounts DEF Judge, gatewayVars
  <2>2. phase = "asked" /\ k \in DOMAIN Asked
    BY <1>4 DEF Judge, TypeOK
  <2>3. GatewayCalls = calls - before \/ GatewayCalls = 0
    BY <2>2 DEF GatewayCalls, CountInv, TypeOK
  <2>4. ASSUME Asked[k].oracle, verdict'[k] = "clear"
        PROVE  /\ Cardinality(CountedDuring(k)) >= MinGatewayCalls
               /\ surfaced'[k] # {}
    <3>1. Disposition(Asked[k], ok, tokens, shape) = "clear"
      BY <1>4, <2>2, <2>4 DEF Judge, TypeOK, CountInv
    <3>2. GatewayCalls >= MinGatewayCalls /\ TokenObserved(tokens)
      BY <2>4, <3>1, ClearOracle
    <3>3. surfaced'[k] # {}
      BY <1>4, <2>2, <3>2 DEF Judge, TypeOK, TokenObserved
    <3> QED
      BY <2>2, <2>3, <3>2, <3>3 DEF CountInv, TypeOK
  <2>5. \A j \in DOMAIN Asked \ {k} :
          verdict'[j] = verdict[j] /\ surfaced'[j] = surfaced[j]
    BY <1>4, <2>2 DEF Judge, TypeOK
  <2>6. phase' # "asked" /\ k' = k
    BY <1>4 DEF Judge
  <2>7. \A j \in DOMAIN Asked : CountedDuring(j)' = CountedDuring(j)
    BY <1>2, <2>1
  <2>8. \A j \in DOMAIN Asked : k < j => CountedDuring(j)' = {} /\ verdict'[j] = "-"
    BY <2>2, <2>5, <2>7 DEF CountInv, TypeOK
  <2>9. \A j \in DOMAIN Asked : Asked[j].oracle /\ verdict'[j] = "clear"
          => /\ Cardinality(CountedDuring(j)') >= MinGatewayCalls
             /\ surfaced'[j] # {}
    BY <2>4, <2>5, <2>7 DEF CountInv
  <2> QED
    BY <1>2, <2>1, <2>6, <2>8, <2>9 DEF CountInv
<1>5. CASE HarnessAnswers \/ RelayAnswers \/ TimesOut
  BY <1>4, <1>5 DEF HarnessAnswers, RelayAnswers, TimesOut
<1>6. ASSUME UNCHANGED <<k, phase, before, verdict, surfaced, calls>>
      PROVE  CountInv'
  <2>1. ~\E i \in Ids : Record(i)
    BY <1>6, RecordCounts
  <2>2. \A j : CountedDuring(j)' = CountedDuring(j)
    BY <1>2, <2>1
  <2> QED
    BY <1>2, <1>6, <2>1, <2>2 DEF CountInv
<1>7. CASE \E i \in Ids : AnyCall(i) \/ RelayTurn(i)
  BY <1>6, <1>7 DEF AnyCall, RelayTurn, Send, gateVars
<1>8. CASE \E i \in Ids : NotFound(i) \/ BadRequest(i) \/ ReplyLost(i)
  BY <1>6, <1>8 DEF NotFound, BadRequest, ReplyLost, Fails, gateVars
<1>9. CASE \E i \in Ids : Reply(i)
  BY <1>6, <1>9 DEF Reply, gateVars
<1>10. CASE Tick
  BY <1>6, <1>10 DEF Tick
<1>11. CASE UNCHANGED vars
  BY <1>6, <1>11 DEF vars, gateVars, gatewayVars
<1> QED
  BY <1>1, <1>3, <1>5, <1>7, <1>8, <1>9, <1>10, <1>11 DEF Next
-----------------------------------------------------------------------------
(* Tokens                                                                  *)

(* Every token was brought by an answered call of its kind, and nothing is *)
(* said or surfaced that was not heard.                                    *)
HeardInv ==
  /\ "nonce" \in heard =>
       \E i \in Ids : request[i].state = "answered" /\ ~request[i].nonce
  /\ "answer" \in heard =>
       \E i \in Ids : request[i].state = "answered" /\ request[i].nonce
  /\ \A i \in Ids : request[i].nonce => "nonce" \in heard
  /\ said \in Tokens => said \in heard
  /\ \A j \in DOMAIN Asked : surfaced[j] \subseteq heard

LEMMA HeardStep ==
  ASSUME TypeOK, HeardInv, [Next]_vars
  PROVE  HeardInv'
<1> USE DEF gatewayVars, relayVars, gateVars
<1>1. ASSUME NEW i \in Ids, NEW carries \in BOOLEAN, Send(i, carries), said' = said,
             carries => "nonce" \in heard
      PROVE  HeardInv'
  <2>1. Rewrites(i, "sent", carries, 0) /\ request[i].state = "unsent"
    BY <1>1, SendRewrites
  <2>2. heard' = heard /\ surfaced' = surfaced
    BY <1>1 DEF Send
  <2>3. \A j \in Ids : request[j].state = "answered" => request'[j] = request[j]
    BY <2>1 DEF Rewrites
  <2>4. \A j \in Ids : request'[j].nonce => "nonce" \in heard
    BY <1>1, <2>1 DEF Rewrites, HeardInv
  <2> QED
    BY <1>1, <2>2, <2>3, <2>4 DEF HeardInv
<1>2. CASE \E i \in Ids : AnyCall(i)
  BY <1>1, <1>2 DEF AnyCall
<1>3. CASE \E i \in Ids : RelayTurn(i)
  <2> PICK i \in Ids : RelayTurn(i)
    BY <1>3
  <2>1. said # "nothing" => "nonce" \in heard
    BY DEF RelayTurn, HeardInv, Tokens, TypeOK
  <2>2. PICK carries \in BOOLEAN : carries = (said # "nothing")
    OBVIOUS
  <2>3. Send(i, carries) /\ said' = said
    BY <2>2 DEF RelayTurn
  <2> QED
    BY <1>1, <2>1, <2>2, <2>3
<1>4. CASE \E i \in Ids : NotFound(i) \/ BadRequest(i) \/ ReplyLost(i)
  <2> PICK i \in Ids : NotFound(i) \/ BadRequest(i) \/ ReplyLost(i)
    BY <1>4
  <2>1. request[i].state # "answered" /\ Fails(i)
    BY DEF NotFound, BadRequest, ReplyLost
  <2>2. \A j \in Ids : /\ request'[j].nonce <=> request[j].nonce
                       /\ j # i => request'[j] = request[j]
    BY <2>1, FailsRewrites DEF Rewrites
  <2>3. heard' = heard /\ surfaced' = surfaced /\ said' \in {said, "failed"}
    BY <2>1 DEF Fails, Told
  <2>4. \A j \in Ids : request[j].state = "answered" => request'[j] = request[j]
    BY <2>1, <2>2
  <2>5. said' \in Tokens => said' = said
    BY <2>3 DEF Tokens
  <2> QED
    BY <2>2, <2>3, <2>4, <2>5 DEF HeardInv
<1>5. CASE \E i \in Ids : Record(i)
  <2> PICK i \in Ids : Record(i)
    BY <1>5
  <2>1. PICK nonce \in {request[i].nonce, FALSE} :
               Rewrites(i, "waiting", nonce, IF phase = "asked" THEN k ELSE 0)
    BY RecordRewrites
  <2>2. request[i].state = "sent"
    BY RecordRewrites
  <2>3. \A j \in Ids : /\ request'[j].nonce => request[j].nonce
                       /\ j # i => request'[j] = request[j]
    BY <2>1 DEF Rewrites
  <2>4. UNCHANGED <<heard, said, surfaced>>
    BY DEF Record
  <2>5. \A j \in Ids : request[j].state = "answered" => request'[j] = request[j]
    BY <2>2, <2>3
  <2> QED
    BY <2>3, <2>4, <2>5 DEF HeardInv
<1>6. CASE \E i \in Ids : Reply(i)
  <2> PICK i \in Ids : Reply(i)
    BY <1>6
  <2> DEFINE content == ResponseContent(request[i])
  <2>1. /\ heard' = heard \cup {content} /\ said' \in {said, content}
        /\ surfaced' = surfaced
    BY DEF Reply, Told
  <2>2. content = (IF request[i].nonce THEN "answer" ELSE "nonce")
    BY DEF ResponseContent
  <2>3. \A j \in Ids : /\ request'[j].nonce <=> request[j].nonce
                       /\ j # i => request'[j] = request[j]
                       /\ j = i => request'[j].state = "answered"
    BY ReplyRewrites DEF Rewrites
  <2> HIDE DEF content
  <2>4. \A j \in Ids : request[j].state = "answered" => request'[j].state = "answered"
    BY <2>3
  <2>5. "nonce" \in heard' =>
          \E j \in Ids : request'[j].state = "answered" /\ ~request'[j].nonce
    <3>1. CASE "nonce" \in heard
      BY <2>3, <2>4, <3>1 DEF HeardInv
    <3>2. CASE content = "nonce"
      BY <2>2, <2>3, <3>2
    <3> QED
      BY <2>1, <3>1, <3>2
  <2>6. "answer" \in heard' =>
          \E j \in Ids : request'[j].state = "answered" /\ request'[j].nonce
    <3>1. CASE "answer" \in heard
      BY <2>3, <2>4, <3>1 DEF HeardInv
    <3>2. CASE content = "answer"
      BY <2>2, <2>3, <3>2
    <3> QED
      BY <2>1, <3>1, <3>2
  <2>7. \A j \in Ids : request'[j].nonce => "nonce" \in heard'
    BY <2>1, <2>3 DEF HeardInv
  <2>8. said' \in Tokens => said' \in heard'
    BY <2>1 DEF HeardInv
  <2> QED
    BY <2>1, <2>5, <2>6, <2>7, <2>8 DEF HeardInv
<1>7. CASE Ask
  BY <1>7 DEF Ask, HeardInv, Tokens
<1>8. ASSUME NEW d, NEW tokens, JudgedAs(d, tokens), tokens \subseteq heard
      PROVE  HeardInv'
  BY <1>8 DEF JudgedAs, HeardInv, TypeOK
<1>9. CASE HarnessAnswers \/ RelayAnswers \/ TimesOut
  BY <1>8, <1>9, AnswerIsJudged DEF HeardInv
<1>10. CASE Tick
  <2>1. UNCHANGED <<heard, said, surfaced>>
    BY <1>10 DEF Tick
  <2> QED
    BY <1>10, <2>1, TickRewrites DEF HeardInv
<1>11. CASE UNCHANGED vars
  BY <1>11 DEF vars, HeardInv
<1> QED
  BY <1>2, <1>3, <1>4, <1>5, <1>6, <1>7, <1>9, <1>10, <1>11 DEF Next

(* A clear oracle was asked of the model while it was put, and answered    *)
(* with what the model said.                                               *)
THEOREM ClearMeansCalledHolds == Spec => []ClearMeansCalled
<1>1. Init => CountInv /\ HeardInv
  <2> SUFFICES ASSUME Init PROVE CountInv /\ HeardInv
    OBVIOUS
  <2>1. \A i \in Ids : request[i] = Unsent
    BY DEF Init
  <2>2. \A j \in DOMAIN Asked : CountedDuring(j) = {}
    BY <2>1, ConstantTypes DEF CountedDuring, Unsent
  <2>3. CountInv
    BY <2>1, <2>2, ConstantTypes DEF Init, CountInv, SentUncounted, Unsent
  <2>4. \A i \in Ids : ~request[i].nonce
    BY <2>1 DEF Unsent
  <2>5. HeardInv
    BY <2>4 DEF Init, HeardInv, Tokens
  <2> QED
    BY <2>3, <2>5
<1>2. TypeOK /\ CountInv /\ HeardInv /\ TypeOK' /\ [Next]_vars
        => CountInv' /\ HeardInv'
  BY CountStep, HeardStep
<1>3. TypeOK /\ CountInv /\ HeardInv => ClearMeansCalled
  <2> SUFFICES ASSUME TypeOK, CountInv, HeardInv PROVE ClearMeansCalled
    OBVIOUS
  <2>1. heard \subseteq Earned
    BY DEF HeardInv, Earned, In, TypeOK, Tokens
  <2> QED
    BY <2>1 DEF CountInv, HeardInv, ClearMeansCalled
<1> QED
  BY <1>1, <1>2, <1>3, TypeCorrect, PTL DEF Spec
-----------------------------------------------------------------------------
(* Relays                                                                  *)

(* While a challenge is put, a call that is waiting for its answer has     *)
(* left a mark and has waited no longer than the challenge; a relay told   *)
(* something was told it after the latency; and a failure has a cause.     *)
RelayInv ==
  /\ turn # 0 => request[turn].state \in {"sent", "waiting"}
  /\ \A i \in Ids : request[i].state = "sent" => request[i].age = 0
  /\ phase = "asked" =>
       /\ before <= calls /\ ExecTicks <= elapsed
       /\ turn # 0 /\ request[turn].state = "waiting"
            => before < calls /\ ExecTicks + request[turn].age <= elapsed
       /\ said \in Tokens => before < calls /\ ExecTicks + Low <= elapsed
  /\ said = "failed" => fault \/ api = "responses"

LEMMA RelayStep ==
  ASSUME TypeOK, RelayInv, [Next]_vars
  PROVE  RelayInv'
<1> USE ConstantTypes DEF gatewayVars, relayVars, gateVars
<1>1. CASE \E i \in Ids : AnyCall(i)
  <2> PICK i \in Ids, carries \in BOOLEAN : AnyCall(i) /\ Send(i, carries)
    BY <1>1 DEF AnyCall
  <2>1. Rewrites(i, "sent", carries, 0) /\ request[i].state = "unsent"
    BY SendRewrites
  <2>2. turn # i
    BY <2>1 DEF RelayInv, Ids
  <2>3. turn # 0 => turn \in Ids /\ request'[turn] = request[turn]
    BY <2>1, <2>2 DEF Rewrites, TypeOK, Ids
  <2>4. \A j \in Ids : request'[j].state = "sent" => request'[j].age = 0
    BY <2>1 DEF Rewrites, RelayInv
  <2>5. UNCHANGED <<api, calls, turn, said, phase, before, elapsed, fault>>
    BY DEF AnyCall, Send
  <2> QED
    BY <2>3, <2>4, <2>5 DEF RelayInv
<1>2. CASE \E i \in Ids : RelayTurn(i)
  <2> PICK i \in Ids : RelayTurn(i)
    BY <1>2
  <2>1. PICK carries \in BOOLEAN : Send(i, carries)
    BY DEF RelayTurn
  <2>2. Rewrites(i, "sent", carries, 0)
    BY <2>1, SendRewrites
  <2>3. /\ turn' = i /\ phase = "asked"
        /\ UNCHANGED <<api, calls, said, phase, before, elapsed, fault>>
    BY <2>1 DEF RelayTurn, Send
  <2>4. request'[turn'].state = "sent"
    BY <2>2, <2>3 DEF Rewrites
  <2>5. \A j \in Ids : request'[j].state = "sent" => request'[j].age = 0
    BY <2>2 DEF Rewrites, RelayInv
  <2> QED
    BY <2>3, <2>4, <2>5 DEF RelayInv
<1>3. CASE \E i \in Ids : Record(i)
  <2> PICK i \in Ids : Record(i)
    BY <1>3
  <2>1. PICK nonce \in {request[i].nonce, FALSE} :
               Rewrites(i, "waiting", nonce, IF phase = "asked" THEN k ELSE 0)
    BY RecordRewrites
  <2>2. /\ calls' = calls + 1
        /\ UNCHANGED <<api, turn, said, phase, before, elapsed, fault>>
    BY DEF Record
  <2>3. \A j \in Ids : request'[j].state = "sent" => request'[j].age = 0
    BY <2>1 DEF Rewrites, RelayInv
  <2>4. turn # 0 => turn \in Ids
    BY DEF TypeOK, Ids
  <2>5. turn # 0 => request'[turn].state \in {"sent", "waiting"}
    BY <2>1, <2>4 DEF Rewrites, RelayInv
  <2>6. ASSUME phase = "asked", turn # 0, request'[turn].state = "waiting"
        PROVE  ExecTicks + request'[turn].age <= elapsed
    <3>1. CASE turn = i
      BY <2>1, <2>6, <3>1 DEF Rewrites, RelayInv, TypeOK
    <3>2. CASE turn # i
      BY <2>1, <2>4, <2>6, <3>2 DEF Rewrites, RelayInv
    <3> QED
      BY <3>1, <3>2
  <2>7. phase = "asked" => before <= calls
    BY DEF RelayInv
  <2>8. phase = "asked" => before <= calls' /\ before < calls'
    BY <2>2, <2>7 DEF TypeOK
  <2> QED
    BY <2>2, <2>3, <2>5, <2>6, <2>8 DEF RelayInv
<1>4. CASE \E i \in Ids : NotFound(i) \/ BadRequest(i) \/ ReplyLost(i)
  <2> PICK i \in Ids : NotFound(i) \/ BadRequest(i) \/ ReplyLost(i)
    BY <1>4
  <2>1. Fails(i) /\ (fault' \/ api = "responses") /\ (fault => fault')
    <3>1. CASE NotFound(i)
      BY <3>1 DEF NotFound, Served, TypeOK
    <3>2. CASE BadRequest(i) \/ ReplyLost(i)
      BY <3>2 DEF BadRequest, ReplyLost
    <3> QED
      BY <3>1, <3>2
  <2>2. Rewrites(i, "failed", request[i].nonce, request[i].during)
    BY <2>1, FailsRewrites
  <2>3. UNCHANGED <<api, calls, phase, before, elapsed>>
    BY <2>1 DEF Fails
  <2>4. \/ turn' = 0 /\ said' = "failed"
        \/ turn' = turn /\ turn # i /\ said' = said
    BY <2>1 DEF Fails, Told
  <2>5. turn' # 0 => /\ turn' = turn /\ turn \in Ids
                     /\ request'[turn] = request[turn]
    BY <2>2, <2>4 DEF Rewrites, TypeOK, Ids
  <2>6. \A j \in Ids : request'[j].state = "sent" => request'[j].age = 0
    BY <2>2 DEF Rewrites, RelayInv
  <2>7. said' \in Tokens => said' = said
    BY <2>4 DEF Tokens
  <2> QED
    BY <2>1, <2>3, <2>4, <2>5, <2>6, <2>7 DEF RelayInv
<1>5. CASE \E i \in Ids : Reply(i)
  <2> PICK i \in Ids : Reply(i)
    BY <1>5
  <2> DEFINE content == ResponseContent(request[i])
  <2>1. content # "failed"
    BY DEF ResponseContent
  <2>2. /\ request[i].state = "waiting" /\ Low <= request[i].age
        /\ Rewrites(i, "answered", request[i].nonce, request[i].during)
    BY ReplyRewrites
  <2>3. UNCHANGED <<api, calls, phase, before, elapsed, fault>>
    BY DEF Reply
  <2>4. \/ turn = i /\ turn' = 0 /\ said' = content
        \/ turn' = turn /\ turn # i /\ said' = said
    BY DEF Reply, Told
  <2> HIDE DEF content
  <2>5. turn' # 0 => /\ turn' = turn /\ turn \in Ids
                     /\ request'[turn] = request[turn]
    BY <2>2, <2>4 DEF Rewrites, TypeOK, Ids
  <2>6. \A j \in Ids : request'[j].state = "sent" => request'[j].age = 0
    BY <2>2 DEF Rewrites, RelayInv
  <2>7. ASSUME phase = "asked", said' \in Tokens
        PROVE  before < calls /\ ExecTicks + Low <= elapsed
    <3>1. CASE turn = i
      <4>1. i # 0 /\ request[i].age \in Nat
        BY RequestParts DEF Ids
      <4>2. before < calls /\ ExecTicks + request[i].age <= elapsed
        BY <2>2, <2>7, <3>1, <4>1 DEF RelayInv
      <4> QED
        BY <2>2, <4>1, <4>2 DEF TypeOK
    <3>2. CASE turn # i
      BY <2>4, <2>7, <3>2 DEF RelayInv
    <3> QED
      BY <3>1, <3>2
  <2>8. said' = "failed" => said = "failed"
    BY <2>1, <2>4
  <2> QED
    BY <2>3, <2>5, <2>6, <2>7, <2>8 DEF RelayInv
<1>6. CASE Ask
  <2>1. /\ turn' = 0 /\ said' = "nothing" /\ calls' = calls /\ before' = calls
        /\ elapsed' = ExecTicks /\ request' = request
    BY <1>6 DEF Ask
  <2> QED
    BY <2>1 DEF RelayInv, Tokens, TypeOK
<1>7. CASE HarnessAnswers \/ RelayAnswers \/ TimesOut
  <2>1. PICK d, tokens : JudgedAs(d, tokens)
    BY <1>7, AnswerIsJudged
  <2>2. fault => fault'
    BY <1>7 DEF HarnessAnswers, RelayAnswers, TimesOut
  <2> QED
    BY <2>1, <2>2 DEF JudgedAs, RelayInv
<1>8. CASE Tick
  <2>1. /\ UNCHANGED <<api, calls, turn, said, phase, before, fault>>
        /\ phase = "asked" => elapsed' = elapsed + 1
    BY <1>8 DEF Tick
  <2>2. turn # 0 => turn \in Ids /\ request[turn].age \in Nat
    BY RequestParts DEF TypeOK, Ids
  <2>3. \A j \in Ids : request'[j].state = request[j].state
    BY <1>8, TickRewrites
  <2>4. \A j \in Ids : request'[j].state = "sent" => request'[j].age = 0
    BY <1>8, TickRewrites DEF RelayInv
  <2>5. turn # 0 => request'[turn].state \in {"sent", "waiting"}
    BY <2>2, <2>3 DEF RelayInv
  <2>6. ASSUME phase = "asked", turn # 0, request'[turn].state = "waiting"
        PROVE  before < calls /\ ExecTicks + request'[turn].age <= elapsed'
    <3>1. request[turn].state = "waiting" /\ request'[turn].age = request[turn].age + 1
      BY <1>8, <2>2, <2>3, <2>6, TickRewrites
    <3>2. before < calls /\ ExecTicks + request[turn].age <= elapsed
      BY <2>6, <3>1 DEF RelayInv
    <3> QED
      BY <2>1, <2>2, <2>6, <3>1, <3>2 DEF TypeOK
  <2>7. ASSUME phase = "asked"
        PROVE  /\ before <= calls /\ ExecTicks <= elapsed'
               /\ said \in Tokens => before < calls /\ ExecTicks + Low <= elapsed'
    BY <2>1, <2>7 DEF RelayInv, TypeOK
  <2> QED
    BY <2>1, <2>4, <2>5, <2>6, <2>7 DEF RelayInv
<1>9. CASE UNCHANGED vars
  BY <1>9 DEF vars, RelayInv
<1> QED
  BY <1>1, <1>2, <1>3, <1>4, <1>5, <1>6, <1>7, <1>8, <1>9 DEF Next

LEMMA RelayInit == Init => RelayInv
<1> SUFFICES ASSUME Init PROVE RelayInv
  OBVIOUS
<1>1. \A i \in Ids : request[i].age = 0
  BY DEF Init, Unsent
<1> QED
  BY <1>1 DEF Init, RelayInv, Tokens

(* An answer that carries a token, came after a call and not too fast is   *)
(* clear, or an oracle wants more calls.                                   *)
LEMMA RelayedAnswer ==
  ASSUME TypeOK, RelayInv, phase = "asked", said \in Tokens, NEW challenge
  PROVE  /\ Disposition(challenge, TRUE, {said}, TRUE)
              \in {"clear", "inconclusive"}
         /\ MinGatewayCalls = 1
              => Disposition(challenge, TRUE, {said}, TRUE) = "clear"
<1> USE ConstantTypes
<1> DEFINE oracle == [ok |-> TRUE, calls |-> GatewayCalls,
                      token |-> TokenObserved({said}),
                      fast |-> elapsed < MinElapsed]
           pack == [call |-> challenge.call, bound |-> challenge.bound, ok |-> TRUE,
                    calls |-> GatewayCalls,
                    token |-> TokenObserved({said}), shape |-> TRUE]
<1>1. GatewayCalls \in Nat /\ GatewayCalls >= 1
  BY DEF TypeOK, RelayInv, GatewayCalls
<1>2. TokenObserved({said})
  BY DEF TokenObserved
<1>3. ~(elapsed < MinElapsed)
  BY DEF TypeOK, RelayInv
<1>4. /\ oracle.ok /\ oracle.calls = GatewayCalls /\ oracle.token /\ ~oracle.fast
      /\ pack.ok /\ pack.calls = GatewayCalls /\ pack.token /\ pack.shape
  BY <1>2, <1>3
<1>5. Disposition(challenge, TRUE, {said}, TRUE)
        = IF challenge.oracle THEN BehavioralOracle(oracle).disposition
          ELSE BehavioralChallengePack(<<pack>>).disposition
  BY DEF Disposition
<1> HIDE DEF oracle, pack
<1>6. /\ BehavioralOracle(oracle).disposition \in {"clear", "inconclusive"}
      /\ MinGatewayCalls = 1 => BehavioralOracle(oracle).disposition = "clear"
  BY <1>1, <1>4 DEF BehavioralOracle, Result
<1>7. ChallengeCode(pack) = "challenge-observed"
  BY <1>1, <1>4 DEF ChallengeCode
<1> QED
  BY <1>5, <1>6, <1>7, PackOfOne

(* What a step makes of the verdicts of a relay.                           *)
LEMMA RelayVerdict ==
  ASSUME TypeOK, RelayInv, [Next]_vars, relay, NEW j \in DOMAIN Asked,
         verdict'[j] # verdict[j]
  PROVE  /\ verdict'[j] \in {"clear", "inconclusive"}
         /\ MinGatewayCalls = 1 /\ api = "chat" /\ ~fault'
              => verdict'[j] = "clear"
<1> USE DEF TypeOK, gatewayVars, relayVars, gateVars
<1>1. RelayAnswers \/ TimesOut
  BY DEF Next, AnyCall, RelayTurn, Send, NotFound, BadRequest, ReplyLost, Fails,
         Record, Reply, Ask, HarnessAnswers, Tick, vars
<1>2. CASE TimesOut
  BY <1>2, UnusableIsInconclusive DEF TimesOut, Judge
<1>3. CASE RelayAnswers /\ said = "failed" /\ Judge(FALSE, {}, FALSE)
  <2>1. verdict'[j] = "inconclusive"
    BY <1>3, UnusableIsInconclusive DEF Judge
  <2>2. fault' \/ api = "responses"
    BY <1>3 DEF RelayAnswers, RelayInv
  <2> QED
    BY <2>1, <2>2
<1>4. CASE RelayAnswers /\ said \in Tokens /\ Judge(TRUE, {said}, TRUE)
  <2>1. said \in Tokens /\ phase = "asked"
    BY <1>4 DEF Judge
  <2>2. verdict'[j] = Disposition(Asked[k], TRUE, {said}, TRUE)
    BY <1>4 DEF Judge
  <2> QED
    BY <2>1, <2>2, RelayedAnswer
<1> QED
  BY <1>1, <1>2, <1>3, <1>4 DEF RelayAnswers

(* Whatever is lost, delayed or mangled, a relay is never held.            *)
THEOREM RelayIsNeverHeldHolds == Spec => []RelayIsNeverHeld
<1>1. Init => RelayInv /\ RelayIsNeverHeld
  BY RelayInit DEF Init, RelayIsNeverHeld
<1>2. TypeOK /\ RelayInv /\ RelayIsNeverHeld /\ [Next]_vars
        => RelayInv' /\ RelayIsNeverHeld'
  <2> SUFFICES ASSUME TypeOK, RelayInv, RelayIsNeverHeld, [Next]_vars
               PROVE  RelayInv' /\ RelayIsNeverHeld'
    OBVIOUS
  <2>1. relay' = relay
    BY DEF Next, AnyCall, RelayTurn, Send, NotFound, BadRequest, ReplyLost, Fails,
           Record, Reply, Ask, HarnessAnswers, RelayAnswers, TimesOut, Judge, Tick, vars
  <2> QED
    BY <2>1, RelayStep, RelayVerdict DEF RelayIsNeverHeld
<1> QED
  BY <1>1, <1>2, TypeCorrect, PTL DEF Spec

(* With the default of one call, a relay over chat completions that no     *)
(* fault meets passes whatever it is asked.                                *)
THEOREM ChatRelayPassesHolds ==
  ASSUME MinGatewayCalls = 1
  PROVE  Spec => []ChatRelayPasses
<1>1. Init => RelayInv /\ ChatRelayPasses
  BY RelayInit DEF Init, ChatRelayPasses
<1>2. TypeOK /\ RelayInv /\ ChatRelayPasses /\ [Next]_vars
        => RelayInv' /\ ChatRelayPasses'
  <2> SUFFICES ASSUME TypeOK, RelayInv, ChatRelayPasses, [Next]_vars
               PROVE  RelayInv' /\ ChatRelayPasses'
    OBVIOUS
  <2>1. relay' = relay /\ api' = api
    BY DEF Next, AnyCall, RelayTurn, Send, NotFound, BadRequest, ReplyLost, Fails,
           Record, Reply, Ask, HarnessAnswers, RelayAnswers, TimesOut, Judge, Tick, vars
  <2>2. fault => fault'
    BY DEF Next, AnyCall, RelayTurn, Send, NotFound, BadRequest, ReplyLost, Fails,
           Record, Reply, Ask, HarnessAnswers, RelayAnswers, TimesOut, Judge, Tick, vars
  <2> QED
    BY <2>1, <2>2, RelayStep, RelayVerdict DEF ChatRelayPasses
<1> QED
  BY <1>1, <1>2, TypeCorrect, PTL DEF Spec
=============================================================================
