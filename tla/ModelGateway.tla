---------------------------- MODULE ModelGateway ----------------------------
(***************************************************************************)
(* The fake model gateway beside a submitted container (fake_gateway.py)   *)
(* and the private challenges the gate puts to that container              *)
(* (gate._run_private_challenge).  The gateway appends a mark to a file    *)
(* the gate reads, waits a model's latency, and answers with its nonce, or *)
(* with the oracle answer once a request brings the nonce back.  The gate  *)
(* knows the harness only by what it returns, how long it took and the     *)
(* marks that appeared meanwhile.  The harness is the environment: it may  *)
(* call at any time, and can surface no token it was never sent.  A relay  *)
(* asks the model about each challenge and returns what the model said.    *)
(***************************************************************************)
EXTENDS PolicyModules, FiniteSets

CONSTANTS
  Asked,        \* the challenges, in order: [oracle, call, bound : BOOLEAN]
  Surface,      \* which paths the sidecar serves: "model" or "all"
  Low, High,    \* latency_range, in ticks
  ExecTicks,    \* what the docker exec of a challenge adds at least
  MinElapsed,   \* BehavioralOracleModule.min_elapsed_ms
  Timeout,      \* the timeout of a challenge
  CallCap,      \* marks the state file may hold: 64 KB of them
  MaxCalls,     \* bound: requests the harness sends
  MaxTurns      \* bound: requests a relay makes for one challenge

ASSUME GatewayAssumption ==
  /\ Asked \in Seq([oracle : BOOLEAN, call : BOOLEAN, bound : BOOLEAN])
  /\ \A k \in DOMAIN Asked : Asked[k].bound => Asked[k].call
  /\ Surface \in {"model", "all"}
  /\ Low \in Nat /\ High \in Nat /\ Low <= High
  /\ ExecTicks \in Nat /\ MinElapsed \in Nat /\ MinElapsed <= ExecTicks + Low
  /\ Timeout \in Nat /\ ExecTicks < Timeout
  /\ CallCap \in Nat /\ MaxCalls \in Nat /\ MaxTurns \in Nat

VARIABLES
  relay,     \* whether the harness is a relay
  api,       \* the API it speaks: "chat" or "responses"
  request,   \* its requests to the gateway
  calls,     \* marks in the state file
  heard,     \* the tokens the gateway's answers brought
  turn,      \* the request a relay waits for, or 0
  said,      \* what the model last said to a relay about this challenge
  turns,     \* requests it made about this challenge
  k,         \* the challenge put, or put last
  phase,     \* "idle", "asked", "judged", "raised"
  before,    \* calls_before
  elapsed,   \* ticks since the challenge was put
  verdict,   \* disposition of each challenge, or "-"
  surfaced,  \* history: the tokens each answer carried
  fault      \* history: a fault that is not the harness's own happened

gatewayVars == <<request, calls, heard>>
relayVars == <<turn, said, turns>>
gateVars == <<k, phase, before, elapsed, verdict, surfaced>>
vars == <<relay, api, gatewayVars, relayVars, gateVars, fault>>

Tokens == {"nonce", "answer"}
Ids == 1..MaxCalls
Requests ==
  [state : {"unsent", "sent", "waiting", "answered", "failed"},
   nonce : BOOLEAN, age : Nat, during : 0..Len(Asked)]
Unsent == [state |-> "unsent", nonce |-> FALSE, age |-> 0, during |-> 0]
Becomes(i, state, nonce, during) ==
  request' = [request EXCEPT ![i] = [state |-> state, nonce |-> nonce,
                                     age |-> 0, during |-> during]]
In(state) == {i \in Ids : request[i].state = state}

Init ==
  /\ relay \in BOOLEAN /\ api \in {"chat", "responses"}
  /\ request = [i \in Ids |-> Unsent] /\ calls = 0 /\ heard = {}
  /\ turn = 0 /\ said = "nothing" /\ turns = 0
  /\ k = 0 /\ phase = "idle" /\ before = 0 /\ elapsed = 0
  /\ verdict = [j \in DOMAIN Asked |-> "-"]
  /\ surfaced = [j \in DOMAIN Asked |-> {}]
  /\ fault = FALSE

-----------------------------------------------------------------------------
(* The harness                                                             *)

Send(i, carries) ==
  /\ request[i].state = "unsent" /\ i - 1 \notin In("unsent")
  /\ Becomes(i, "sent", carries, 0)
  /\ UNCHANGED <<relay, api, calls, heard, gateVars, fault>>

(* Whatever it is for: at start-up, between challenges, in the background. *)
AnyCall(i) ==
  /\ ~relay \/ phase = "idle"
  /\ \E carries \in BOOLEAN : /\ carries => ~relay /\ "nonce" \in heard
                              /\ Send(i, carries)
  /\ UNCHANGED relayVars

(* A relay's next turn shows the model what it said before.                *)
RelayTurn(i) ==
  /\ relay /\ phase = "asked" /\ turn = 0 /\ turns < MaxTurns
  /\ said # "failed"
  /\ Send(i, said # "nothing")
  /\ turn' = i /\ turns' = turns + 1
  /\ UNCHANGED said

-----------------------------------------------------------------------------
(* The gateway: one handler per request, interleaved at the latency        *)

Served == api = "chat" \/ Surface = "all"

(* What a relay makes of the reply to the request it waits for.            *)
Told(i, reply) ==
  /\ turn' = IF turn = i THEN 0 ELSE turn
  /\ said' = IF turn = i THEN reply ELSE said
  /\ UNCHANGED turns

(* The answer holds no token: 404, 400, or a connection that broke.        *)
Fails(i) ==
  /\ Becomes(i, "failed", request[i].nonce, request[i].during)
  /\ Told(i, "failed")
  /\ UNCHANGED <<relay, api, calls, heard, gateVars>>

NotFound(i) ==
  /\ request[i].state = "sent" /\ ~Served
  /\ Fails(i) /\ UNCHANGED fault

(* A request that cannot be parsed, or whose mark cannot be written.       *)
BadRequest(i) ==
  /\ request[i].state = "sent" /\ Served
  /\ Fails(i) /\ fault' = TRUE

(* The mark is made before the latency.  A body with a framing error is    *)
(* dropped and the request answered as if it had none.                     *)
Record(i) ==
  /\ request[i].state = "sent" /\ Served
  /\ \E nonce \in {request[i].nonce, FALSE} :
       Becomes(i, "waiting", nonce, IF phase = "asked" THEN k ELSE 0)
  /\ calls' = calls + 1
  /\ UNCHANGED <<relay, api, heard, relayVars, gateVars, fault>>

ResponseContent(r) == IF r.nonce THEN "answer" ELSE "nonce"

(* Slip: the latency is not simulated.                                     *)
AtOnce(i) == TRUE

Due(i) == request[i].age >= Low

Reply(i) ==
  /\ request[i].state = "waiting" /\ Due(i)
  /\ LET content == ResponseContent(request[i]) IN
       /\ heard' = heard \cup {content}
       /\ Told(i, content)
  /\ Becomes(i, "answered", request[i].nonce, request[i].during)
  /\ UNCHANGED <<relay, api, calls, gateVars, fault>>

ReplyLost(i) ==
  /\ request[i].state = "waiting" /\ Due(i)
  /\ Fails(i) /\ fault' = TRUE

-----------------------------------------------------------------------------
(* The gate                                                                *)

Readable == calls <= CallCap

(* Slips: the marks of earlier calls, and the one token only.              *)
CallsOfContainer == calls
OnlyNonce(tokens) == "nonce" \in tokens

GatewayCalls == IF calls > before THEN calls - before ELSE 0
TokenObserved(tokens) == tokens \cap Tokens # {}

Disposition(challenge, ok, tokens, shape) ==
  IF challenge.oracle
  THEN BehavioralOracle([ok |-> ok, calls |-> GatewayCalls,
                         token |-> TokenObserved(tokens),
                         fast |-> elapsed < MinElapsed]).disposition
  ELSE BehavioralChallengePack(
         <<[call |-> challenge.call, bound |-> challenge.bound,
            ok |-> ok, calls |-> GatewayCalls, token |-> TokenObserved(tokens),
            shape |-> shape]>>).disposition

(* The next challenge is put only while every one before it was clear.     *)
Ask ==
  /\ phase \in {"idle", "judged"} /\ k < Len(Asked)
  /\ phase = "judged" => verdict[k] = "clear"
  /\ k' = k + 1
  /\ phase' = IF Readable THEN "asked" ELSE "raised"
  /\ before' = calls
  /\ elapsed' = ExecTicks
  /\ turn' = 0 /\ said' = "nothing" /\ turns' = 0
  /\ UNCHANGED <<relay, api, gatewayVars, verdict, surfaced, fault>>

Judge(ok, tokens, shape) ==
  /\ phase = "asked"
  /\ phase' = IF Readable THEN "judged" ELSE "raised"
  /\ verdict' = IF Readable
                THEN [verdict EXCEPT ![k] = Disposition(Asked[k], ok, tokens, shape)]
                ELSE verdict
  /\ surfaced' = [surfaced EXCEPT ![k] = tokens]
  /\ UNCHANGED <<relay, api, gatewayVars, relayVars, k, before, elapsed>>

HarnessAnswers ==
  /\ ~relay
  /\ \E ok \in BOOLEAN, shape \in BOOLEAN, tokens \in SUBSET heard :
       /\ ~ok => tokens = {} /\ ~shape
       /\ Judge(ok, tokens, shape)
  /\ UNCHANGED fault

RelayAnswers ==
  /\ relay /\ turn = 0
  /\ \/ said = "failed" /\ Judge(FALSE, {}, FALSE)
     \/ said \in Tokens /\ Judge(TRUE, {said}, TRUE)
  /\ UNCHANGED fault

TimesOut == elapsed = Timeout /\ Judge(FALSE, {}, FALSE) /\ fault' = TRUE

(* Time passes for the challenge and for every reply that is held back,    *)
(* none of them longer than its bound.                                     *)
Tick ==
  /\ \A i \in In("waiting") : request[i].age < High
  /\ phase = "asked" => elapsed < Timeout
  /\ phase = "asked" \/ In("waiting") # {}
  /\ request' = [i \in Ids |-> IF i \in In("waiting")
                               THEN [request[i] EXCEPT !.age = @ + 1]
                               ELSE request[i]]
  /\ elapsed' = IF phase = "asked" THEN elapsed + 1 ELSE elapsed
  /\ UNCHANGED <<relay, api, calls, heard, relayVars, k, phase, before, verdict,
                 surfaced, fault>>

Next ==
  \/ \E i \in Ids : \/ AnyCall(i) \/ RelayTurn(i)
                    \/ NotFound(i) \/ BadRequest(i) \/ Record(i)
                    \/ Reply(i) \/ ReplyLost(i)
  \/ Ask \/ HarnessAnswers \/ RelayAnswers \/ TimesOut
  \/ Tick

Spec == Init /\ [][Next]_vars

-----------------------------------------------------------------------------
(* Types of every variable.                                                *)
TypeOK ==
  /\ relay \in BOOLEAN /\ api \in {"chat", "responses"}
  /\ request \in [Ids -> Requests]
  /\ calls \in Nat /\ heard \subseteq Tokens
  /\ turn \in 0..MaxCalls /\ turns \in Nat
  /\ said \in Tokens \cup {"nothing", "failed"}
  /\ k \in 0..Len(Asked)
  /\ phase \in {"idle", "asked", "judged", "raised"}
  /\ phase \in {"asked", "judged"} => k # 0
  /\ before \in Nat /\ elapsed \in Nat
  /\ verdict \in [DOMAIN Asked -> Dispositions \cup {"-"}]
  /\ surfaced \in [DOMAIN Asked -> SUBSET Tokens]
  /\ fault \in BOOLEAN

CountedDuring(j) == {i \in Ids : request[i].during = j}

(* A token is earned by a call that was answered, the oracle answer by one *)
(* that brought back what an earlier one was answered.                     *)
Earned ==
  {t \in Tokens : \E i \in In("answered") :
     t = "answer" => request[i].nonce /\ In("answered") # {i}}

(* An oracle that is clear saw at least the calls it asks for between the  *)
(* question and the answer, whatever the container called before, and the  *)
(* answer carries tokens, all of them earned by calls that left a mark.    *)
ClearMeansCalled ==
  \A j \in DOMAIN Asked :
    Asked[j].oracle /\ verdict[j] = "clear"
      => /\ Cardinality(CountedDuring(j)) >= MinGatewayCalls
         /\ surfaced[j] # {} /\ surfaced[j] \subseteq Earned

(* A harness that relays what the model said, in one turn or in several,   *)
(* and reports a model that did not answer as a failure, is never held for *)
(* review, whatever is lost, delayed or mangled on the way.                *)
RelayIsNeverHeld ==
  relay => \A j \in DOMAIN Asked : verdict[j] # "quarantine"

(* Without a fault, a relay over chat completions passes every challenge.  *)
ChatRelayPasses ==
  relay /\ api = "chat" /\ ~fault
    => \A j \in DOMAIN Asked : verdict[j] \in {"-", "clear"}
=============================================================================
