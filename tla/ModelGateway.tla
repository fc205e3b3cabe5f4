---------------------------- MODULE ModelGateway -----------------------------
(***************************************************************************)
(* The trusted model gateway: requests of one attempt reach a provider     *)
(* through it under one signed enable decision, while an operator turns    *)
(* the kill switch and the credential on and off and the decision expires. *)
(*                                                                         *)
(* An action is the code between two awaits of `handle`.  Tokens are the   *)
(* unit of usage; money is tokens at the decision's two prices.            *)
(* External: the provider, which answers, fails, or lets the abort signal  *)
(* end the call, and the journal, whose failures `handle` swallows.        *)
(***************************************************************************)
EXTENDS Naturals, FiniteSetsExt

CONSTANTS ModelCall,        \* the requests
          MaxCalls, MaxTokens, MaxCost, OutputPerCall,  \* the decision's budget
          InputPrice, OutputPrice,
          MaxReported       \* bound: tokens of one kind a provider reports

ASSUME GatewayAssumption ==
  {MaxCalls, MaxTokens, MaxCost, OutputPerCall, InputPrice, OutputPrice, MaxReported} \subseteq Nat

VARIABLES enabled,      \* both kill-switch files say enabled
          credential,   \* the secret reference resolves
          expired,      \* the enable decision has expired
          asks,         \* what each request asks, once it is read
          modelAt,      \* the await each request is suspended in
          decisionSpent,\* the decision is in spentDecisionIds
          spend,        \* the tokens and calls accounted
          completed,    \* calls: the usage of every accounted call
          called,       \* history: requests handed to the provider
          late          \* history: requests evaluated when some had been

operator == <<enabled, credential, expired>>
books == <<decisionSpent, spend, completed>>
modelVars == <<operator, asks, modelAt, books, called, late>>

Reported == 0..MaxReported
Usage == [input : Reported, output : Reported]
NoAsk == [bound |-> FALSE, output |-> 0]
NoUsage == [input |-> 0, output |-> MaxReported + 1]    \* not accounted
Answered == {"200", "400", "403", "502"}
Calling == {"calling", "journal failed", "journal completed", "502", "200"}
ModelLabels == {"idle", "body", "journal requested", "journal denied"} \cup Calling \cup Answered

GatewayTypeOK ==
  /\ enabled \in BOOLEAN /\ credential \in BOOLEAN /\ expired \in BOOLEAN
  /\ asks \in [ModelCall -> [bound : BOOLEAN, output : Nat]]
  /\ modelAt \in [ModelCall -> ModelLabels]
  /\ decisionSpent \in BOOLEAN
  /\ spend \in [calls : Nat, input : Nat, output : Nat]
  /\ completed \in [ModelCall -> Usage \cup {NoUsage}]
  /\ called \subseteq ModelCall /\ late \subseteq ModelCall

GatewayInit ==
  /\ enabled \in BOOLEAN /\ credential = TRUE /\ expired = FALSE
  /\ asks = [r \in ModelCall |-> NoAsk]
  /\ modelAt = [r \in ModelCall |-> "idle"]
  /\ decisionSpent = FALSE
  /\ spend = [calls |-> 0, input |-> 0, output |-> 0]
  /\ completed = [r \in ModelCall |-> NoUsage]
  /\ called = {}
  /\ late = {}

ModelGoes(r, label) == modelAt' = [modelAt EXCEPT ![r] = label]

-----------------------------------------------------------------------------
\* remainingModelBudget, priceModelUsage and evaluateModelLane.

Monus(a, b) == IF a > b THEN a - b ELSE 0
Price(u) == u.input * InputPrice + u.output * OutputPrice
Remaining == [calls  |-> Monus(MaxCalls, spend.calls),
              tokens |-> Monus(MaxTokens, spend.input + spend.output),
              cost   |-> Monus(MaxCost, Price(spend))]

\* Every refusal of the lane: the switch, the decision's life, what it was given
\* for, its budget against the most this request could use, and the credential.
LaneAllows(ask) ==
  LET left == Remaining IN
  /\ enabled
  /\ ~expired /\ ~decisionSpent /\ ask.bound
  /\ left.calls > 0
  /\ ask.output <= OutputPerCall
  /\ left.tokens > 0 /\ left.tokens >= ask.output
  /\ left.cost > 0 /\ left.cost >= ask.output * OutputPrice
  /\ credential

-----------------------------------------------------------------------------
\* One request.

\* The grant is verified first: a caller without a live one is refused.
Present(r) ==
  /\ modelAt[r] = "idle"
  /\ ModelGoes(r, "body") \/ ModelGoes(r, "403")
  /\ UNCHANGED <<operator, asks, books, called, late>>

\* The body has been read; switch, decision and budget are looked at now.
Evaluate(r, ask) ==
  /\ modelAt[r] = "body"
  /\ asks' = [asks EXCEPT ![r] = ask]
  /\ ModelGoes(r, IF LaneAllows(ask) THEN "journal requested" ELSE "journal denied")
  /\ late' = IF called # {} THEN late \cup {r} ELSE late
  /\ UNCHANGED <<operator, books, called>>

RejectBody(r) ==
  /\ modelAt[r] = "body"
  /\ ModelGoes(r, "400")
  /\ UNCHANGED <<operator, asks, books, called, late>>

DeniedReturns(r) ==
  /\ modelAt[r] = "journal denied"
  /\ ModelGoes(r, "403")
  /\ UNCHANGED <<operator, asks, books, called, late>>

\* Mutant: the decision is not spent by the attempt to call.
DispatchUnspent(r) ==
  /\ modelAt[r] = "journal requested"
  /\ IF credential
     THEN ModelGoes(r, "calling") /\ called' = called \cup {r}
     ELSE ModelGoes(r, "journal denied") /\ UNCHANGED called
  /\ UNCHANGED <<operator, asks, books, late>>

\* After the journal: only the credential is looked at again.  The decision is
\* spent by the attempt to call, not by its success.
Dispatch(r) ==
  /\ modelAt[r] = "journal requested"
  /\ IF credential
     THEN /\ ModelGoes(r, "calling")
          /\ decisionSpent' = TRUE
          /\ called' = called \cup {r}
     ELSE ModelGoes(r, "journal denied") /\ UNCHANGED <<decisionSpent, called>>
  /\ UNCHANGED <<operator, asks, spend, completed, late>>

\* Mutant: the spend keeps the usage of the last call only.
AccountLast(r, u) ==
  /\ spend' = [calls |-> spend.calls + 1, input |-> u.input, output |-> u.output]
  /\ completed' = [completed EXCEPT ![r] = u]

\* accountModelCall: the call is folded into the spend of that moment.
Account(r, u) ==
  /\ spend' = [calls |-> spend.calls + 1, input |-> spend.input + u.input,
               output |-> spend.output + u.output]
  /\ completed' = [completed EXCEPT ![r] = u]

\* What the provider reports is not compared with what was asked for.
ProviderAnswers(r, u) ==
  /\ modelAt[r] = "calling"
  /\ Account(r, u)
  /\ ModelGoes(r, "journal completed")
  /\ UNCHANGED <<operator, asks, decisionSpent, called, late>>

\* An answer whose usage cannot be reconciled, a refusal, or a broken connection.
ProviderFails(r) ==
  /\ modelAt[r] = "calling"
  /\ ModelGoes(r, "journal failed")
  /\ UNCHANGED <<operator, asks, books, called, late>>

\* Mutant: the timer is not armed.
NoTimer(r) == FALSE

\* The request's timer aborts a call that has not come back.
TimerAborts(r) == ProviderFails(r)

OutcomeReturns(r) ==
  /\ \/ modelAt[r] = "journal failed" /\ ModelGoes(r, "502")
     \/ modelAt[r] = "journal completed" /\ ModelGoes(r, "200")
  /\ UNCHANGED <<operator, asks, books, called, late>>

-----------------------------------------------------------------------------
\* The operator and the clock.

TurnSwitch ==
  /\ enabled' = ~enabled
  /\ UNCHANGED <<credential, expired, asks, modelAt, books, called, late>>

TurnCredential ==
  /\ credential' = ~credential
  /\ UNCHANGED <<enabled, expired, asks, modelAt, books, called, late>>

DecisionExpires ==
  /\ ~expired
  /\ expired' = TRUE
  /\ UNCHANGED <<enabled, credential, asks, modelAt, books, called, late>>

GatewayNext ==
  \/ \E r \in ModelCall : Present(r) \/ RejectBody(r) \/ DeniedReturns(r) \/ Dispatch(r)
                          \/ ProviderFails(r) \/ OutcomeReturns(r)
  \/ \E r \in ModelCall, bound \in BOOLEAN, output \in 1..(OutputPerCall + 1) :
       Evaluate(r, [bound |-> bound, output |-> output])
  \/ \E r \in ModelCall, u \in Usage : ProviderAnswers(r, u)
  \/ TurnSwitch \/ TurnCredential \/ DecisionExpires

\* Appends come back and timers fire; a body may never be sent.
GatewayReturns(r) == DeniedReturns(r) \/ Dispatch(r) \/ TimerAborts(r) \/ OutcomeReturns(r)

GatewayFairness == \A r \in ModelCall : WF_modelVars(GatewayReturns(r))

GatewaySpec == GatewayInit /\ [][GatewayNext]_modelVars /\ GatewayFairness

-----------------------------------------------------------------------------
\* The spend is the sum of what every accounted call reported, however the
\* calls overlapped: none is lost and none is counted twice.
SpendIsAccounted ==
  LET accounted == {r \in ModelCall : completed[r] # NoUsage} IN
  /\ spend.calls = Cardinality(accounted)
  /\ spend.input = MapThenSumSet(LAMBDA r : completed[r].input, accounted)
  /\ spend.output = MapThenSumSet(LAMBDA r : completed[r].output, accounted)

\* Once a call has been attempted under the decision, no request that arrives
\* afterwards reaches the provider, not even when that call failed.
LateCallsAreRefused == late \cap called = {}

\* Every request whose body has arrived gets an answer.
ModelCallIsAnswered ==
  \A r \in ModelCall : (modelAt[r] \notin {"idle", "body"}) ~> (modelAt[r] \in Answered)

=============================================================================
