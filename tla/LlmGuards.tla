------------------------------ MODULE LlmGuards ------------------------------
(***************************************************************************)
(* The decorators that guard an agent's model: the guardrails              *)
(* (src/src/ai/guardrail) around the spend guard (src/src/ai/llm).  The    *)
(* caller (external) may have several calls in flight; the model           *)
(* (external) answers or fails.                                            *)
(* Left out: the contents of messages, what a guardrail looks for; the     *)
(* budget of money, kept like that of tokens.                              *)
(***************************************************************************)
EXTENDS Integers, Sequences, FiniteSets

CONSTANTS Budget,        \* maxTotalTokens
          Costs,         \* the tokens a call may cost
          Concurrency,   \* bound: calls in flight
          MaxCalls,      \* bound: calls
          MaxResets      \* bound: resetSpendState

VARIABLES calls,    \* [method, at, before]: before is the sum when it was let through
          spent,    \* totalTokens of the spend guard
          resets,
          owed      \* history: tokens of the tracked calls answered since the last reset

guardVars == <<calls, spent, resets, owed>>

\* chatWithTools is guarded like chat, and chatJson's output is unchecked like a stream's.
Methods == {"chat", "chatTracked", "chatStream"}

InFlight == {i \in DOMAIN calls : calls[i].at \in {"input", "model", "output"}}

\* Only the tracked methods are counted.
Tracked(method) == method = "chatTracked"

\* A call: the guardrails see the last user message first.
Call(method) ==
    /\ Len(calls) < MaxCalls /\ Cardinality(InFlight) < Concurrency
    /\ calls' = Append(calls, [method |-> method, at |-> "input", before |-> 0])
    /\ UNCHANGED <<spent, resets, owed>>

\* checkInput blocks: the call is rejected before anything else happens.
InputBlocked(i) ==
    /\ calls[i].at = "input"
    /\ calls' = [calls EXCEPT ![i].at = "blocked"]
    /\ UNCHANGED <<spent, resets, owed>>

\* checkInput passes; checkBudget refuses a tracked call when the budget is used up.
Forward(i) ==
    /\ calls[i].at = "input"
    /\ calls' = IF Tracked(calls[i].method) /\ spent >= Budget
                THEN [calls EXCEPT ![i].at = "refused"]
                ELSE [calls EXCEPT ![i].at = "model", ![i].before = spent]
    /\ UNCHANGED <<spent, resets, owed>>

\* Seeded fault: the sum is computed from the state before the call.
BugStaleSum(i, cost) == spent' = IF Tracked(calls[i].method) THEN calls[i].before + cost ELSE spent

\* trackResult.
TrackResult(i, cost) == spent' = IF Tracked(calls[i].method) THEN spent + cost ELSE spent

\* The model answers, and the spend guard gets the result.
ModelAnswers(i, cost) ==
    /\ calls[i].at = "model"
    /\ calls' = [calls EXCEPT ![i].at = "output"]
    /\ TrackResult(i, cost)
    /\ owed' = IF Tracked(calls[i].method) THEN owed + cost ELSE owed
    /\ UNCHANGED resets

\* The model fails: nothing is counted, the caller gets the error.
ModelFails(i) ==
    /\ calls[i].at = "model"
    /\ calls' = [calls EXCEPT ![i].at = "failed"]
    /\ UNCHANGED <<spent, resets, owed>>

\* checkOutput of chat and chatTracked blocks the response, or the call returns.
\* chatStream does not check it.
Return(i) ==
    /\ calls[i].at = "output"
    /\ \/ calls' = [calls EXCEPT ![i].at = "returned"]
       \/ /\ calls[i].method # "chatStream"
          /\ calls' = [calls EXCEPT ![i].at = "blocked"]
    /\ UNCHANGED <<spent, resets, owed>>

ResetSpendState ==
    /\ resets < MaxResets
    /\ resets' = resets + 1
    /\ spent' = 0 /\ owed' = 0
    /\ UNCHANGED calls

GuardsInit == calls = << >> /\ spent = 0 /\ resets = 0 /\ owed = 0

GuardsNext ==
    \/ \E method \in Methods : Call(method)
    \/ \E i \in DOMAIN calls : InputBlocked(i) \/ Forward(i) \/ ModelFails(i) \/ Return(i)
    \/ \E i \in DOMAIN calls, cost \in Costs : ModelAnswers(i, cost)
    \/ ResetSpendState

GuardsSpec == GuardsInit /\ [][GuardsNext]_guardVars

-----------------------------------------------------------------------------

\* Type invariant of the guards.
GuardsTypeOK ==
    /\ spent \in Nat /\ owed \in Nat /\ resets \in 0..MaxResets
    /\ \A i \in DOMAIN calls : calls[i].method \in Methods /\ calls[i].before \in Nat

\* No concurrent call's tokens are lost from the sum, and the sum passes the budget by no
\* more than the calls in flight at the moment it was reached (spend-guarded-llm-service.ts).
SpendAccounted ==
    /\ spent = owed
    /\ \A c \in Costs : (\A d \in Costs : d <= c) => spent <= Budget - 1 + Concurrency * c

===============================================================================
