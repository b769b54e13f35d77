---------------------------- MODULE MeteredChat ----------------------------
(***************************************************************************)
(* Callers that ask the budget, chat, and record what the answer cost: how *)
(* an agent loop uses a provider together with the cost tracker.  The loop *)
(* itself is the embedding program's; only its order of calls is assumed.  *)
(***************************************************************************)
EXTENDS CostTracker, ChatRetry

CONSTANT MaxCalls   \* bound: calls of Chat

ASSUME CallBounds == IsFiniteSet(Callers) /\ MaxCalls \in Nat

VARIABLE calls      \* calls of Chat so far

vars == <<costVars, chatVars, calls>>

Init == CostInit /\ ChatInit /\ calls = 0

CheckThenChat(c) ==
    /\ calls < MaxCalls
    /\ Allowed
    /\ Call(c)
    /\ calls' = calls + 1
    /\ UNCHANGED costVars

Chatting(c) ==
    /\ ChatStep(c) \/ Cancel(c)
    /\ UNCHANGED <<costVars, calls>>

RecordUsage(c) ==
    /\ chat[c] = "ok"
    /\ \E model \in Models : \E cost \in LookupPrice(model) : Record(cost) \/ RecordTears(cost)
    /\ Become(c, "idle")
    /\ UNCHANGED <<attempt, ctxDone, calls>>

GiveUp(c) ==    \* nothing to record
    /\ chat[c] \in {"error", "cancelled"}
    /\ Become(c, "idle")
    /\ UNCHANGED <<attempt, ctxDone, calls, costVars>>

Next ==
    \/ \E c \in Callers : CheckThenChat(c) \/ Chatting(c) \/ RecordUsage(c) \/ GiveUp(c)
    \/ Midnight /\ UNCHANGED <<chatVars, calls>>

(* A call of Chat goes on: timers fire and no POST outlasts the timeout.   *)
ChatGoesOn(c) == ChatStep(c) /\ UNCHANGED <<costVars, calls>>

Spec == Init /\ [][Next]_vars /\ \A c \in Callers : WF_vars(ChatGoesOn(c))

-----------------------------------------------------------------------------
Spent(days) ==
    MapThenSumSet(LAMBDA i : log[i].cost, {i \in DOMAIN log : log[i].day \in days})

MaxCost == Max(UNION {LookupPrice(m) : m \in Models})

(* With a log that was written whole no day is overspent by more than the  *)
(* calls that were under way when the limit was reached, one a caller.     *)
OvershootBounded ==
    tears = 0 /\ DailyLimit > 0 =>
        \A day \in 0..today :
            Spent({day}) < DailyLimit + MaxCost * Cardinality(Callers)

(* A check that refuses has read costs that were really recorded: torn     *)
(* rows are never added to it twice, nor misread, unless the first row is  *)
(* itself torn, or one that is torn runs into another.  A row of two       *)
(* columns that one of six goes on is a line of seven, whose sixth is a    *)
(* number of tokens and is taken for a cost.                               *)
TearsApart == \A i \in 2..Len(log) : log[i].eol \/ log[i - 1].eol

RefusalIsEarned ==
    ~Allowed /\ log[1].eol /\ TearsApart =>
        \/ Over(DailyLimit, Spent({today}))
        \/ Over(MonthlyLimit, Spent({d \in 0..today : Month(d) = Month(today)}))

(* Every call of Chat returns, whatever the service does.                  *)
EveryCallReturns ==
    \A c \in Callers : chat[c] \in InLoop ~> chat[c] \notin InLoop
=============================================================================
