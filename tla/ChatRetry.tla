----------------------------- MODULE ChatRetry -----------------------------
(***************************************************************************)
(* OpenAICompatProvider.Chat (src/providers/openai_compat.go): up to       *)
(* MaxRetries + 1 POSTs of one request, a backoff before each but the      *)
(* first, under the caller's context.                                      *)
(*                                                                         *)
(* What the HTTP client and the service do with a POST is one step: the    *)
(* reply, or its loss (a connection that breaks before or after the        *)
(* service has done the work, the client's 120 s timeout, a context that   *)
(* is cancelled meanwhile).                                                *)
(***************************************************************************)
EXTENDS Naturals

CONSTANTS
    Callers,    \* goroutines that call Chat
    MaxRetries  \* 3 in the code

ASSUME RetryBounds == MaxRetries \in Nat

VARIABLES
    chat,       \* chat[c]: where c's call of Chat is, and what it returned
    attempt,    \* attempt[c]: the loop variable
    ctxDone     \* ctxDone[c]: the context of the call is cancelled

chatVars == <<chat, attempt, ctxDone>>

InLoop == {"send", "wait", "backoff"}

ChatInit ==
    /\ chat = [c \in Callers |-> "idle"]
    /\ attempt = [c \in Callers |-> 0]
    /\ ctxDone = [c \in Callers |-> FALSE]

Become(c, state) == chat' = [chat EXCEPT ![c] = state]

-----------------------------------------------------------------------------
Call(c) ==
    /\ chat[c] = "idle"
    /\ Become(c, "send")
    /\ attempt' = [attempt EXCEPT ![c] = 0]
    /\ ctxDone' = [ctxDone EXCEPT ![c] = FALSE]

NotCounted(n) == n      \* variant for EveryCallReturns
Counted(n) == n + 1

(* lastErr = ...; continue                                                 *)
Again(c) ==
    /\ \/ /\ attempt[c] < MaxRetries
          /\ attempt' = [attempt EXCEPT ![c] = Counted(@)]
          /\ Become(c, "backoff")
       \/ /\ attempt[c] = MaxRetries
          /\ UNCHANGED attempt
          /\ Become(c, "error")
    /\ UNCHANGED ctxDone

(* The select: both channels may be ready.                                 *)
BackoffOver(c) ==
    /\ chat[c] = "backoff"
    /\ Become(c, "send")
    /\ UNCHANGED <<attempt, ctxDone>>

BackoffCancelled(c) ==
    /\ chat[c] = "backoff"
    /\ ctxDone[c]
    /\ Become(c, "cancelled")
    /\ UNCHANGED <<attempt, ctxDone>>

(* json.Marshal, before the loop, or NewRequest returns an error.          *)
NoRequest(c) ==
    /\ chat[c] = "send"
    /\ Become(c, "error")
    /\ UNCHANGED <<attempt, ctxDone>>

(* client.Do sends nothing on a cancelled context.                         *)
Send(c) ==
    /\ chat[c] = "send"
    /\ ~ctxDone[c]
    /\ Become(c, "wait")
    /\ UNCHANGED <<attempt, ctxDone>>

SendFails(c) ==
    /\ chat[c] = "send"
    /\ ctxDone[c]
    /\ Again(c)

(* Do or ReadAll returns an error; the service may have answered.          *)
ReplyLost(c) == chat[c] = "wait" /\ Again(c)

Busy(c) == chat[c] = "wait" /\ Again(c)     \* 429, 502, 503

Refused(c) ==   \* another status from 400 on, or a body that does not parse
    /\ chat[c] = "wait"
    /\ Become(c, "error")
    /\ UNCHANGED <<attempt, ctxDone>>

Answered(c) ==
    /\ chat[c] = "wait"
    /\ Become(c, "ok")
    /\ UNCHANGED <<attempt, ctxDone>>

Cancel(c) ==
    /\ chat[c] \in InLoop
    /\ ~ctxDone[c]
    /\ ctxDone' = [ctxDone EXCEPT ![c] = TRUE]
    /\ UNCHANGED <<chat, attempt>>

(* The steps of Chat itself, and the end of a POST, which the client's     *)
(* timeout brings about.                                                   *)
ChatStep(c) ==
    \/ BackoffOver(c) \/ BackoffCancelled(c)
    \/ NoRequest(c) \/ Send(c) \/ SendFails(c)
    \/ ReplyLost(c) \/ Busy(c) \/ Refused(c) \/ Answered(c)
=============================================================================
