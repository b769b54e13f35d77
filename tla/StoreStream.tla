----------------------------- MODULE StoreStream -----------------------------
(***************************************************************************)
(* StoreBackedEventStream (src/harness/stream_store.go): the gateway polls *)
(* a SessionStore for the events a remote runner appends to it.            *)
(*                                                                         *)
(* A remote writer, one goroutine that calls Next again and again, another *)
(* that calls Close, and the owner of the parent context interleave.  Next *)
(* takes mu only around its accesses to done; the poll of the store and    *)
(* the wait between polls happen outside it.  The SessionStore is external:*)
(* an append-only log whose events carry their position, read atomically,  *)
(* that may fail, and may or may not heed the context it is given.         *)
(***************************************************************************)
EXTENDS Naturals, Sequences

CONSTANTS
    MaxEvents,  \* bound: events the remote runs append to the session
    MaxFaults   \* bound: errors of the store itself

ASSUME StreamAssumption == MaxEvents \in Nat /\ MaxFaults \in Nat

VARIABLES
    log,        \* the session's events in the store; position i is log[i + 1]
    faults,     \* errors of the store so far
    lastPos,    \* s.lastPos: the position to poll from
    done,       \* s.done
    ctxDone,    \* s.ctx is cancelled, by Close or by the parent
    closed,     \* Close has been called
    at,         \* where the current call of Next is
    late,       \* that call began after Close (history)
    given,      \* the positions of the events Next has returned (history)
    result      \* what the last call of Next returned

storeVars == <<log, faults>>
vars == <<storeVars, lastPos, done, ctxDone, closed, at, late, given, result>>

EventTypes == {"chunk", "run.completed", "error"}
Terminals  == {"run.completed", "error"}

Init ==
    /\ log = <<>> /\ faults = 0
    /\ lastPos = 0
    /\ done = FALSE /\ ctxDone = FALSE /\ closed = FALSE
    /\ at = "idle" /\ late = FALSE
    /\ given = <<>>
    /\ result = "none"

-----------------------------------------------------------------------------
(* The session store: several runs may append to one session, so events    *)
(* may follow a terminal one.                                              *)
AppendEvent(e) ==
    /\ Len(log) < MaxEvents
    /\ log' = Append(log, e)
    /\ UNCHANGED <<faults, lastPos, done, ctxDone, closed, at, late, given, result>>

-----------------------------------------------------------------------------
(* Next.                                                                   *)

BeginNext ==
    /\ at = "idle"
    /\ at' = "check"
    /\ late' = closed
    /\ UNCHANGED <<storeVars, lastPos, done, ctxDone, closed, given, result>>

Return(r) == at' = "idle" /\ result' = r

(* s.done, under mu.                                                       *)
CheckDone ==
    /\ at = "check"
    /\ IF done
       THEN Return("EOF")
       ELSE at' = "fetch" /\ UNCHANGED result
    /\ UNCHANGED <<storeVars, lastPos, done, ctxDone, closed, late, given>>

PastTheBatch(pos) == Len(log)   \* variant for TerminalReached
PastTheEvent(pos) == pos + 1

EndsWell(e) == e = "run.completed"      \* variant for InOrderToTheEnd
Ends(e) == e \in Terminals

(* GetEvents(lastPos) returns events: only the first is used.              *)
FetchEvent ==
    /\ at = "fetch"
    /\ lastPos < Len(log)
    /\ lastPos' = PastTheEvent(lastPos)
    /\ given' = Append(given, lastPos)
    /\ IF Ends(log[lastPos + 1])
       THEN at' = "finish" /\ UNCHANGED result
       ELSE Return("event")
    /\ UNCHANGED <<storeVars, done, ctxDone, closed, late>>

(* It returns none.                                                        *)
FetchNothing ==
    /\ at = "fetch"
    /\ lastPos = Len(log)
    /\ at' = "wait"
    /\ UNCHANGED <<storeVars, lastPos, done, ctxDone, closed, late, given, result>>

(* It fails: the store's own error, or the cancelled context.              *)
FetchFails ==
    /\ at = "fetch"
    /\ \/ ctxDone /\ UNCHANGED faults
       \/ faults < MaxFaults /\ faults' = faults + 1
    /\ Return("failed")
    /\ UNCHANGED <<log, lastPos, done, ctxDone, closed, late, given>>

(* A terminal event marks the stream done, under mu, and is returned.      *)
FinishTerminal ==
    /\ at = "finish"
    /\ done' = TRUE
    /\ Return("event")
    /\ UNCHANGED <<storeVars, lastPos, ctxDone, closed, late, given>>

WaitsOn == at' = "check" /\ UNCHANGED result   \* variant for CancelReleasesNext
GivesUp == Return("failed")

(* The select between polls: ctx.Done() or the poll interval.              *)
WaitCancelled ==
    /\ at = "wait"
    /\ ctxDone
    /\ GivesUp
    /\ UNCHANGED <<storeVars, lastPos, done, ctxDone, closed, late, given>>

WaitElapsed ==
    /\ at = "wait"
    /\ at' = "check"
    /\ UNCHANGED <<storeVars, lastPos, done, ctxDone, closed, late, given, result>>

-----------------------------------------------------------------------------

LeavesDone == UNCHANGED done    \* variant for EOFMeansOver
SetsDone == done' = TRUE

Close ==
    /\ SetsDone
    /\ ctxDone' = TRUE
    /\ closed' = TRUE
    /\ UNCHANGED <<storeVars, lastPos, at, late, given, result>>

ParentCancelled ==
    /\ ctxDone' = TRUE
    /\ UNCHANGED <<storeVars, lastPos, done, closed, at, late, given, result>>

Step == CheckDone \/ FetchEvent \/ FetchNothing \/ FetchFails \/ FinishTerminal
        \/ WaitCancelled \/ WaitElapsed

Next ==
    \/ \E e \in EventTypes : AppendEvent(e)
    \/ BeginNext \/ Step
    \/ Close \/ ParentCancelled

Spec == Init /\ [][Next]_vars

(* The goroutine in Next runs, and the gateway calls Next again; when both *)
(* cases of the select stay ready, it does not take the timer for ever.    *)
FairSpec == Spec /\ WF_vars(Step) /\ WF_vars(BeginNext) /\ SF_vars(WaitCancelled)

-----------------------------------------------------------------------------
(* The events returned are the session's from position 0 on, in order, no  *)
(* event twice and none skipped, whatever Close and the polls do           *)
(* meanwhile, and nothing follows a terminal event: not even a later run's *)
(* events in the same session, which stay out of the reach of this stream. *)
InOrderToTheEnd ==
    /\ given = [i \in 1..lastPos |-> i - 1]
    /\ \A i \in 1..lastPos : log[i] \in Terminals => i = lastPos

(* io.EOF says that the stream is over: a Next returns it only after Close *)
(* or a terminal event, and a Next that begins after Close returns nothing *)
(* else, whatever the poll or the wait it is in was about to give.         *)
EOFMeansOver ==
    [][at # "idle" /\ at' = "idle" =>
          /\ late => result' = "EOF"
          /\ result' = "EOF" =>
                closed \/ (lastPos > 0 /\ log[lastPos] \in Terminals)]_vars

(* Unless the stream is given up, a terminal event in the store ends it:   *)
(* the reader gets to the terminal event and then to io.EOF.               *)
TerminalReached ==
    (\E i \in DOMAIN log : log[i] \in Terminals) ~> (ctxDone \/ result = "EOF")

(* Cancelling the context, in Close or by the parent, releases a Next that *)
(* waits for events that never come.                                       *)
CancelReleasesNext == (ctxDone /\ at # "idle") ~> at = "idle"

-----------------------------------------------------------------------------
(* "Returns io.EOF when the stream is done (either closed or a terminal    *)
(* event was received)": a Next that returns after Close, the store having *)
(* no faults of its own, returns an event or io.EOF.                       *)
ClosedMeansEOF ==
    [][closed /\ at # "idle" /\ at' = "idle" => result' # "failed"]_vars
=============================================================================
