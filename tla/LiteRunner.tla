----------------------------- MODULE LiteRunner -----------------------------
(***************************************************************************)
(* LiteRunner (src/harness/lite/runner.go): runs of an agent loop, each in *)
(* a goroutine of its own that writes its events to a bounded channel.     *)
(*                                                                         *)
(* Three kinds of process interleave here: the executor goroutine of each  *)
(* run (executeRun with the LoopFactory it calls), the reader of the run's *)
(* stream (chanEventStream.Next), and callers of Interrupt, Cancel and     *)
(* Status.  Two locks are involved: r.mu, which guards the map and the     *)
(* status, and the rs.mu of each run, which guards the closing of its      *)
(* channel.  Interrupt reads rs.status with rs.mu but without r.mu, so the *)
(* read and the send that follows it are steps of their own here: another  *)
(* goroutine may change the status between them.                           *)
(*                                                                         *)
(* A run's channel is the pair log[r], read[r]: everything ever sent, and  *)
(* how much of it Next has returned.  What lies between is in the buffer.  *)
(***************************************************************************)
EXTENDS Naturals, Sequences, FiniteSets

CONSTANTS
    Runs,       \* run ids a client may dispatch
    Callers,    \* goroutines that call Interrupt, Cancel and Status
    Capacity,   \* size of a run's event channel (64 in the code)
    MaxEmits,   \* bound: events a LoopFactory sends in one run
    MaxCalls,   \* bound: calls of Interrupt, Cancel and Status altogether
    NoOne       \* the holder of a free mutex

ASSUME CapacityAssumption == Capacity \in Nat \ {0}
ASSUME BoundsAssumption   == MaxEmits \in Nat /\ MaxCalls \in Nat
ASSUME NoOneAssumption    == NoOne \notin Runs /\ NoOne \notin Callers

VARIABLES
    mu,         \* r.mu: the run whose executor holds it, or NoOne
    status,     \* status[r]: rs.status; "absent" while r is not in r.runs
    ended,      \* ended[r]: rs.endedAt # nil
    ctx,        \* ctx[r]: ctx.Err() of the run's context
    pc,         \* pc[r]: where the executor goroutine of r stands
    log,        \* log[r]: every event sent on the channel of r, in order
    read,       \* read[r]: how many of them Next has returned
    closed,     \* closed[r]: rs.closed, and the channel is closed
    eof,        \* eof[r]: Next has returned io.EOF
    rsmu,       \* rsmu[r]: the caller that holds rs.mu, or NoOne
    call,       \* call[c]: the call c is in, and how far it is
    calls,      \* calls made so far
    panicked    \* a goroutine sent on a closed channel

runVars  == <<mu, status, ended, ctx, pc>>
chanVars == <<log, read, closed, eof>>
callVars == <<rsmu, call, calls>>
vars     == <<runVars, chanVars, callVars, panicked>>

Statuses  == {"absent", "running", "cancelled", "completed", "error"}
Terminals == {"completed", "error"}
Events    == {"started", "emit", "interrupt"} \cup Terminals
ExecSteps == {"none", "start", "factory", "record_ok", "record_err",
              "send_completed", "send_error", "close", "done"}
CallSteps == {"lookup", "lock", "check", "send", "cancel", "status"}
Replies   == {"none", "sent", "full", "cancelled", "status", "refused"}

(* What a caller is doing.  late: the run had been dispatched and had     *)
(* left "running" when the call was made (a history variable).             *)
IdleCalls == [at : {"idle"}, run : {NoOne}, late : BOOLEAN, reply : Replies]
BusyCalls == [at : CallSteps, run : Runs, late : BOOLEAN, reply : {"none"}]
Idle(reply, late) ==
    [at |-> "idle", run |-> NoOne, late |-> late, reply |-> reply]

(* Every variable has its type, and no channel holds more than it can.     *)
TypeOK ==
    /\ mu \in Runs \cup {NoOne}
    /\ status \in [Runs -> Statuses]
    /\ ended \in [Runs -> BOOLEAN]
    /\ ctx \in [Runs -> {"live", "canceled", "deadline"}]
    /\ pc \in [Runs -> ExecSteps]
    /\ log \in [Runs -> Seq(Events)]
    /\ read \in [Runs -> Nat]
    /\ \A r \in Runs : /\ read[r] <= Len(log[r])
                     /\ Len(log[r]) - read[r] <= Capacity
    /\ closed \in [Runs -> BOOLEAN]
    /\ eof \in [Runs -> BOOLEAN]
    /\ rsmu \in [Runs -> Callers \cup {NoOne}]
    /\ call \in [Callers -> IdleCalls \cup BusyCalls]
    /\ calls \in Nat
    /\ panicked \in BOOLEAN

Init ==
    /\ mu = NoOne
    /\ status = [r \in Runs |-> "absent"]
    /\ ended = [r \in Runs |-> FALSE]
    /\ ctx = [r \in Runs |-> "live"]
    /\ pc = [r \in Runs |-> "none"]
    /\ log = [r \in Runs |-> <<>>]
    /\ read = [r \in Runs |-> 0]
    /\ closed = [r \in Runs |-> FALSE]
    /\ eof = [r \in Runs |-> FALSE]
    /\ rsmu = [r \in Runs |-> NoOne]
    /\ call = [c \in Callers |-> Idle("none", FALSE)]
    /\ calls = 0
    /\ panicked = FALSE

-----------------------------------------------------------------------------
(* The channel of a run.                                                   *)

HasRoomOffByOne(r) == Len(log[r]) - read[r] <= Capacity  \* variant for TypeOK

HasRoom(r) == Len(log[r]) - read[r] < Capacity

(* A send that is not blocked: on a closed channel it panics.              *)
Send(r, e) ==
    /\ log' = [log EXCEPT ![r] = Append(@, e)]
    /\ panicked' = (panicked \/ closed[r])
    /\ UNCHANGED <<read, closed, eof>>

(* <-ch in Next: the oldest buffered event, ...                            *)
NextEvent(r) ==
    /\ status[r] # "absent"
    /\ read[r] < Len(log[r])
    /\ read' = [read EXCEPT ![r] = @ + 1]
    /\ UNCHANGED <<runVars, log, closed, eof, callVars, panicked>>

BufferIgnored(r) == TRUE        \* variant for EOFMeansDrained
BufferEmpty(r) == read[r] = Len(log[r])

(* ... or io.EOF once the channel is closed and drained.                   *)
NextEOF(r) ==
    /\ closed[r]
    /\ BufferEmpty(r)
    /\ ~eof[r]
    /\ eof' = [eof EXCEPT ![r] = TRUE]
    /\ UNCHANGED <<runVars, log, read, closed, callVars, panicked>>

-----------------------------------------------------------------------------
(* Dispatch: an id that is already in the map is refused (ErrConflict).    *)

AnyId(r) == TRUE                \* variant for KeepsContract
NewId(r) == status[r] = "absent"

Dispatch(r) ==
    /\ mu = NoOne
    /\ NewId(r)
    /\ status' = [status EXCEPT ![r] = "running"]
    /\ ended' = [ended EXCEPT ![r] = FALSE]
    /\ ctx' = [ctx EXCEPT ![r] = "live"]
    /\ pc' = [pc EXCEPT ![r] = "start"]
    /\ log' = [log EXCEPT ![r] = <<>>]
    /\ read' = [read EXCEPT ![r] = 0]
    /\ closed' = [closed EXCEPT ![r] = FALSE]
    /\ eof' = [eof EXCEPT ![r] = FALSE]
    /\ UNCHANGED <<mu, callVars, panicked>>

(* The context Dispatch was given is cancelled, or its deadline passes.    *)
ParentDone(r, why) ==
    /\ status[r] # "absent"
    /\ ctx[r] = "live"
    /\ ctx' = [ctx EXCEPT ![r] = why]
    /\ UNCHANGED <<mu, status, ended, pc, chanVars, callVars, panicked>>

-----------------------------------------------------------------------------
(* executeRun, one action per stretch between two blocking operations.     *)

ExecStep(r, from, to) ==
    /\ pc[r] = from
    /\ pc' = [pc EXCEPT ![r] = to]

SendStarted(r) ==
    /\ ExecStep(r, "start", "factory")
    /\ HasRoom(r)
    /\ Send(r, "started")
    /\ UNCHANGED <<mu, status, ended, ctx, callVars>>

(* r.factory: it sends events of its own, ...                              *)
FactoryEmit(r) ==
    /\ ExecStep(r, "factory", "factory")
    /\ HasRoom(r)
    /\ Cardinality({i \in DOMAIN log[r] : log[r][i] = "emit"}) < MaxEmits
    /\ Send(r, "emit")
    /\ UNCHANGED <<mu, status, ended, ctx, callVars>>

(* ... and returns nil or an error; then executeRun takes r.mu.            *)
FactoryReturn(r, to) ==
    /\ mu = NoOne
    /\ ExecStep(r, "factory", to)
    /\ mu' = r
    /\ UNCHANGED <<status, ended, ctx, chanVars, callVars, panicked>>

FactorySucceeds(r) == FactoryReturn(r, "record_ok")
FactoryFails(r)    == FactoryReturn(r, "record_err")

KeepsCancelled(s) == IF s = "cancelled" THEN s ELSE "completed"  \* variant for TerminalMatchesStatus
AfterSuccess(s) == "completed"

(* err == nil: the run is completed, whatever its status was.              *)
RecordCompleted(r) ==
    /\ ExecStep(r, "record_ok", "send_completed")
    /\ ended' = [ended EXCEPT ![r] = TRUE]
    /\ status' = [status EXCEPT ![r] = AfterSuccess(@)]
    /\ mu' = NoOne
    /\ UNCHANGED <<ctx, chanVars, callVars, panicked>>

(* err # nil: a run that Cancel marked stays cancelled; any other fails.   *)
RecordError(r) ==
    /\ ExecStep(r, "record_err", "send_error")
    /\ ended' = [ended EXCEPT ![r] = TRUE]
    /\ status' = IF ctx[r] = "canceled" /\ status[r] = "cancelled"
                 THEN status
                 ELSE [status EXCEPT ![r] = "error"]
    /\ mu' = NoOne
    /\ UNCHANGED <<ctx, chanVars, callVars, panicked>>

(* The blocking send of run.completed or of the error event.               *)
SendTerminal(r) ==
    /\ \/ ExecStep(r, "send_completed", "close") /\ Send(r, "completed")
       \/ ExecStep(r, "send_error", "close") /\ Send(r, "error")
    /\ HasRoom(r)
    /\ UNCHANGED <<mu, status, ended, ctx, callVars>>

(* rs.mu, which Interrupt takes and the deferred function that closes.     *)
RsMuIgnored(r) == TRUE          \* variant for NoSendOnClosedChannel
RsMuFree(r) == rsmu[r] = NoOne

UnlockWithRoom(r) ==            \* variant for CallsReturn and StreamsEnd
    rsmu' = [rsmu EXCEPT ![r] = IF HasRoom(r) THEN NoOne ELSE @]
RsUnlock(r) == rsmu' = [rsmu EXCEPT ![r] = NoOne]

(* The deferred function, under rs.mu.                                     *)
CloseChannel(r) ==
    /\ RsMuFree(r)
    /\ ExecStep(r, "close", "done")
    /\ closed' = [closed EXCEPT ![r] = TRUE]
    /\ UNCHANGED <<mu, status, ended, ctx, log, read, eof, callVars, panicked>>

-----------------------------------------------------------------------------
(* Callers.                                                                *)

Begin(c, r, step) ==
    /\ call[c].at = "idle"
    /\ calls < MaxCalls
    /\ calls' = calls + 1
    /\ call' = [call EXCEPT ![c] =
                  [at |-> step, run |-> r, reply |-> "none",
                   late |-> status[r] \notin {"absent", "running"}]]
    /\ UNCHANGED <<runVars, chanVars, rsmu, panicked>>

Goto(c, step)    == call' = [call EXCEPT ![c].at = step]
Return(c, reply) == call' = [call EXCEPT ![c] = Idle(reply, @.late)]

BeginInterrupt(c, r) == Begin(c, r, "lookup")
BeginCancel(c, r)    == Begin(c, r, "cancel")
BeginStatus(c, r)    == Begin(c, r, "status")

(* Interrupt: r.mu.RLock, the map, RUnlock.                                *)
InterruptLookup(c) ==
    /\ call[c].at = "lookup"
    /\ mu = NoOne
    /\ IF status[call[c].run] = "absent"
       THEN Return(c, "refused")
       ELSE Goto(c, "lock")
    /\ UNCHANGED <<runVars, chanVars, rsmu, calls, panicked>>

(* rs.mu.Lock and the test of rs.closed, which only changes under rs.mu.   *)
InterruptLock(c) ==
    LET r == call[c].run IN
    /\ call[c].at = "lock"
    /\ RsMuFree(r)
    /\ IF closed[r]
       THEN Return(c, "refused") /\ UNCHANGED rsmu
       ELSE Goto(c, "check") /\ rsmu' = [rsmu EXCEPT ![r] = c]
    /\ UNCHANGED <<runVars, chanVars, calls, panicked>>

AnyStatus(r) == TRUE            \* variant for LateCallsRefused
Interruptible(r) == status[r] = "running"

(* The read of rs.status, which r.mu does not protect.                     *)
InterruptCheck(c) ==
    LET r == call[c].run IN
    /\ call[c].at = "check"
    /\ IF Interruptible(r)
       THEN Goto(c, "send") /\ UNCHANGED rsmu
       ELSE Return(c, "refused") /\ RsUnlock(r)
    /\ UNCHANGED <<runVars, chanVars, calls, panicked>>

(* The non-blocking send: a full channel drops the event with an error.    *)
InterruptSend(c) ==
    LET r == call[c].run IN
    /\ call[c].at = "send"
    /\ IF HasRoom(r)
       THEN Send(r, "interrupt") /\ Return(c, "sent")
       ELSE Return(c, "full") /\ UNCHANGED <<chanVars, panicked>>
    /\ RsUnlock(r)
    /\ UNCHANGED <<runVars, calls>>

CtxStays(r) == UNCHANGED ctx    \* variant for CancelledRunsEnd
CancelCtx(r) == ctx' = [ctx EXCEPT ![r] = IF @ = "live" THEN "canceled" ELSE @]

(* Cancel, under r.mu: only a running run; it also cancels the context.    *)
CancelRun(c) ==
    LET r == call[c].run IN
    /\ call[c].at = "cancel"
    /\ mu = NoOne
    /\ IF status[r] # "running"
       THEN Return(c, "refused") /\ UNCHANGED <<status, ctx>>
       ELSE /\ status' = [status EXCEPT ![r] = "cancelled"]
            /\ CancelCtx(r)
            /\ Return(c, "cancelled")
    /\ UNCHANGED <<mu, ended, pc, chanVars, rsmu, calls, panicked>>

(* Status, under r.mu.RLock.                                               *)
StatusOf(c) ==
    /\ call[c].at = "status"
    /\ mu = NoOne
    /\ Return(c, IF status[call[c].run] = "absent" THEN "refused" ELSE "status")
    /\ UNCHANGED <<runVars, chanVars, rsmu, calls, panicked>>

-----------------------------------------------------------------------------

Reader(r)   == NextEvent(r) \/ NextEOF(r)
Factory(r)  == FactorySucceeds(r) \/ FactoryFails(r)
Executor(r) == SendStarted(r) \/ RecordCompleted(r) \/ RecordError(r)
               \/ SendTerminal(r) \/ CloseChannel(r)
Caller(c)   == InterruptLookup(c) \/ InterruptLock(c) \/ InterruptCheck(c)
               \/ InterruptSend(c) \/ CancelRun(c) \/ StatusOf(c)

Next ==
    \/ \E r \in Runs :
         \/ Dispatch(r) \/ Executor(r) \/ FactoryEmit(r) \/ Factory(r)
         \/ Reader(r)
         \/ \E why \in {"canceled", "deadline"} : ParentDone(r, why)
    \/ \E c \in Callers :
         \/ Caller(c)
         \/ \E r \in Runs : BeginInterrupt(c, r) \/ BeginCancel(c, r)
                            \/ BeginStatus(c, r)

Spec == Init /\ [][Next]_vars

(* The Go scheduler runs every goroutine that can run.  What the code does *)
(* not promise is stated by each liveness property for itself: that the    *)
(* stream is read and that the LoopFactory returns.                        *)
Scheduling ==
    /\ \A r \in Runs : WF_vars(Executor(r))
    /\ \A c \in Callers : WF_vars(Caller(c))

ReadersRead      == \A r \in Runs : WF_vars(Reader(r))
FactoriesReturn  == \A r \in Runs : WF_vars(Factory(r))
FactoriesObeyCtx == \A r \in Runs : WF_vars(ctx[r] # "live" /\ Factory(r))

BusySpec == Spec /\ Scheduling

-----------------------------------------------------------------------------
(* Safety.                                                                 *)

(* No goroutine sends on a closed channel: an Interrupt that overlaps the  *)
(* end of the run is kept out by rs.mu and rs.closed (runner.go:145).      *)
NoSendOnClosedChannel == ~panicked

(* The terminal event in the stream and the status a Status call reports   *)
(* agree: run.completed exactly for "completed", error for the other ends, *)
(* and neither before endedAt is set.                                      *)
TerminalMatchesStatus ==
    \A r \in Runs : \A i \in DOMAIN log[r] :
        log[r][i] \in Terminals =>
            /\ ended[r]
            /\ log[r][i] = "completed" <=> status[r] = "completed"

(* The events of the executor reach the stream in the order run.started,   *)
(* what the factory sends, one terminal event; Interrupts may stand        *)
(* anywhere between them.                                                  *)
ExecutorOrder ==
    \A r \in Runs : \A i, j \in DOMAIN log[r] :
        i < j =>
            /\ log[r][i] \in Terminals => log[r][j] = "interrupt"
            /\ log[r][j] = "started" => log[r][i] = "interrupt"

(* io.EOF comes last: the reader that gets it has been given the terminal  *)
(* event and every event whose send succeeded, Interrupts included.        *)
EOFMeansDrained ==
    \A r \in Runs : eof[r] =>
        /\ read[r] = Len(log[r])
        /\ \E i \in DOMAIN log[r] : log[r][i] \in Terminals

(* A run that has left "running" when Interrupt or Cancel is called takes  *)
(* no event and no cancellation from that call, although Interrupt reads   *)
(* the status without r.mu.                                                *)
LateCallsRefused ==
    \A c \in Callers : call[c].late => call[c].reply \notin {"sent", "cancelled"}

(* What Status reports of a run that ended never changes again: neither a  *)
(* Cancel that races with the end nor a second Dispatch of the id revives  *)
(* or relabels it.                                                         *)
EndedIsFinal ==
    [][\A r \in Runs : ended[r] => ended'[r] /\ status'[r] = status[r]]_vars

-----------------------------------------------------------------------------
(* Liveness.                                                               *)

(* Interrupt, Cancel and Status return although nobody reads the streams,  *)
(* however full the channels are: no lock is held while a send waits.      *)
CallsReturn ==
    \A c \in Callers : call[c].at # "idle" ~> call[c].at = "idle"

(* The stream of a cancelled run ends, given only that it is read and that *)
(* the factory obeys its context.                                          *)
CancelledRunsEnd ==
    (ReadersRead /\ FactoriesObeyCtx) =>
        \A r \in Runs : status[r] = "cancelled" ~> eof[r]

(* The stream of every dispatched run ends, given that it is read and that *)
(* the factory returns: no Interrupt keeps the executor from closing it.   *)
StreamsEnd ==
    (ReadersRead /\ FactoriesReturn) =>
        \A r \in Runs : status[r] # "absent" ~> eof[r]

-----------------------------------------------------------------------------
(* LiteRunner implements RunContract: the reader has been told what the    *)
(* terminal event among those Next has returned says.                      *)

Verdict(given) == IF given = {} THEN "none" ELSE CHOOSE e \in given : TRUE
Told(r) == Verdict(Terminals \cap {log[r][i] : i \in 1..read[r]})

Contract == INSTANCE RunContract WITH
    outcome <- status,
    told    <- [r \in Runs |-> Told(r)],
    over    <- eof

(* Status and the stream tell one story: each run is started once, ends    *)
(* once, the reader is told the end that Status reports, then io.EOF.      *)
KeepsContract == Contract!Spec

-----------------------------------------------------------------------------
(* What the code's comments and tests say and its runs do not keep.        *)

(* "Cancel cancels the run's context and marks it as cancelled": a run     *)
(* that Cancel acknowledged is reported as cancelled from then on.         *)
CancelledStays ==
    [][\A r \in Runs : status[r] = "cancelled" => status'[r] = "cancelled"]_vars

(* "Last event must be run.completed": the last event before io.EOF is the *)
(* terminal one.                                                           *)
LastEventIsTerminal ==
    \A r \in Runs : eof[r] => log[r][Len(log[r])] \in Terminals
=============================================================================
