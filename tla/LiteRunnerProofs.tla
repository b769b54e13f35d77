-------------------------- MODULE LiteRunnerProofs --------------------------
(***************************************************************************)
(* Proofs about LiteRunner, for any set of runs and of callers and for any *)
(* capacity.                                                               *)
(***************************************************************************)
EXTENDS LiteRunner, TLAPS

(* Where the executor stands fixes the status, endedAt and the closing.    *)
Phases ==
    \A r \in Runs :
        /\ status[r] = "absent" <=> pc[r] = "none"
        /\ ended[r] <=> pc[r] \in {"send_completed", "send_error", "close", "done"}
        /\ ended[r] => status[r] # "running"
        /\ status[r] \in Terminals => ended[r]
        /\ pc[r] = "send_completed" => status[r] = "completed"
        /\ pc[r] = "send_error" => status[r] # "completed"
        /\ closed[r] <=> pc[r] = "done"
        /\ mu = r <=> pc[r] \in {"record_ok", "record_err"}

(* What the executor has sent so far.                                      *)
Sent ==
    \A r \in Runs :
        /\ \A i \in DOMAIN log[r] :
              /\ log[r][i] \in Terminals =>
                    /\ pc[r] \in {"close", "done"}
                    /\ log[r][i] = "completed" <=> status[r] = "completed"
              /\ log[r][i] # "interrupt" => pc[r] \notin {"none", "start"}
        /\ pc[r] \in {"close", "done"} =>
              \E i \in DOMAIN log[r] : log[r][i] \in Terminals

(* A caller past the test of rs.closed holds rs.mu, and the channel of its *)
(* run stays open; a late one is turned away at the test of the status.    *)
Locks ==
    \A c \in Callers :
        /\ call[c].at \in {"check", "send"} =>
              rsmu[call[c].run] = c /\ ~closed[call[c].run]
        /\ call[c].at \in {"lock", "check", "send"} =>
              status[call[c].run] # "absent"
        /\ call[c].late /\ call[c].at # "idle" =>
              /\ status[call[c].run] \notin {"absent", "running"}
              /\ call[c].at # "send"

(* io.EOF is only returned by a closed and drained channel.                *)
Drained == \A r \in Runs : eof[r] => closed[r] /\ read[r] = Len(log[r])

IInv == /\ TypeOK
        /\ Phases
        /\ Sent
        /\ ExecutorOrder
        /\ Locks
        /\ Drained
        /\ NoSendOnClosedChannel
        /\ LateCallsRefused
-----------------------------------------------------------------------------

(* What a send that was not blocked does to the channels: one run's log is *)
(* one event longer, and stays within the capacity.                        *)
LEMMA SendKeepsBound ==
    ASSUME TypeOK, NEW r \in Runs, NEW e \in Events, HasRoom(r), Send(r, e)
    PROVE  /\ log' \in [Runs -> Seq(Events)]
           /\ panicked' \in BOOLEAN
           /\ \A q \in Runs : /\ read[q] <= Len(log'[q])
                              /\ Len(log'[q]) - read[q] <= Capacity
  BY CapacityAssumption DEF TypeOK, HasRoom, Send

LEMMA TypeInit == Init => TypeOK
<1> SUFFICES ASSUME Init PROVE TypeOK
  OBVIOUS
<1>1. Idle("none", FALSE) \in IdleCalls
  BY DEF Idle, IdleCalls, Replies
<1>2. call \in [Callers -> IdleCalls \cup BusyCalls]
  BY <1>1 DEF Init
<1>3. /\ log \in [Runs -> Seq(Events)]
      /\ \A r \in Runs : read[r] <= Len(log[r]) /\ Len(log[r]) - read[r] <= Capacity
  BY CapacityAssumption DEF Init
<1> QED
  BY <1>2, <1>3 DEF Init, TypeOK, Statuses, ExecSteps

(* The actions of the readers, the executors and the factories.            *)
LEMMA TypeRunSteps ==
    ASSUME TypeOK, NEW r \in Runs,
           \/ Dispatch(r) \/ Executor(r) \/ FactoryEmit(r) \/ Factory(r)
           \/ Reader(r)
           \/ \E why \in {"canceled", "deadline"} : ParentDone(r, why)
    PROVE  TypeOK'
<1> USE CapacityAssumption
    DEF runVars, chanVars, callVars, Statuses, ExecSteps
<1>1. CASE Dispatch(r)
  BY <1>1 DEF TypeOK, Dispatch, NewId
<1>2. CASE SendStarted(r)
  BY <1>2, SendKeepsBound DEF TypeOK, SendStarted, ExecStep, Send, Events
<1>3. CASE RecordCompleted(r)
  BY <1>3 DEF TypeOK, RecordCompleted, ExecStep, AfterSuccess
<1>4. CASE RecordError(r)
  BY <1>4 DEF TypeOK, RecordError, ExecStep
<1>5. CASE SendTerminal(r)
  <2>1. PICK e \in Terminals : Send(r, e) /\ HasRoom(r)
    BY <1>5 DEF SendTerminal, Terminals
  <2>2. e \in Events
    BY <2>1 DEF Events
  <2> QED
    BY <1>5, <2>1, <2>2, SendKeepsBound DEF TypeOK, SendTerminal, ExecStep, Send
<1>6. CASE CloseChannel(r)
  BY <1>6 DEF TypeOK, CloseChannel, ExecStep, RsMuFree
<1>7. CASE FactoryEmit(r)
  BY <1>7, SendKeepsBound DEF TypeOK, FactoryEmit, ExecStep, Send, Events
<1>8. CASE Factory(r)
  BY <1>8 DEF TypeOK, Factory, FactorySucceeds, FactoryFails, FactoryReturn, ExecStep
<1>9. CASE NextEvent(r)
  BY <1>9 DEF TypeOK, NextEvent
<1>10. CASE NextEOF(r)
  BY <1>10 DEF TypeOK, NextEOF, BufferEmpty
<1>11. CASE \E why \in {"canceled", "deadline"} : ParentDone(r, why)
  BY <1>11 DEF TypeOK, ParentDone
<1> QED
  BY <1>1, <1>2, <1>3, <1>4, <1>5, <1>6, <1>7, <1>8, <1>9, <1>10, <1>11
  DEF Executor, Reader

(* What the two ways for a call to go on do to the callers.                *)
LEMMA CallMoves ==
    ASSUME TypeOK, NEW c \in Callers
    PROVE  /\ call[c].at # "idle" => \A s \in CallSteps :
                Goto(c, s) => call' \in [Callers -> IdleCalls \cup BusyCalls]
           /\ \A p \in Replies :
                Return(c, p) => call' \in [Callers -> IdleCalls \cup BusyCalls]
           /\ call[c].at # "idle" => call[c] \in BusyCalls
<1>1. call[c] \in IdleCalls \cup BusyCalls
  BY DEF TypeOK
<1>2. call[c].at # "idle" => call[c] \in BusyCalls
  BY <1>1 DEF IdleCalls
<1>3. ASSUME call[c] \in BusyCalls, NEW s \in CallSteps
      PROVE  [call[c] EXCEPT !.at = s] \in BusyCalls
  BY <1>3 DEF BusyCalls
<1>4. ASSUME NEW p \in Replies
      PROVE  Idle(p, call[c].late) \in IdleCalls
  BY <1>1, <1>4 DEF Idle, IdleCalls, BusyCalls
<1> QED
  BY <1>2, <1>3, <1>4 DEF TypeOK, Goto, Return

LEMMA TypeCallSteps ==
    ASSUME TypeOK, NEW c \in Callers,
           \/ Caller(c)
           \/ \E r \in Runs : BeginInterrupt(c, r) \/ BeginCancel(c, r)
                              \/ BeginStatus(c, r)
    PROVE  TypeOK'
<1> USE CapacityAssumption DEF runVars, chanVars, callVars
<1> USE CallMoves DEF CallSteps, Replies
<1>1. CASE InterruptLookup(c)
  BY <1>1 DEF TypeOK, InterruptLookup
<1>2. CASE InterruptLock(c)
  BY <1>2 DEF TypeOK, InterruptLock, RsMuFree
<1>3. CASE InterruptCheck(c)
  BY <1>3 DEF TypeOK, InterruptCheck, Interruptible, RsUnlock
<1>4. CASE InterruptSend(c)
  <2> DEFINE r == call[c].run
  <2>1. r \in Runs
    BY <1>4 DEF InterruptSend, BusyCalls, RsUnlock
  <2>2. CASE HasRoom(r)
    <3>1. Send(r, "interrupt") /\ Return(c, "sent")
      BY <1>4, <2>2 DEF InterruptSend, RsUnlock
    <3>2. "interrupt" \in Events
      BY DEF Events
    <3> QED
      BY <1>4, <2>1, <2>2, <3>1, <3>2, SendKeepsBound DEF TypeOK, InterruptSend, Send, RsUnlock
  <2>3. CASE ~HasRoom(r)
    BY <1>4, <2>1, <2>3 DEF TypeOK, InterruptSend, RsUnlock
  <2> QED
    BY <2>2, <2>3
<1>5. CASE CancelRun(c)
  BY <1>5 DEF TypeOK, CancelRun, Statuses, CancelCtx
<1>6. CASE StatusOf(c)
  BY <1>6 DEF TypeOK, StatusOf
<1>7. CASE \E r \in Runs : BeginInterrupt(c, r) \/ BeginCancel(c, r) \/ BeginStatus(c, r)
  <2>1. PICK r \in Runs, s \in CallSteps : Begin(c, r, s)
    BY <1>7 DEF BeginInterrupt, BeginCancel, BeginStatus
  <2>2. PICK late \in BOOLEAN :
            call' = [call EXCEPT ![c] = [at |-> s, run |-> r,
                                         reply |-> "none", late |-> late]]
    BY <2>1, Zenon DEF Begin
  <2>3. [at |-> s, run |-> r, reply |-> "none", late |-> late] \in BusyCalls
    BY DEF BusyCalls
  <2> QED
    BY <2>1, <2>2, <2>3 DEF TypeOK, Begin
<1> QED
  BY <1>1, <1>2, <1>3, <1>4, <1>5, <1>6, <1>7 DEF Caller

(* Type correctness, channels within their capacity included.              *)
THEOREM TypeCorrect == Spec => []TypeOK
<1>1. TypeOK /\ UNCHANGED vars => TypeOK'
  BY DEF TypeOK, vars, runVars, chanVars, callVars
<1>2. TypeOK /\ [Next]_vars => TypeOK'
  BY <1>1, TypeRunSteps, TypeCallSteps DEF Next
<1> QED
  BY TypeInit, <1>2, PTL DEF Spec

-----------------------------------------------------------------------------
(* IInv is inductive.  Each part is preserved by the steps of the runs and *)
(* by those of the callers.                                                *)

LEMMA InvInit == Init => IInv
<1> SUFFICES ASSUME Init PROVE IInv
  OBVIOUS
<1>1. \A c \in Callers : call[c] = Idle("none", FALSE)
  BY DEF Init
<1>2. Locks /\ LateCallsRefused
  BY <1>1 DEF Locks, LateCallsRefused, Idle
<1>3. Phases
  BY NoOneAssumption DEF Init, Phases, Terminals
<1>4. Sent /\ ExecutorOrder
  BY DEF Init, Sent, ExecutorOrder
<1>5. Drained /\ NoSendOnClosedChannel
  BY DEF Init, Drained, NoSendOnClosedChannel
<1> QED
  BY TypeInit, <1>2, <1>3, <1>4, <1>5 DEF IInv

RunStep(r) ==
    \/ Dispatch(r) \/ Executor(r) \/ FactoryEmit(r) \/ Factory(r) \/ Reader(r)
    \/ \E why \in {"canceled", "deadline"} : ParentDone(r, why)

CallStep(c) ==
    \/ Caller(c)
    \/ \E r \in Runs : BeginInterrupt(c, r) \/ BeginCancel(c, r)
                       \/ BeginStatus(c, r)

LEMMA PhasesRunSteps ==
    ASSUME IInv, NEW r \in Runs, RunStep(r)
    PROVE  Phases'
<1> USE NoOneAssumption DEF IInv, TypeOK, Phases, ExecStep, chanVars, Terminals
<1>1. CASE Dispatch(r)
  BY <1>1 DEF Dispatch, NewId
<1>2. CASE SendStarted(r)
  BY <1>2 DEF SendStarted, Send
<1>3. CASE RecordCompleted(r)
  BY <1>3 DEF RecordCompleted, AfterSuccess
<1>4. CASE RecordError(r)
  BY <1>4 DEF RecordError
<1>5. CASE SendTerminal(r)
  <2>1. /\ pc[r] \in {"send_completed", "send_error"}
        /\ pc' = [pc EXCEPT ![r] = "close"]
        /\ UNCHANGED <<status, ended, closed, mu>>
    BY <1>5 DEF SendTerminal, Send
  <2> QED
    BY <2>1
<1>6. CASE CloseChannel(r)
  BY <1>6 DEF CloseChannel, RsMuFree
<1>7. CASE FactoryEmit(r)
  BY <1>7 DEF FactoryEmit, Send
<1>8. CASE Factory(r)
  BY <1>8 DEF Factory, FactorySucceeds, FactoryFails, FactoryReturn
<1>9. CASE Reader(r)
  BY <1>9 DEF Reader, NextEvent, NextEOF, runVars, BufferEmpty
<1>10. CASE \E why \in {"canceled", "deadline"} : ParentDone(r, why)
  BY <1>10 DEF ParentDone
<1> QED
  BY <1>1, <1>2, <1>3, <1>4, <1>5, <1>6, <1>7, <1>8, <1>9, <1>10
  DEF RunStep, Executor

LEMMA PhasesCallSteps ==
    ASSUME IInv, NEW c \in Callers, CallStep(c)
    PROVE  Phases'
<1>1. CASE CancelRun(c)
  <2>1. call[c].run \in Runs
    BY <1>1, CallMoves DEF IInv, CancelRun, BusyCalls, CancelCtx
  <2> QED
    BY <1>1, <2>1 DEF IInv, TypeOK, Phases, CancelRun, chanVars, Terminals, CancelCtx
<1>2. CASE InterruptSend(c)
  BY <1>2 DEF IInv, Phases, InterruptSend, Send, runVars, chanVars, RsUnlock
<1>3. CASE ~CancelRun(c) /\ ~InterruptSend(c)
  <2>1. UNCHANGED <<runVars, chanVars>>
    BY <1>3 DEF CallStep, Caller, InterruptLookup, InterruptLock, InterruptCheck,
                StatusOf, BeginInterrupt, BeginCancel, BeginStatus, Begin, RsMuFree, Interruptible, RsUnlock
  <2> QED
    BY <2>1 DEF IInv, Phases, runVars, chanVars
<1> QED
  BY <1>1, <1>2, <1>3

(* The log after a send, index by index.                                   *)
LEMMA LogAfterSend ==
    ASSUME TypeOK, NEW r \in Runs, NEW e \in Events, Send(r, e)
    PROVE  /\ \A q \in Runs \ {r} : log'[q] = log[q]
           /\ Len(log'[r]) = Len(log[r]) + 1
           /\ DOMAIN log'[r] = DOMAIN log[r] \cup {Len(log[r]) + 1}
           /\ DOMAIN log[r] = 1..Len(log[r])
           /\ Len(log[r]) \in Nat
           /\ \A i \in DOMAIN log[r] : log'[r][i] = log[r][i]
           /\ log'[r][Len(log[r]) + 1] = e
<1>1. log[r] \in Seq(Events) /\ log'[r] = Append(log[r], e)
  BY DEF TypeOK, Send
<1>2. \A q \in Runs \ {r} : log'[q] = log[q]
  BY DEF TypeOK, Send
<1> QED
  BY <1>1, <1>2

(* The history part of the invariant, with its three ways to change: the   *)
(* executor moves on, an event is sent, a run starts with an empty log.    *)
History == Sent /\ ExecutorOrder

LEMMA HistoryRunSteps ==
    ASSUME IInv, NEW r \in Runs, RunStep(r)
    PROVE  History'
<1> USE DEF IInv, ExecStep, chanVars, History
<1>0. pc \in [Runs -> ExecSteps] /\ status \in [Runs -> Statuses] /\ log \in [Runs -> Seq(Events)]
  BY DEF TypeOK
<1>1. CASE Dispatch(r)
  BY <1>0, <1>1 DEF Dispatch, Sent, ExecutorOrder, NewId
<1>2. CASE SendStarted(r)
  <2>1. Send(r, "started") /\ "started" \in Events /\ "started" \notin Terminals
    BY <1>2 DEF SendStarted, Events, Terminals
  <2>2. \A i \in DOMAIN log[r] : log[r][i] = "interrupt"
    BY <1>0, <1>2 DEF SendStarted, Sent
  <2>3. Sent'
    <3>1. /\ pc'[r] = "factory" /\ UNCHANGED status
          /\ \A q \in Runs \ {r} : pc'[q] = pc[q]
      BY <1>0, <1>2 DEF SendStarted
    <3>2. \A i \in DOMAIN log'[r] : log'[r][i] \notin Terminals
      BY <2>1, <2>2, LogAfterSend DEF Terminals
    <3> QED
      BY <2>1, <3>1, <3>2, LogAfterSend DEF Sent
  <2>4. ExecutorOrder'
    <3>1. \A i, j \in DOMAIN log'[r] : i < j =>
             log'[r][i] = "interrupt" /\ log'[r][i] \notin Terminals
      BY <2>1, <2>2, LogAfterSend DEF Terminals
    <3> QED
      BY <2>1, <3>1, LogAfterSend DEF ExecutorOrder
  <2> QED
    BY <2>3, <2>4
<1>3. CASE FactoryEmit(r)
  <2>1. Send(r, "emit") /\ "emit" \in Events /\ "emit" \notin Terminals
    BY <1>3 DEF FactoryEmit, Events, Terminals
  <2>2. \A i \in DOMAIN log[r] : log[r][i] \notin Terminals
    BY <1>0, <1>3 DEF FactoryEmit, Sent
  <2>3. Sent'
    <3>1. pc[r] = "factory" /\ UNCHANGED <<pc, status>>
      BY <1>0, <1>3 DEF FactoryEmit
    <3>2. \A i \in DOMAIN log'[r] : log'[r][i] \notin Terminals
      BY <2>1, <2>2, LogAfterSend DEF Terminals
    <3> QED
      BY <2>1, <3>1, <3>2, LogAfterSend DEF Sent
  <2>4. ExecutorOrder'
    <3>1. \A i, j \in DOMAIN log'[r] : i < j =>
             /\ log'[r][i] \notin Terminals
             /\ log'[r][j] = "started" => log'[r][i] = "interrupt"
      BY <2>1, <2>2, LogAfterSend DEF Terminals, ExecutorOrder
    <3> QED
      BY <2>1, <3>1, LogAfterSend DEF ExecutorOrder
  <2> QED
    BY <2>3, <2>4
<1>4. CASE SendTerminal(r)
  <2>1. PICK e \in Terminals :
            /\ Send(r, e)
            /\ e = "completed" <=> pc[r] = "send_completed"
            /\ pc[r] \in {"send_completed", "send_error"}
            /\ pc' = [pc EXCEPT ![r] = "close"]
            /\ UNCHANGED status
    BY <1>4 DEF SendTerminal, Terminals
  <2>2. e \in Events /\ e # "started" /\ e # "interrupt"
    BY <2>1 DEF Events, Terminals
  <2>3. \A i \in DOMAIN log[r] : log[r][i] \notin Terminals
    BY <1>0, <2>1 DEF Sent
  <2>4. e = "completed" <=> status[r] = "completed"
    BY <1>0, <2>1 DEF Phases
  <2>5. Sent'
    BY <1>0, <2>1, <2>2, <2>3, <2>4, LogAfterSend DEF Sent
  <2>6. ExecutorOrder'
    <3>1. \A i, j \in DOMAIN log'[r] : i < j =>
             /\ log'[r][i] \notin Terminals
             /\ log'[r][j] = "started" => log'[r][i] = "interrupt"
      BY <2>1, <2>2, <2>3, LogAfterSend DEF ExecutorOrder
    <3> QED
      BY <2>1, <2>2, <3>1, LogAfterSend DEF ExecutorOrder
  <2> QED
    BY <2>5, <2>6
<1>5. CASE RecordCompleted(r) \/ RecordError(r)
  <2>1. UNCHANGED log /\ \A q \in Runs \ {r} : pc'[q] = pc[q] /\ status'[q] = status[q]
    BY <1>0, <1>5 DEF RecordCompleted, RecordError, AfterSuccess
  <2>2. /\ pc[r] \in {"record_ok", "record_err"}
        /\ pc'[r] \in {"send_completed", "send_error"}
    BY <1>0, <1>5 DEF RecordCompleted, RecordError, AfterSuccess
  <2>3. Sent'
    BY <2>1, <2>2 DEF Sent
  <2> QED
    BY <2>1, <2>3 DEF ExecutorOrder
<1>6. CASE CloseChannel(r)
  BY <1>0, <1>6 DEF CloseChannel, Sent, ExecutorOrder, RsMuFree
<1>7. CASE Factory(r)
  BY <1>0, <1>7
  DEF Factory, FactorySucceeds, FactoryFails, FactoryReturn, Sent, ExecutorOrder
<1>8. CASE Reader(r)
  BY <1>8 DEF Reader, NextEvent, NextEOF, runVars, Sent, ExecutorOrder, BufferEmpty
<1>9. CASE \E why \in {"canceled", "deadline"} : ParentDone(r, why)
  BY <1>9 DEF ParentDone, Sent, ExecutorOrder
<1> QED
  BY <1>1, <1>2, <1>3, <1>4, <1>5, <1>6, <1>7, <1>8, <1>9 DEF RunStep, Executor

LEMMA HistoryCallSteps ==
    ASSUME IInv, NEW c \in Callers, CallStep(c)
    PROVE  History'
<1> USE DEF IInv, History
<1>0. pc \in [Runs -> ExecSteps] /\ status \in [Runs -> Statuses] /\ log \in [Runs -> Seq(Events)]
  BY DEF TypeOK
<1>1. CASE CancelRun(c)
  <2>1. call[c].run \in Runs
    BY <1>1, CallMoves DEF CancelRun, BusyCalls, CancelCtx
  <2>2. \A q \in Runs : status'[q] = "completed" <=> status[q] = "completed"
    BY <1>0, <1>1, <2>1 DEF CancelRun, CancelCtx
  <2> QED
    BY <1>0, <1>1, <2>2 DEF CancelRun, chanVars, Sent, ExecutorOrder, CancelCtx
<1>2. CASE InterruptSend(c)
  <2> DEFINE r == call[c].run
  <2>1. r \in Runs /\ pc[r] # "none"
    BY <1>2, CallMoves DEF InterruptSend, BusyCalls, Locks, Phases, RsUnlock
  <2>2. CASE HasRoom(r)
    <3>1. Send(r, "interrupt") /\ "interrupt" \in Events /\ "interrupt" \notin Terminals
      BY <1>2, <2>2 DEF InterruptSend, Events, Terminals, RsUnlock
    <3>2. UNCHANGED runVars
      BY <1>2 DEF InterruptSend, RsUnlock
    <3>3. Sent'
      <4>1. \A i \in DOMAIN log'[r] :
               log'[r][i] = "interrupt" \/ (i \in DOMAIN log[r] /\ log'[r][i] = log[r][i])
        BY <2>1, <3>1, LogAfterSend
      <4>2. \A i \in DOMAIN log[r] : i \in DOMAIN log'[r] /\ log'[r][i] = log[r][i]
        BY <2>1, <3>1, LogAfterSend
      <4>3. \A q \in Runs \ {r} : log'[q] = log[q]
        BY <2>1, <3>1, LogAfterSend
      <4> QED
        BY <2>1, <3>1, <3>2, <4>1, <4>2, <4>3 DEF Sent, runVars
    <3>4. ExecutorOrder'
      <4>1. \A i, j \in DOMAIN log'[r] : i < j =>
               /\ log'[r][i] \in Terminals => log'[r][j] = "interrupt"
               /\ log'[r][j] = "started" => log'[r][i] = "interrupt"
        BY <2>1, <3>1, LogAfterSend DEF ExecutorOrder
      <4> QED
        BY <2>1, <3>1, <4>1, LogAfterSend DEF ExecutorOrder
    <3> QED
      BY <3>3, <3>4
  <2>3. CASE ~HasRoom(r)
    BY <1>2, <2>3 DEF InterruptSend, runVars, chanVars, Sent, ExecutorOrder, RsUnlock
  <2> QED
    BY <2>2, <2>3
<1>3. CASE ~CancelRun(c) /\ ~InterruptSend(c)
  <2>1. UNCHANGED <<runVars, chanVars>>
    BY <1>3 DEF CallStep, Caller, InterruptLookup, InterruptLock, InterruptCheck,
                StatusOf, BeginInterrupt, BeginCancel, BeginStatus, Begin, RsMuFree, Interruptible, RsUnlock
  <2> QED
    BY <2>1 DEF Sent, ExecutorOrder, runVars, chanVars
<1> QED
  BY <1>1, <1>2, <1>3

(* The part about the calls: who holds rs.mu, who sends, who is late.      *)
CallPart == Locks /\ Drained /\ NoSendOnClosedChannel /\ LateCallsRefused

LEMMA CallPartRunSteps ==
    ASSUME IInv, NEW r \in Runs, RunStep(r)
    PROVE  CallPart'
<1> USE NoOneAssumption
    DEF IInv, CallPart, ExecStep, runVars, chanVars, callVars
<1>0. /\ pc \in [Runs -> ExecSteps] /\ status \in [Runs -> Statuses]
      /\ log \in [Runs -> Seq(Events)] /\ closed \in [Runs -> BOOLEAN]
      /\ eof \in [Runs -> BOOLEAN] /\ read \in [Runs -> Nat]
      /\ ctx \in [Runs -> {"live", "canceled", "deadline"}]
  BY DEF TypeOK
<1>1. UNCHANGED <<rsmu, call>>
  BY DEF RunStep, Dispatch, Executor, SendStarted, RecordCompleted, RecordError,
         SendTerminal, CloseChannel, FactoryEmit, Factory, FactorySucceeds,
         FactoryFails, FactoryReturn, Reader, NextEvent, NextEOF, ParentDone, NewId, AfterSuccess, RsMuFree, BufferEmpty
<1>2. LateCallsRefused'
  BY <1>1 DEF LateCallsRefused
<1>3. \A c \in Callers : call[c].at # "idle" => call[c].run \in Runs
  BY CallMoves DEF BusyCalls
<1>4. CASE Dispatch(r)
  <2>1. \A q \in Runs : status[q] # "absent" =>
            q # r /\ status'[q] = status[q] /\ closed'[q] = closed[q]
    BY <1>0, <1>4 DEF Dispatch, NewId
  <2>2. Locks'
    BY <1>1, <1>3, <2>1 DEF Locks
  <2>3. Drained'
    BY <1>0, <1>4 DEF Dispatch, Drained, NewId
  <2> QED
    BY <1>2, <1>4, <2>2, <2>3 DEF Dispatch, NoSendOnClosedChannel, NewId
<1>5. ASSUME UNCHANGED <<status, closed, eof, ctx>>,
             pc[r] \in {"start", "factory", "send_completed", "send_error"},
             NEW e \in Events, Send(r, e)
      PROVE  CallPart'
  <2>1. ~closed[r]
    BY <1>0, <1>5 DEF Phases
  <2>2. Drained'
    BY <1>0, <1>5, <2>1, LogAfterSend DEF Drained, Send
  <2>3. NoSendOnClosedChannel'
    BY <1>5, <2>1 DEF NoSendOnClosedChannel, Send
  <2> QED
    BY <1>1, <1>2, <1>5, <2>2, <2>3 DEF Locks
<1>6. CASE SendStarted(r) \/ FactoryEmit(r) \/ SendTerminal(r)
  <2>1. UNCHANGED <<status, closed, eof, ctx>>
    BY <1>6 DEF SendStarted, FactoryEmit, SendTerminal, Send
  <2>2. \E e \in Events : Send(r, e)
    BY <1>6 DEF SendStarted, FactoryEmit, SendTerminal, Events, Terminals
  <2>3. pc[r] \in {"start", "factory", "send_completed", "send_error"}
    BY <1>6 DEF SendStarted, FactoryEmit, SendTerminal
  <2> QED
    BY <1>5, <2>1, <2>2, <2>3
<1>7. CASE RecordCompleted(r) \/ RecordError(r)
  <2>1. \A q \in Runs :
            status'[q] \in {"absent", "running"} => status'[q] = status[q]
    BY <1>0, <1>7 DEF RecordCompleted, RecordError, AfterSuccess
  <2>2. Locks'
    BY <1>1, <1>3, <1>7, <2>1 DEF Locks, RecordCompleted, RecordError, AfterSuccess
  <2> QED
    BY <1>2, <1>7, <2>2
    DEF RecordCompleted, RecordError, Drained, NoSendOnClosedChannel, AfterSuccess
<1>8. CASE CloseChannel(r)
  <2>1. rsmu[r] = NoOne /\ \A q \in Runs \ {r} : closed'[q] = closed[q]
    BY <1>0, <1>8 DEF CloseChannel, RsMuFree
  <2>2. \A c \in Callers : call[c].at \in {"check", "send"} => call[c].run # r
    BY <2>1 DEF Locks
  <2>3. Locks'
    BY <1>1, <1>3, <1>8, <2>1, <2>2 DEF Locks, CloseChannel, RsMuFree
  <2> QED
    BY <1>0, <1>2, <1>8, <2>3 DEF CloseChannel, Drained, NoSendOnClosedChannel, RsMuFree
<1>9. CASE Factory(r)
  BY <1>1, <1>2, <1>9
  DEF Factory, FactorySucceeds, FactoryFails, FactoryReturn, Locks, Drained,
      NoSendOnClosedChannel
<1>10. CASE NextEvent(r)
  <2>1. ~eof[r]
    BY <1>0, <1>10 DEF NextEvent, Drained
  <2> QED
    BY <1>0, <1>1, <1>2, <1>10, <2>1
    DEF NextEvent, Locks, Drained, NoSendOnClosedChannel
<1>11. CASE NextEOF(r)
  BY <1>0, <1>1, <1>2, <1>11
  DEF NextEOF, Locks, Drained, NoSendOnClosedChannel, BufferEmpty
<1>12. CASE \E why \in {"canceled", "deadline"} : ParentDone(r, why)
  BY <1>1, <1>2, <1>12 DEF ParentDone, Locks, Drained, NoSendOnClosedChannel
<1> QED
  BY <1>4, <1>6, <1>7, <1>8, <1>9, <1>10, <1>11, <1>12
  DEF RunStep, Executor, Reader

(* The fields of the call that moves, and the other calls.                 *)
LEMMA CallFields ==
    ASSUME TypeOK, NEW c \in Callers
    PROVE  /\ \A s : Goto(c, s) =>
                /\ \A d \in Callers \ {c} : call'[d] = call[d]
                /\ call'[c].at = s
                /\ call'[c].run = call[c].run
                /\ call'[c].late = call[c].late
                /\ call'[c].reply = call[c].reply
           /\ \A p : Return(c, p) =>
                /\ \A d \in Callers \ {c} : call'[d] = call[d]
                /\ call'[c].at = "idle"
                /\ call'[c].late = call[c].late
                /\ call'[c].reply = p
<1>1. call[c] \in IdleCalls \cup BusyCalls
  BY DEF TypeOK
<1>2. \A s : /\ [call[c] EXCEPT !.at = s].at = s
             /\ [call[c] EXCEPT !.at = s].run = call[c].run
             /\ [call[c] EXCEPT !.at = s].late = call[c].late
             /\ [call[c] EXCEPT !.at = s].reply = call[c].reply
  <2>1. CASE call[c] \in IdleCalls
    BY <2>1 DEF IdleCalls
  <2>2. CASE call[c] \in BusyCalls
    BY <2>2 DEF BusyCalls
  <2> QED
    BY <1>1, <2>1, <2>2
<1>3. call \in [Callers -> IdleCalls \cup BusyCalls]
  BY DEF TypeOK
<1>4. ASSUME NEW s, Goto(c, s)
      PROVE  /\ \A d \in Callers \ {c} : call'[d] = call[d]
             /\ call'[c] = [call[c] EXCEPT !.at = s]
  BY <1>3, <1>4 DEF Goto
<1>5. ASSUME NEW p, Return(c, p)
      PROVE  /\ \A d \in Callers \ {c} : call'[d] = call[d]
             /\ call'[c] = Idle(p, call[c].late)
  BY <1>3, <1>5 DEF Return
<1>6. ASSUME NEW p
      PROVE  /\ Idle(p, call[c].late).at = "idle"
             /\ Idle(p, call[c].late).late = call[c].late
             /\ Idle(p, call[c].late).reply = p
  BY DEF Idle
<1>7. ASSUME NEW p, Return(c, p)
      PROVE  /\ call'[c].at = "idle"
             /\ call'[c].late = call[c].late
             /\ call'[c].reply = p
  BY <1>5, <1>6, <1>7
<1>8. ASSUME NEW s, Goto(c, s)
      PROVE  /\ call'[c].at = s
             /\ call'[c].run = call[c].run
             /\ call'[c].late = call[c].late
             /\ call'[c].reply = call[c].reply
  <2>1. call'[c] = [call[c] EXCEPT !.at = s]
    BY <1>4, <1>8
  <2> QED
    BY <1>2, <2>1
<1> QED
  BY <1>4, <1>5, <1>7, <1>8

(* A call that returns anything but an acknowledgement, with rs.mu kept by *)
(* the others that hold it, preserves the part about the calls.            *)
LEMMA CallPartCallSteps ==
    ASSUME IInv, NEW c \in Callers, CallStep(c)
    PROVE  CallPart'
<1> USE NoOneAssumption DEF IInv, CallPart, runVars, chanVars
<1> DEFINE r == call[c].run
<1>0. /\ pc \in [Runs -> ExecSteps] /\ status \in [Runs -> Statuses]
      /\ log \in [Runs -> Seq(Events)] /\ closed \in [Runs -> BOOLEAN]
      /\ rsmu \in [Runs -> Callers \cup {NoOne}]
      /\ call \in [Callers -> IdleCalls \cup BusyCalls]
  BY DEF TypeOK
<1>1. /\ call[c].at # "idle" => r \in Runs /\ call[c].reply = "none"
      /\ \A d \in Callers : call[d].at # "idle" => call[d].run \in Runs
  BY CallMoves DEF BusyCalls
<1>2. CASE InterruptLookup(c)
  <2>1. Locks'
    BY <1>0, <1>1, <1>2, CallFields DEF InterruptLookup, Locks
  <2>2. LateCallsRefused'
    BY <1>1, <1>2, CallFields DEF InterruptLookup, LateCallsRefused
  <2> QED
    BY <1>2, <2>1, <2>2 DEF InterruptLookup, Drained, NoSendOnClosedChannel
<1>3. CASE InterruptLock(c)
  <2>1. Locks'
    <3>1. CASE closed[r]
      <4>1. Return(c, "refused") /\ UNCHANGED <<rsmu, status, closed>>
        BY <1>3, <3>1 DEF InterruptLock, RsMuFree
      <4>2. /\ \A d \in Callers \ {c} : call'[d] = call[d]
            /\ call'[c].at = "idle"
        BY <4>1, CallFields
      <4> QED
        BY <4>1, <4>2 DEF Locks
    <3>2. CASE ~closed[r]
      <4>1. Goto(c, "check") /\ rsmu' = [rsmu EXCEPT ![r] = c] /\ rsmu[r] = NoOne
        BY <1>3, <3>2 DEF InterruptLock, RsMuFree
      <4>2. /\ \A d \in Callers \ {c} : call'[d] = call[d]
            /\ call'[c].at = "check" /\ call'[c].run = r
            /\ call'[c].late = call[c].late
        BY <4>1, CallFields
      <4>3. call[c].at = "lock" /\ r \in Runs /\ UNCHANGED <<status, closed>>
        BY <1>1, <1>3 DEF InterruptLock, RsMuFree
      <4>4. rsmu'[r] = c /\ \A q \in Runs : rsmu[q] # NoOne => rsmu'[q] = rsmu[q]
        BY <1>0, <4>1, <4>3
      <4> QED
        BY <1>1, <3>2, <4>2, <4>3, <4>4 DEF Locks
    <3> QED
      BY <3>1, <3>2
  <2>2. LateCallsRefused'
    BY <1>1, <1>3, CallFields DEF InterruptLock, LateCallsRefused, RsMuFree
  <2> QED
    BY <1>3, <2>1, <2>2 DEF InterruptLock, Drained, NoSendOnClosedChannel, RsMuFree
<1>4. CASE InterruptCheck(c)
  <2>1. Locks'
    <3>1. r \in Runs /\ rsmu[r] = c /\ ~closed[r] /\ UNCHANGED <<status, closed>>
      BY <1>1, <1>4 DEF InterruptCheck, Locks, Interruptible, RsUnlock
    <3>2. CASE status[r] = "running"
      <4>1. Goto(c, "send") /\ UNCHANGED rsmu
        BY <1>4, <3>2 DEF InterruptCheck, Interruptible, RsUnlock
      <4>2. /\ \A d \in Callers \ {c} : call'[d] = call[d]
            /\ call'[c].at = "send" /\ call'[c].run = r
            /\ call'[c].late = call[c].late
        BY <4>1, CallFields
      <4>3. ~call[c].late
        BY <1>4, <3>2 DEF InterruptCheck, Locks, Interruptible, RsUnlock
      <4> QED
        BY <3>1, <3>2, <4>1, <4>2, <4>3 DEF Locks
    <3>3. CASE status[r] # "running"
      <4>1. Return(c, "refused") /\ rsmu' = [rsmu EXCEPT ![r] = NoOne]
        BY <1>4, <3>3 DEF InterruptCheck, Interruptible, RsUnlock
      <4>2. /\ \A d \in Callers \ {c} : call'[d] = call[d]
            /\ call'[c].at = "idle"
        BY <4>1, CallFields
      <4>3. \A d \in Callers \ {c} : call[d].at \in {"check", "send"} =>
               rsmu'[call[d].run] = d
        BY <1>0, <3>1, <4>1 DEF Locks
      <4> QED
        BY <3>1, <4>2, <4>3 DEF Locks
    <3> QED
      BY <3>2, <3>3
  <2>2. LateCallsRefused'
    BY <1>1, <1>4, CallFields DEF InterruptCheck, LateCallsRefused, Interruptible, RsUnlock
  <2> QED
    BY <1>4, <2>1, <2>2 DEF InterruptCheck, Drained, NoSendOnClosedChannel, Interruptible, RsUnlock
<1>5. CASE InterruptSend(c)
  <2>1. /\ r \in Runs /\ ~closed[r] /\ ~eof[r] /\ rsmu[r] = c /\ ~call[c].late
    BY <1>1, <1>5 DEF InterruptSend, Locks, Drained, RsUnlock
  <2>2. /\ UNCHANGED <<status, closed, eof>>
        /\ rsmu' = [rsmu EXCEPT ![r] = NoOne]
    BY <1>5 DEF InterruptSend, Send, RsUnlock
  <2>3. PICK p : Return(c, p)
    BY <1>5 DEF InterruptSend, RsUnlock
  <2>4. Locks'
    BY <1>0, <2>1, <2>2, <2>3, CallFields DEF Locks
  <2>5. LateCallsRefused'
    BY <2>1, <2>3, CallFields DEF LateCallsRefused
  <2>6. Drained' /\ NoSendOnClosedChannel'
    <3>1. CASE HasRoom(r)
      <4>1. Send(r, "interrupt") /\ "interrupt" \in Events
        BY <1>5, <3>1 DEF InterruptSend, Events, RsUnlock
      <4> QED
        BY <2>1, <4>1, LogAfterSend DEF Send, Drained, NoSendOnClosedChannel
    <3>2. CASE ~HasRoom(r)
      BY <1>5, <3>2 DEF InterruptSend, Drained, NoSendOnClosedChannel, RsUnlock
    <3> QED
      BY <3>1, <3>2
  <2> QED
    BY <2>4, <2>5, <2>6
<1>6. CASE CancelRun(c)
  <2>1. PICK p : Return(c, p) /\ (p = "cancelled" => status[r] = "running")
    BY <1>6 DEF CancelRun, CancelCtx
  <2>2. \A q \in Runs :
            status'[q] \in {"absent", "running"} => status'[q] = status[q]
    BY <1>0, <1>6 DEF CancelRun, CancelCtx
  <2>3. Locks'
    <3>1. /\ \A d \in Callers \ {c} : call'[d] = call[d]
          /\ call'[c].at = "idle"
      BY <2>1, CallFields
    <3>2. UNCHANGED <<rsmu, closed>>
      BY <1>6 DEF CancelRun, CancelCtx
    <3>3. \A d \in Callers : call[d].at # "idle" => call[d].run \in Runs
      BY CallMoves DEF BusyCalls
    <3> QED
      BY <2>2, <3>1, <3>2, <3>3 DEF Locks
  <2>4. LateCallsRefused'
    <3>1. call[c].late => status[r] # "running"
      BY <1>6 DEF CancelRun, Locks, CancelCtx
    <3>2. p # "sent"
      BY <1>6, <2>1, CallFields DEF CancelRun, CancelCtx
    <3> QED
      BY <1>6, <2>1, <3>1, <3>2, CallFields DEF CancelRun, LateCallsRefused, CancelCtx
  <2> QED
    BY <1>6, <2>3, <2>4 DEF CancelRun, Drained, NoSendOnClosedChannel, CancelCtx
<1>7. CASE StatusOf(c)
  <2>1. Locks'
    BY <1>0, <1>7, CallFields DEF StatusOf, Locks
  <2>2. LateCallsRefused'
    BY <1>7, CallFields DEF StatusOf, LateCallsRefused
  <2> QED
    BY <1>7, <2>1, <2>2 DEF StatusOf, Drained, NoSendOnClosedChannel
<1>8. CASE \E q \in Runs : BeginInterrupt(c, q) \/ BeginCancel(c, q) \/ BeginStatus(c, q)
  <2>1. PICK q \in Runs, s \in {"lookup", "cancel", "status"} : Begin(c, q, s)
    BY <1>8 DEF BeginInterrupt, BeginCancel, BeginStatus
  <2>2. /\ \A d \in Callers \ {c} : call'[d] = call[d]
        /\ call'[c].at = s /\ call'[c].run = q /\ call'[c].reply = "none"
        /\ call'[c].late => status[q] \notin {"absent", "running"}
    BY <1>0, <2>1 DEF Begin
  <2>3. Locks'
    BY <2>1, <2>2 DEF Begin, Locks
  <2>4. LateCallsRefused'
    BY <2>2 DEF LateCallsRefused
  <2> QED
    BY <2>1, <2>3, <2>4 DEF Begin, Drained, NoSendOnClosedChannel
<1> QED
  BY <1>2, <1>3, <1>4, <1>5, <1>6, <1>7, <1>8 DEF CallStep, Caller

-----------------------------------------------------------------------------

LEMMA InvNext == IInv /\ [Next]_vars => IInv'
<1>1. ASSUME IInv, NEW r \in Runs, RunStep(r) PROVE IInv'
  BY <1>1, TypeRunSteps, PhasesRunSteps, HistoryRunSteps, CallPartRunSteps
  DEF RunStep, IInv, History, CallPart
<1>2. ASSUME IInv, NEW c \in Callers, CallStep(c) PROVE IInv'
  BY <1>2, TypeCallSteps, PhasesCallSteps, HistoryCallSteps, CallPartCallSteps
  DEF CallStep, IInv, History, CallPart
<1>3. ASSUME IInv, UNCHANGED vars PROVE IInv'
  BY <1>3
  DEF IInv, vars, runVars, chanVars, callVars, TypeOK, Phases, Sent,
      ExecutorOrder, Locks, Drained, NoSendOnClosedChannel, LateCallsRefused
<1> QED
  BY <1>1, <1>2, <1>3 DEF Next, RunStep, CallStep

THEOREM Invariance == Spec => []IInv
<1> QED
  BY InvInit, InvNext, PTL DEF Spec

(* No goroutine ever sends on a closed channel.                            *)
THEOREM NoPanic == Spec => []NoSendOnClosedChannel
<1>1. IInv => NoSendOnClosedChannel
  BY DEF IInv
<1> QED
  BY Invariance, <1>1, PTL

(* The terminal event in a stream and the status of its run agree.         *)
THEOREM StreamAgreesWithStatus == Spec => []TerminalMatchesStatus
<1>1. IInv => TerminalMatchesStatus
  <2> SUFFICES ASSUME IInv, NEW r \in Runs, NEW i \in DOMAIN log[r],
                      log[r][i] \in Terminals
               PROVE  /\ ended[r]
                      /\ log[r][i] = "completed" <=> status[r] = "completed"
    BY DEF TerminalMatchesStatus
  <2>1. pc[r] \in {"close", "done"}
    BY DEF IInv, Sent
  <2> QED
    BY <2>1 DEF IInv, Sent, Phases
<1> QED
  BY Invariance, <1>1, PTL

(* What the executor sends arrives in the order it runs.                   *)
THEOREM ExecutorInOrder == Spec => []ExecutorOrder
<1>1. IInv => ExecutorOrder
  BY DEF IInv
<1> QED
  BY Invariance, <1>1, PTL

(* io.EOF is returned after everything that was sent, terminal included.   *)
THEOREM NothingAfterEOF == Spec => []EOFMeansDrained
<1>1. IInv => EOFMeansDrained
  BY DEF IInv, EOFMeansDrained, Drained, Phases, Sent
<1> QED
  BY Invariance, <1>1, PTL

(* A call made after the run left "running" is refused.                    *)
THEOREM LateCalls == Spec => []LateCallsRefused
<1>1. IInv => LateCallsRefused
  BY DEF IInv
<1> QED
  BY Invariance, <1>1, PTL

(* What Status reports of a run that ended never changes.                  *)
THEOREM EndsOnce == Spec => EndedIsFinal
<1>1. ASSUME IInv, [Next]_vars, NEW r \in Runs, ended[r]
      PROVE  ended'[r] /\ status'[r] = status[r]
  <2>1. /\ status[r] \notin {"absent", "running"}
        /\ pc[r] \in {"send_completed", "send_error", "close", "done"}
    BY <1>1 DEF IInv, Phases
  <2>2. status \in [Runs -> Statuses] /\ ended \in [Runs -> BOOLEAN]
    BY <1>1 DEF IInv, TypeOK
  <2>3. ASSUME NEW q \in Runs, RunStep(q)
        PROVE  ended'[r] /\ status'[r] = status[r]
    BY <1>1, <2>1, <2>2, <2>3
    DEF RunStep, Dispatch, Executor, SendStarted, RecordCompleted, RecordError,
        SendTerminal, CloseChannel, FactoryEmit, Factory, FactorySucceeds,
        FactoryFails, FactoryReturn, Reader, NextEvent, NextEOF, ParentDone,
        ExecStep, runVars, NewId, AfterSuccess, RsMuFree, BufferEmpty
  <2>4. ASSUME NEW c \in Callers, CallStep(c)
        PROVE  ended'[r] /\ status'[r] = status[r]
    BY <1>1, <2>1, <2>2, <2>4
    DEF CallStep, Caller, InterruptLookup, InterruptLock, InterruptCheck,
        InterruptSend, CancelRun, StatusOf, BeginInterrupt, BeginCancel,
        BeginStatus, Begin, runVars, RsMuFree, Interruptible, RsUnlock, CancelCtx
  <2>5. CASE UNCHANGED vars
    BY <1>1, <2>5 DEF vars, runVars
  <2> QED
    BY <1>1, <2>3, <2>4, <2>5 DEF Next, RunStep, CallStep
<1>2. IInv /\ [Next]_vars =>
        [\A r \in Runs : ended[r] => ended'[r] /\ status'[r] = status[r]]_vars
  BY <1>1
<1> QED
  BY Invariance, <1>2, PTL DEF Spec, EndedIsFinal

-----------------------------------------------------------------------------
(* LiteRunner implements RunContract.  Told(r) depends on the part of the  *)
(* log that was read only, and that part has one terminal event at most.   *)

LEMMA ToldValue ==
    ASSUME IInv, NEW r \in Runs
    PROVE  /\ (\A i \in 1..read[r] : log[r][i] \notin Terminals) => Told(r) = "none"
           /\ \A i \in 1..read[r] : log[r][i] \in Terminals =>
                 Told(r) = log[r][i]
<1> DEFINE given == Terminals \cap {log[r][i] : i \in 1..read[r]}
<1>1. /\ log[r] \in Seq(Events) /\ read[r] \in Nat /\ read[r] <= Len(log[r])
      /\ 1..read[r] \subseteq DOMAIN log[r]
  BY DEF IInv, TypeOK
<1>2. ASSUME NEW i \in 1..read[r], NEW j \in 1..read[r],
             log[r][i] \in Terminals, log[r][j] \in Terminals
      PROVE  i = j
  <2>1. i \in Nat /\ j \in Nat /\ i \in DOMAIN log[r] /\ j \in DOMAIN log[r]
    BY <1>1
  <2>2. "interrupt" \notin Terminals
    BY DEF Terminals
  <2>3. ~(i < j) /\ ~(j < i)
    BY <1>2, <2>1, <2>2 DEF IInv, ExecutorOrder
  <2> QED
    BY <2>1, <2>3
<1>3. ASSUME \A i \in 1..read[r] : log[r][i] \notin Terminals
      PROVE  Told(r) = "none"
  <2>1. given = {}
    BY <1>3
  <2> QED
    BY <2>1 DEF Told, Verdict
<1>4. ASSUME NEW i \in 1..read[r], log[r][i] \in Terminals
      PROVE  Told(r) = log[r][i]
  <2>1. given = {log[r][i]}
    BY <1>2, <1>4
  <2> QED
    BY <2>1 DEF Told, Verdict
<1> QED
  BY <1>3, <1>4

(* Told is a function of read and of the log up to read.                   *)
LEMMA ToldSame ==
    ASSUME IInv, IInv', NEW r \in Runs, read'[r] = read[r],
           \A i \in 1..read[r] : log'[r][i] = log[r][i]
    PROVE  Told(r)' = Told(r)
  BY DEF Told

LEMMA ContractInit == Init => Contract!Init
<1> SUFFICES ASSUME Init PROVE Contract!Init
  OBVIOUS
<1>1. \A r \in Runs : 1..read[r] = {}
  BY DEF Init
<1>2. \A r \in Runs : Told(r) = "none"
  BY <1>1 DEF Told, Verdict
<1> QED
  BY <1>2 DEF Init, Contract!Init

LEMMA ContractSend ==
    ASSUME IInv, IInv', NEW r \in Runs, NEW e \in Events, Send(r, e),
           UNCHANGED <<status, ended>>
    PROVE  UNCHANGED Contract!vars
<1>1. ASSUME NEW q \in Runs PROVE Told(q)' = Told(q)
  <2>1. /\ log[q] \in Seq(Events) /\ read[q] \in Nat /\ read[q] <= Len(log[q])
        /\ 1..read[q] \subseteq DOMAIN log[q]
    BY DEF IInv, TypeOK
  <2>2. read'[q] = read[q]
    BY DEF Send
  <2>3. \A i \in 1..read[q] : log'[q][i] = log[q][i]
    BY <2>1, LogAfterSend DEF IInv
  <2> QED
    BY <2>2, <2>3, ToldSame
<1>2. UNCHANGED [r_1 \in Runs |-> Told(r_1)]
  BY <1>1
<1> QED
  BY <1>2 DEF Send, Contract!vars

LEMMA ContractSame ==
    ASSUME UNCHANGED <<status, ended, log, read, eof>>
    PROVE  UNCHANGED Contract!vars
  BY DEF Contract!vars, Told

LEMMA ContractRunStep ==
    ASSUME IInv, IInv', NEW r \in Runs, RunStep(r)
    PROVE  [Contract!Next]_Contract!vars
<1> USE DEF ExecStep, runVars, chanVars
<1>0. /\ pc \in [Runs -> ExecSteps] /\ status \in [Runs -> Statuses]
      /\ ended \in [Runs -> BOOLEAN] /\ eof \in [Runs -> BOOLEAN]
      /\ log \in [Runs -> Seq(Events)] /\ read \in [Runs -> Nat]
      /\ \A q \in Runs : read[q] <= Len(log[q])
  BY DEF IInv, TypeOK
<1>1. CASE Dispatch(r)
  <2>1. pc[r] = "none" /\ ~ended[r] /\ ~eof[r]
    BY <1>0, <1>1 DEF IInv, Phases, Drained, Dispatch, NewId
  <2>2. \A i \in 1..read[r] : log[r][i] \notin Terminals
    <3>1. \A i \in DOMAIN log[r] : log[r][i] \notin Terminals
      BY <2>1 DEF IInv, Sent
    <3>2. 1..read[r] \subseteq DOMAIN log[r]
      BY <1>0
    <3> QED  BY <3>1, <3>2
  <2>3. \A i \in 1..read'[r] : log'[r][i] \notin Terminals
    BY <1>0, <1>1 DEF Dispatch, NewId
  <2>4. Told(r)' = Told(r)
    BY <2>2, <2>3 DEF Told
  <2>5. \A q \in Runs \ {r} : Told(q)' = Told(q)
    BY <1>0, <1>1 DEF Dispatch, Told, NewId
  <2>6. UNCHANGED [q \in Runs |-> Told(q)]
    BY <2>4, <2>5
  <2>7. UNCHANGED <<ended, eof>>
    BY <1>0, <1>1, <2>1 DEF Dispatch, NewId
  <2>8. Contract!Start(r)
    BY <1>1, <2>6, <2>7 DEF Dispatch, Contract!Start, NewId
  <2> QED
    BY <2>8 DEF Contract!Next
<1>2. CASE SendStarted(r) \/ FactoryEmit(r) \/ SendTerminal(r)
  <2>1. \E e \in Events : Send(r, e)
    BY <1>2 DEF SendStarted, FactoryEmit, SendTerminal, Events, Terminals
  <2>2. UNCHANGED <<status, ended>>
    BY <1>2 DEF SendStarted, FactoryEmit, SendTerminal
  <2> QED
    BY <2>1, <2>2, ContractSend
<1>3. CASE RecordCompleted(r) \/ RecordError(r)
  <2>1. ~ended[r] /\ status[r] \in {"running", "cancelled"}
    BY <1>0, <1>3 DEF IInv, Phases, Statuses, Terminals, RecordCompleted, RecordError, AfterSuccess
  <2>2. /\ ended' = [ended EXCEPT ![r] = TRUE]
        /\ \/ status' = [status EXCEPT ![r] = "completed"]
           \/ status' = [status EXCEPT ![r] = "error"]
           \/ status[r] = "cancelled" /\ UNCHANGED status
        /\ UNCHANGED <<log, read, eof>>
    BY <1>3 DEF RecordCompleted, RecordError, AfterSuccess
  <2>3. UNCHANGED [q \in Runs |-> Told(q)]
    BY <2>2 DEF Told
  <2>4. Contract!End(r)
    BY <2>1, <2>2, <2>3 DEF Contract!End
  <2> QED
    BY <2>4 DEF Contract!Next
<1>4. CASE CloseChannel(r)
  BY <1>4, ContractSame DEF CloseChannel, RsMuFree
<1>5. CASE Factory(r)
  BY <1>5, ContractSame DEF Factory, FactorySucceeds, FactoryFails, FactoryReturn
<1>6. CASE \E why \in {"canceled", "deadline"} : ParentDone(r, why)
  BY <1>6, ContractSame DEF ParentDone
<1>7. CASE NextEvent(r)
  <2> DEFINE n == read[r] + 1
  <2>1. /\ read'[r] = n /\ n \in DOMAIN log[r] /\ UNCHANGED <<log, status, ended, eof>>
        /\ 1..n = 1..read[r] \cup {n} /\ n \in 1..n
        /\ \A q \in Runs \ {r} : read'[q] = read[q]
    BY <1>0, <1>7 DEF NextEvent
  <2>2. \A q \in Runs \ {r} : Told(q)' = Told(q)
    BY <2>1, ToldSame
  <2>3. CASE log[r][n] \notin Terminals
    <3>1. Terminals \cap {log[r][i] : i \in 1..n} =
             Terminals \cap {log[r][i] : i \in 1..read[r]}
      BY <2>1, <2>3
    <3>2. Told(r)' = Told(r)
      BY <2>1, <3>1 DEF Told
    <3>3. UNCHANGED [q \in Runs |-> Told(q)]
      BY <2>2, <3>2
    <3> QED
      BY <2>1, <3>3 DEF Contract!vars
  <2>4. CASE log[r][n] \in Terminals
    <3>1. \A i \in 1..read[r] : log[r][i] \notin Terminals
      <4>1. \A i \in 1..read[r] : i \in DOMAIN log[r] /\ i < n
        BY <1>0
      <4>2. log[r][n] # "interrupt"
        BY <2>4 DEF Terminals
      <4> QED
        BY <2>1, <4>1, <4>2 DEF IInv, ExecutorOrder
    <3>2. Told(r) = "none"
      BY <3>1, ToldValue
    <3>3. ended[r] /\ log[r][n] = IF status[r] = "completed" THEN "completed" ELSE "error"
      BY <2>1, <2>4 DEF IInv, Sent, Phases, Terminals
    <3>4. Told(r)' = log[r][n]
      <4>1. Terminals \cap {log[r][i] : i \in 1..n} = {log[r][n]}
        BY <2>1, <2>4, <3>1
      <4> QED
        BY <2>1, <4>1 DEF Told, Verdict
    <3>5. [q \in Runs |-> Told(q)]' =
             [[q \in Runs |-> Told(q)] EXCEPT ![r] =
                 IF status[r] = "completed" THEN "completed" ELSE "error"]
      BY <2>2, <3>3, <3>4
    <3>6. Contract!Tell(r)
      BY <2>1, <3>2, <3>3, <3>5 DEF Contract!Tell
    <3> QED
      BY <3>6 DEF Contract!Next
  <2> QED
    BY <2>3, <2>4
<1>8. CASE NextEOF(r)
  <2>1. PICK i \in DOMAIN log[r] : log[r][i] \in Terminals
    BY <1>8 DEF NextEOF, IInv, Phases, Sent, BufferEmpty
  <2>2. i \in 1..read[r]
    BY <1>0, <1>8 DEF NextEOF, BufferEmpty
  <2>3. Told(r) # "none"
    BY <2>1, <2>2, ToldValue DEF Terminals
  <2>4. UNCHANGED [q \in Runs |-> Told(q)]
    BY <1>8 DEF NextEOF, Told, BufferEmpty
  <2>5. Contract!Finish(r)
    BY <1>8, <2>3, <2>4 DEF NextEOF, Contract!Finish, BufferEmpty
  <2> QED
    BY <2>5 DEF Contract!Next
<1> QED
  BY <1>1, <1>2, <1>3, <1>4, <1>5, <1>6, <1>7, <1>8 DEF RunStep, Executor, Reader

LEMMA ContractCallStep ==
    ASSUME IInv, IInv', NEW c \in Callers, CallStep(c)
    PROVE  [Contract!Next]_Contract!vars
<1> USE DEF runVars, chanVars
<1>1. CASE CancelRun(c)
  <2> DEFINE r == call[c].run
  <2>1. r \in Runs /\ UNCHANGED <<ended, log, read, eof>>
    BY <1>1, CallMoves DEF IInv, CancelRun, BusyCalls, CancelCtx
  <2>2. CASE status[r] = "running"
    <3>1. UNCHANGED [q \in Runs |-> Told(q)]
      BY <2>1 DEF Told
    <3>2. Contract!Cancel(r)
      BY <1>1, <2>1, <2>2, <3>1 DEF CancelRun, Contract!Cancel, CancelCtx
    <3> QED
      BY <2>1, <3>2 DEF Contract!Next
  <2>3. CASE status[r] # "running"
    BY <1>1, <2>1, <2>3, ContractSame DEF CancelRun, CancelCtx
  <2> QED
    BY <2>2, <2>3
<1>2. CASE InterruptSend(c)
  <2> DEFINE r == call[c].run
  <2>1. r \in Runs /\ UNCHANGED <<status, ended>>
    BY <1>2, CallMoves DEF IInv, InterruptSend, BusyCalls, RsUnlock
  <2>2. CASE HasRoom(r)
    BY <1>2, <2>1, <2>2, ContractSend DEF InterruptSend, Events, RsUnlock
  <2>3. CASE ~HasRoom(r)
    BY <1>2, <2>3, ContractSame DEF InterruptSend, RsUnlock
  <2> QED
    BY <2>2, <2>3
<1>3. CASE ~CancelRun(c) /\ ~InterruptSend(c)
  <2>1. UNCHANGED <<runVars, chanVars>>
    BY <1>3 DEF CallStep, Caller, InterruptLookup, InterruptLock, InterruptCheck,
                StatusOf, BeginInterrupt, BeginCancel, BeginStatus, Begin, RsMuFree, Interruptible, RsUnlock
  <2> QED
    BY <2>1, ContractSame
<1> QED
  BY <1>1, <1>2, <1>3

(* Status and the stream of every run tell one story: LiteRunner           *)
(* implements RunContract.                                                 *)
THEOREM ImplementsContract == Spec => KeepsContract
<1>1. IInv /\ IInv' /\ [Next]_vars => [Contract!Next]_Contract!vars
  <2>1. ASSUME UNCHANGED vars PROVE UNCHANGED Contract!vars
    BY <2>1, ContractSame DEF vars, runVars, chanVars
  <2> QED
    BY <2>1, ContractRunStep, ContractCallStep DEF Next, RunStep, CallStep
<1> QED
  BY Invariance, ContractInit, <1>1, PTL DEF Spec, KeepsContract, Contract!Spec
=============================================================================
