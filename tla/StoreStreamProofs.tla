-------------------------- MODULE StoreStreamProofs --------------------------
(***************************************************************************)
(* What Next of a StoreBackedEventStream returns, for sessions of any      *)
(* length and any number of faults.  The cursor moves in one place, the    *)
(* fetch, and a fetch is reached only through the check of done.  So the   *)
(* argument is about where a terminal event can have been returned without *)
(* done being set: on the way to the section that sets it, and nowhere     *)
(* else.                                                                   *)
(***************************************************************************)
EXTENDS StoreStream, TLAPS

(* Every state has its type: the part of the invariant without which       *)
(* nothing can be said about the positions of the log.                     *)
TypeOK ==
    /\ log \in Seq(EventTypes)
    /\ lastPos \in 0..Len(log)
    /\ done \in BOOLEAN /\ ctxDone \in BOOLEAN
    /\ closed \in BOOLEAN /\ late \in BOOLEAN
    /\ at \in {"idle", "check", "fetch", "wait", "finish"}
    /\ result \in {"none", "EOF", "event", "failed"}

SeenTerminal == \E i \in 1..lastPos : log[i] \in Terminals

(* Where Next may be when a terminal event was returned: it is about to    *)
(* set done, or it has set it, and polls no more.                          *)
Cursor ==
    /\ at \in {"fetch", "wait"} => ~SeenTerminal
    /\ at = "finish" => lastPos > 0 /\ log[lastPos] \in Terminals
    /\ SeenTerminal /\ at # "finish" => done

(* Why done is set, and what that means for calls that begin afterwards.   *)
Ending ==
    /\ closed => done
    /\ done => closed \/ (lastPos > 0 /\ log[lastPos] \in Terminals)
    /\ late => closed /\ at \in {"idle", "check"}

IInv == TypeOK /\ InOrderToTheEnd /\ Cursor /\ Ending

-----------------------------------------------------------------------------
LEMMA InvInit == Init => IInv
<1> SUFFICES ASSUME Init
             PROVE  IInv
  OBVIOUS
<1>1. TypeOK /\ Ending
  <2>1. <<>> \in Seq(EventTypes) /\ 0 \in 0..Len(<<>>)
    OBVIOUS
  <2> QED  BY <2>1 DEF Init, TypeOK, Ending
<1>2. lastPos = 0 /\ given = <<>> /\ at = "idle"
  BY DEF Init
<1>3. InOrderToTheEnd /\ Cursor
  BY <1>2 DEF InOrderToTheEnd, Cursor, SeenTerminal
<1> QED  BY <1>1, <1>3 DEF IInv

(* The store appends behind the cursor: what was returned stays what it    *)
(* was.                                                                    *)
LEMMA AppendKeeps ==
    ASSUME IInv, NEW e \in EventTypes, AppendEvent(e)
    PROVE  IInv'
<1>1. /\ log \in Seq(EventTypes) /\ lastPos \in 0..Len(log)
      /\ log' = Append(log, e)
      /\ UNCHANGED <<lastPos, done, ctxDone, closed, at, late, given, result>>
  BY DEF IInv, TypeOK, AppendEvent
<1>2. /\ log' \in Seq(EventTypes) /\ Len(log') = Len(log) + 1 /\ Len(log) \in Nat
      /\ \A i \in 1..lastPos : log'[i] = log[i]
  BY <1>1
<1>3. TypeOK'
  BY <1>1, <1>2 DEF IInv, TypeOK
<1>4. SeenTerminal' = SeenTerminal
  BY <1>1, <1>2 DEF SeenTerminal
<1>5. lastPos > 0 => log'[lastPos] = log[lastPos]
  BY <1>1, <1>2
<1> QED  BY <1>1, <1>2, <1>3, <1>4, <1>5 DEF IInv, InOrderToTheEnd, Cursor, Ending

(* The fetch returns the event at the cursor and moves on by one.          *)
LEMMA FetchKeeps ==
    ASSUME IInv, FetchEvent
    PROVE  IInv'
<1>1. /\ log \in Seq(EventTypes) /\ lastPos \in Nat /\ lastPos < Len(log) /\ Len(log) \in Nat
      /\ at = "fetch" /\ ~SeenTerminal /\ given = [i \in 1..lastPos |-> i - 1]
  BY DEF IInv, TypeOK, Cursor, InOrderToTheEnd, FetchEvent
<1>2. /\ lastPos' = lastPos + 1 /\ given' = Append(given, lastPos)
      /\ UNCHANGED <<log, done, ctxDone, closed, late>>
  BY DEF FetchEvent, PastTheEvent, storeVars
<1>3. IF log[lastPos'] \in Terminals
      THEN at' = "finish" /\ result' = result
      ELSE at' = "idle" /\ result' = "event"
  BY <1>2 DEF FetchEvent, Ends, Return
<1>4. TypeOK'
  BY <1>1, <1>2, <1>3 DEF IInv, TypeOK
<1>5. given' = [i \in 1..lastPos' |-> i - 1]
  <2>1. given \in Seq(Nat) /\ Len(given) = lastPos
    BY <1>1
  <2>2. given' \in Seq(Nat) /\ Len(given') = lastPos + 1 /\ DOMAIN given' = 1..(lastPos + 1)
    BY <2>1, <1>1, <1>2
  <2>3. \A i \in 1..(lastPos + 1) : given'[i] = i - 1
    BY <2>1, <1>1, <1>2
  <2>4. given' \in [1..(lastPos + 1) -> Nat]
    BY <2>2
  <2> QED  BY <2>3, <2>4, <1>2
<1>6. \A i \in 1..lastPos : log[i] \notin Terminals
  BY <1>1 DEF SeenTerminal
<1>7. InOrderToTheEnd'
  BY <1>1, <1>2, <1>5, <1>6 DEF InOrderToTheEnd
<1>8. Cursor'
  BY <1>1, <1>2, <1>3, <1>6 DEF Cursor, SeenTerminal
<1>9. Ending'
  BY <1>1, <1>2, <1>3, <1>6 DEF IInv, Ending
<1> QED  BY <1>4, <1>7, <1>8, <1>9 DEF IInv

(* The rest of Next, Close and the parent leave the cursor alone.          *)
LEMMA OtherKeeps ==
    ASSUME IInv,
           \/ BeginNext \/ CheckDone \/ FetchNothing \/ FetchFails \/ FinishTerminal
           \/ WaitCancelled \/ WaitElapsed \/ Close \/ ParentCancelled
    PROVE  IInv'
<1>1. UNCHANGED <<log, lastPos, given>>
  BY DEF BeginNext, CheckDone, FetchNothing, FetchFails, FinishTerminal,
         WaitCancelled, WaitElapsed, Close, ParentCancelled, storeVars
<1>2. TypeOK'
  BY <1>1 DEF IInv, TypeOK, BeginNext, CheckDone, FetchNothing, FetchFails, FinishTerminal,
         WaitCancelled, WaitElapsed, Close, ParentCancelled, Return, GivesUp, SetsDone
<1>3. InOrderToTheEnd' /\ SeenTerminal' = SeenTerminal
  BY <1>1 DEF IInv, InOrderToTheEnd, SeenTerminal
<1>4. Cursor'
  BY <1>1, <1>3 DEF IInv, TypeOK, Cursor, SeenTerminal, BeginNext, CheckDone, FetchNothing,
         FetchFails, FinishTerminal, WaitCancelled, WaitElapsed, Close, ParentCancelled,
         Return, GivesUp, SetsDone
<1>5. Ending'
  BY <1>1 DEF IInv, TypeOK, Cursor, Ending, BeginNext, CheckDone, FetchNothing, FetchFails,
         FinishTerminal, WaitCancelled, WaitElapsed, Close, ParentCancelled,
         Return, GivesUp, SetsDone
<1> QED  BY <1>2, <1>3, <1>4, <1>5 DEF IInv

LEMMA InvNext == IInv /\ [Next]_vars => IInv'
<1> SUFFICES ASSUME IInv, [Next]_vars
             PROVE  IInv'
  OBVIOUS
<1>1. CASE Next
  BY <1>1, AppendKeeps, FetchKeeps, OtherKeeps DEF Next, Step
<1>2. CASE UNCHANGED vars
  BY <1>2 DEF vars, storeVars, IInv, TypeOK, InOrderToTheEnd, Cursor, SeenTerminal, Ending
<1> QED  BY <1>1, <1>2

(* The strengthened invariant holds of every reachable state.              *)
THEOREM Invariance == Spec => []IInv
  BY InvInit, InvNext, PTL DEF Spec

(* Next returns the session's events from the first one on, each once, up  *)
(* to the first terminal event (stream_store.go, Next).                    *)
THEOREM EventsInOrder == Spec => []InOrderToTheEnd
<1>1. IInv => InOrderToTheEnd
  BY DEF IInv
<1> QED  BY <1>1, Invariance, PTL

(* A Next returns io.EOF for a reason, and one that begins after Close     *)
(* returns nothing else.                                                   *)
THEOREM EOFForAReason == Spec => EOFMeansOver
<1> DEFINE Reason == at # "idle" /\ at' = "idle" =>
             /\ late => result' = "EOF"
             /\ result' = "EOF" => closed \/ (lastPos > 0 /\ log[lastPos] \in Terminals)
<1>1. IInv /\ [Next]_vars => [Reason]_vars
  <2> SUFFICES ASSUME IInv, Next, at # "idle", at' = "idle"
               PROVE  /\ late => result' = "EOF"
                      /\ result' = "EOF" =>
                            closed \/ (lastPos > 0 /\ log[lastPos] \in Terminals)
    OBVIOUS
  <2>1. CASE CheckDone
    BY <2>1 DEF IInv, Ending, CheckDone, Return
  <2>2. CASE FetchEvent \/ FetchFails \/ FinishTerminal \/ WaitCancelled
    BY <2>2 DEF IInv, Ending, FetchEvent, FetchFails, FinishTerminal, WaitCancelled,
                Return, GivesUp
  <2>3. CASE \/ \E e \in EventTypes : AppendEvent(e)
             \/ BeginNext \/ FetchNothing \/ WaitElapsed \/ Close \/ ParentCancelled
    BY <2>3 DEF AppendEvent, BeginNext, FetchNothing, WaitElapsed, Close, ParentCancelled
  <2> QED  BY <2>1, <2>2, <2>3 DEF Next, Step
<1> QED  BY <1>1, Invariance, PTL DEF Spec, EOFMeansOver
=============================================================================
