-------------------------------- MODULE Exec --------------------------------
(***************************************************************************)
(* core.Exec.Execute (src/tools/core/exec.go): a command run by a shell    *)
(* under a timeout, its output collected.                                  *)
(*                                                                         *)
(* os/exec and the processes are external.  Processes write to one pipe,   *)
(* that of the output, and hold it open as long as they live; a goroutine  *)
(* copies it to the buffer.  (Standard error has another one of each; the  *)
(* two stand for both.)  When the context ends, a further goroutine kills  *)
(* the shell, and only the shell.  Run waits for the shell and then for    *)
(* the end of the pipe, for as long as it takes: there is no WaitDelay.    *)
(***************************************************************************)
EXTENDS Integers

CONSTANTS
    Requested,      \* timeout_ms in the arguments; 0: none
    DefaultMs, MaxMs,   \* 30 s and 120 s
    Ms, Word,       \* nanoseconds in a millisecond, 2 ^ 64
    MaxChildren,    \* bound: processes the shell starts
    MaxOutput       \* bound: what they write

ASSUME ExecBounds ==
    /\ {DefaultMs, MaxMs, Ms, Word, MaxChildren, MaxOutput} \subseteq Nat
    /\ Requested \subseteq Int

VARIABLES
    run,        \* where Run is: "no", "wait", "drain", "over"
    shell,      \* "no", "runs", "exited" with 0, "failed", "killed" by the
                \* context, "signalled" by something else
    killed,     \* the kill has succeeded
    children,   \* processes other than the shell that hold the pipe
    started,    \* processes the shell has started
    ctx,        \* cmdCtx: "live" or "done"
    output,     \* pieces written so far
    copied,     \* of these, in the buffer
    result      \* what Execute returned: exit code and output, or NoResult

execVars == <<run, shell, killed, children, started, ctx, output, copied, result>>

NoResult == <<>>    \* not yet, or an error

ExecInit ==
    /\ run = "no" /\ shell = "no" /\ killed = FALSE
    /\ children = 0 /\ started = 0
    /\ ctx \in {"live", "done"}     \* as the caller passes it
    /\ output = 0 /\ copied = 0
    /\ result = NoResult

-----------------------------------------------------------------------------
Wrapped(n) == ((n + Word \div 2) % Word) - Word \div 2

(* A timeout_ms whose nanoseconds do not fit a Duration may become one     *)
(* that is over already.                                                   *)
Timeout(ms) ==
    LET asked == IF ms > 0 THEN Wrapped(ms * Ms) ELSE DefaultMs * Ms
    IN  IF asked > MaxMs * Ms THEN MaxMs * Ms ELSE asked

(* A command that is not allowed changes nothing.  Start does nothing on a *)
(* context that is done, and may fail on one that is not.                  *)
Execute(ms) ==
    /\ run = "no"
    /\ ctx' = IF Timeout(ms) > 0 THEN ctx ELSE "done"
    /\ \/ ctx' = "live" /\ run' = "wait" /\ shell' = "runs"
       \/ run' = "over" /\ UNCHANGED shell
    /\ UNCHANGED <<killed, children, started, output, copied, result>>

ContextEnds ==      \* the timer, or the caller
    /\ run \in {"wait", "drain"} /\ ctx = "live"
    /\ ctx' = "done"
    /\ UNCHANGED <<run, shell, killed, children, started, output, copied, result>>

ShellWorks ==
    /\ shell = "runs"
    /\ \/ /\ started < MaxChildren
          /\ started' = started + 1 /\ children' = children + 1
          /\ UNCHANGED shell
       \/ /\ shell' \in {"exited", "failed", "signalled"}
          /\ UNCHANGED <<started, children>>
    /\ UNCHANGED <<run, killed, ctx, output, copied, result>>

Writes ==
    /\ shell = "runs" \/ children > 0
    /\ output < MaxOutput
    /\ output' = output + 1
    /\ UNCHANGED <<run, shell, killed, children, started, ctx, copied, result>>

ChildEnds ==
    /\ children > 0
    /\ children' = children - 1
    /\ UNCHANGED <<run, shell, killed, started, ctx, output, copied, result>>

Copies ==
    /\ copied < output
    /\ copied' = copied + 1
    /\ UNCHANGED <<run, shell, killed, children, started, ctx, output, result>>

KillsNothing == FALSE   \* variant for ExecEnds: exec.Command

(* Until the shell has been waited for, a kill succeeds.                   *)
Kills ==
    /\ ctx = "done" /\ run = "wait" /\ ~killed
    /\ killed' = TRUE
    /\ shell' = IF shell = "runs" THEN "killed" ELSE shell
    /\ UNCHANGED <<run, children, started, ctx, output, copied, result>>

WaitedFor ==        \* Process.Wait
    /\ run = "wait" /\ shell # "runs"
    /\ run' = "drain"
    /\ UNCHANGED <<shell, killed, children, started, ctx, output, copied, result>>

DrainedOfShell == copied = output       \* variant for ResultIsWhole
Drained == copied = output /\ children = 0

ExitCode ==
    CASE shell = "exited" -> 0 [] shell = "failed" -> 1
      [] shell \in {"killed", "signalled"} -> -1

(* Exit code 0 after a kill is the context's error; the end by the kill is *)
(* an exit code like any other.                                            *)
Returns ==
    /\ run = "drain" /\ Drained
    /\ run' = "over"
    /\ result' = IF killed /\ ExitCode = 0 THEN NoResult
                 ELSE [code |-> ExitCode, output |-> copied]
    /\ UNCHANGED <<shell, killed, children, started, ctx, output, copied>>

ExecStep ==
    \/ \E ms \in Requested : Execute(ms)
    \/ ContextEnds \/ ShellWorks \/ Writes \/ ChildEnds
    \/ Copies \/ Kills \/ WaitedFor \/ Returns

(* What goes on by itself: the timer, the two goroutines and Run; not the  *)
(* command.                                                                *)
ExecGoesOn == ContextEnds \/ Copies \/ Kills \/ WaitedFor \/ Returns

-----------------------------------------------------------------------------
(* The call ends, whatever the command does, unless a process it has left  *)
(* behind keeps the output open for ever: the kill spares those.           *)
ExecEnds == <>[](children > 0) \/ (run = "wait" ~> run = "over")

(* An exit code of the command's own comes with everything that it, or a   *)
(* process it started, has written, or ever will; a command that a signal  *)
(* ended is told by the code -1.                                           *)
ResultIsWhole ==
    result # NoResult =>
        /\ result.output = output
        /\ result.code >= 0 <=> shell \in {"exited", "failed"}
=============================================================================
