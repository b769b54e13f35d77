---------------------------- MODULE RunContract ----------------------------
(***************************************************************************)
(* What a HarnessRunner promises of a run to those who watch it: the       *)
(* caller of Status, who sees the outcome, and the reader of its stream,   *)
(* who is told how the run ended and then that the stream is over.  Both   *)
(* learn the same story, once.  LiteRunner implements this.                *)
(***************************************************************************)
CONSTANT Runs

VARIABLES
    outcome,    \* outcome[r]: what Status reports of r
    ended,      \* ended[r]: the outcome is final
    told,       \* told[r]: the terminal event the reader has been given
    over        \* over[r]: the reader has been given io.EOF

vars == <<outcome, ended, told, over>>

Init ==
    /\ outcome = [r \in Runs |-> "absent"]
    /\ ended = [r \in Runs |-> FALSE]
    /\ told = [r \in Runs |-> "none"]
    /\ over = [r \in Runs |-> FALSE]

Start(r) ==
    /\ outcome[r] = "absent"
    /\ outcome' = [outcome EXCEPT ![r] = "running"]
    /\ UNCHANGED <<ended, told, over>>

Cancel(r) ==
    /\ outcome[r] = "running"
    /\ outcome' = [outcome EXCEPT ![r] = "cancelled"]
    /\ UNCHANGED <<ended, told, over>>

(* A run that was cancelled may still end as completed or failed.          *)
End(r) ==
    /\ outcome[r] \in {"running", "cancelled"}
    /\ ~ended[r]
    /\ ended' = [ended EXCEPT ![r] = TRUE]
    /\ \/ outcome' = [outcome EXCEPT ![r] = "completed"]
       \/ outcome' = [outcome EXCEPT ![r] = "error"]
       \/ outcome[r] = "cancelled" /\ UNCHANGED outcome
    /\ UNCHANGED <<told, over>>

Tell(r) ==
    /\ ended[r]
    /\ told[r] = "none"
    /\ told' = [told EXCEPT ![r] =
                  IF outcome[r] = "completed" THEN "completed" ELSE "error"]
    /\ UNCHANGED <<outcome, ended, over>>

Finish(r) ==
    /\ told[r] # "none"
    /\ ~over[r]
    /\ over' = [over EXCEPT ![r] = TRUE]
    /\ UNCHANGED <<outcome, ended, told>>

Next == \E r \in Runs : Start(r) \/ Cancel(r) \/ End(r) \/ Tell(r) \/ Finish(r)

Spec == Init /\ [][Next]_vars
=============================================================================
