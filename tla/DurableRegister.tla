--------------------------- MODULE DurableRegister ---------------------------
(***************************************************************************)
(* What config.Save promises of the configuration: whoever loads it gets   *)
(* what one Save wrote, all of it, or the default if none has.  A Save     *)
(* takes effect at once or not at all, while it is under way; the loss of  *)
(* power may bring back a configuration that was there before, never a     *)
(* part of one.                                                            *)
(***************************************************************************)
EXTENDS Naturals

CONSTANTS
    Values,
    Default

VARIABLES
    value,      \* what Load returns
    settled,    \* what it would return after a loss of power
    pending     \* what the Saves under way are writing

vars == <<value, settled, pending>>

Init == value = Default /\ settled = Default /\ pending = {}

Begin(v) ==
    /\ v \notin pending
    /\ pending' = pending \cup {v}
    /\ UNCHANGED <<value, settled>>

Commit(v) ==
    /\ v \in pending
    /\ value' = v
    /\ pending' = pending \ {v}
    /\ UNCHANGED settled

Abandon(v) ==
    /\ v \in pending
    /\ pending' = pending \ {v}
    /\ UNCHANGED <<value, settled>>

Settle == settled' = value /\ UNCHANGED <<value, pending>>

Crash == pending' = {} /\ UNCHANGED <<value, settled>>

PowerLoss == value' = settled /\ pending' = {} /\ UNCHANGED settled

Next ==
    \/ \E v \in Values : Begin(v) \/ Commit(v) \/ Abandon(v)
    \/ Settle \/ Crash \/ PowerLoss

Spec == Init /\ [][Next]_vars
=============================================================================
