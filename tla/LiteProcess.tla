----------------------------- MODULE LiteProcess -----------------------------
(***************************************************************************)
(* The process the stores of the Lite edition live in: the goroutines that *)
(* call them, for one tenant or another, and what can go wrong under them. *)
(***************************************************************************)
EXTENDS Naturals, FiniteSets

CONSTANTS
    Clients,    \* goroutines that call the stores
    Tenants,
    MaxFaults   \* bound: failed system calls, and crashes

ASSUME FaultBound == MaxFaults \in Nat

VARIABLE faults

Fault == faults < MaxFaults /\ faults' = faults + 1

(* f[x] = y, of a map.                                                    *)
With(f, x, y) == [z \in DOMAIN f \cup {x} |-> IF z = x THEN y ELSE f[z]]

(* delete(f, x).                                                           *)
Without(f, x) == [y \in DOMAIN f \ {x} |-> f[y]]
=============================================================================
