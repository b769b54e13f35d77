----------------------------- MODULE LocalDisk -----------------------------
(***************************************************************************)
(* The local disk as the code uses it: os.WriteFile, which truncates a     *)
(* file and then writes it in place, and os.ReadFile with json.Unmarshal,  *)
(* which make something of a file only if it is whole.  System calls may   *)
(* fail, the process may die between any two of them, and the machine may  *)
(* lose power.  What is not synced reaches the disk when the system likes, *)
(* in any order: a loss of power may bring back anything the file has held *)
(* since the last one.                                                     *)
(*                                                                         *)
(* A file holds a function (the JSON value), or it is Empty, just after it *)
(* was truncated, or Torn: bytes that are not one JSON value.              *)
(***************************************************************************)
EXTENDS Naturals, FiniteSets

CONSTANTS
    Clients,    \* goroutines that call the tools and save the configuration
    MaxCalls,   \* bound: calls that write
    MaxFaults,  \* bound: failed system calls, crashes and power losses
    NoFile, Empty, Torn

ASSUME DiskBounds == MaxCalls \in Nat /\ MaxFaults \in Nat

(* The JSON objects that calls write: keys and values number calls.        *)
Maps == UNION {[keys -> 0..MaxCalls] : keys \in SUBSET (1..MaxCalls)}

ASSUME FileStates == NoFile \notin {Empty, Torn} /\ {NoFile, Empty, Torn} \cap Maps = {}

VARIABLES
    calls,      \* calls that write so far; numbers them
    faults

diskVars == <<calls, faults>>

DiskInit == calls = 0 /\ faults = 0

NewCall == calls < MaxCalls /\ calls' = calls + 1
Fault == faults < MaxFaults /\ faults' = faults + 1

Readable(file) == file \notin {NoFile, Empty, Torn}

(* A file that is missing or does not parse is taken for empty.            *)
Parsed(file) == IF Readable(file) THEN file ELSE <<>>

(* f[x] = y, of a map.                                                    *)
With(f, x, y) == [z \in DOMAIN f \cup {x} |-> IF z = x THEN y ELSE f[z]]

(* What a write of data from offset 0 leaves in a file: if somebody wrote  *)
(* to it since it was truncated, more may stand there than data covers.    *)
Written(file, data) ==
    IF file \in {Empty, data} THEN {data} ELSE {data, Torn}

(* What a crash leaves of a file that may have been cut off.               *)
LeftOf(file, cut) == IF cut THEN {file, Torn} ELSE {file}
=============================================================================
