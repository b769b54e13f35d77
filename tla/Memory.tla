------------------------------- MODULE Memory -------------------------------
(***************************************************************************)
(* core.Memory (src/tools/core/memory.go): entries by key, in a map that   *)
(* is read from a JSON file when the instance is made and written to it by *)
(* every memory_store, under the mutex of the instance.  Nothing reads the *)
(* file again, so an instance does not see what another one has stored.    *)
(*                                                                         *)
(* The value of an entry is the number of the call that stored it.         *)
(***************************************************************************)
EXTENDS LocalDisk

CONSTANTS
    Memories,       \* instances over one file
    Keys,           \* keys stored; a subset of 1..MaxCalls
    NotMade         \* the instance has not been made

ASSUME KeyBounds == Keys \subseteq 1..MaxCalls /\ NotMade \notin Maps

VARIABLES
    memFile,        \* the file at MemoryPath
    entries,        \* entries[m]: m.entries, or NotMade
    memDisk,        \* what a loss of power may leave in the file
    memOp,          \* memOp[c]: the call c is in
    stored,         \* what was acknowledged last, for every key (history)
    lost,           \* keys whose entry may be gone for good (history)
    cut,            \* the last save was cut short (history)
    storing         \* instances that stored since the process started (history)

memVars == <<memFile, entries, memDisk, memOp, stored, lost, cut, storing>>

NoStore == [at |-> "none"]
MemoryInit ==
    /\ memFile = NoFile
    /\ entries = [m \in Memories |-> NotMade]
    /\ memDisk = {NoFile}
    /\ memOp = [c \in Clients |-> NoStore]
    /\ stored = <<>> /\ lost = {} /\ cut = FALSE
    /\ storing = {}

-----------------------------------------------------------------------------
InStore(c) == memOp[c] # NoStore

NewMemory(m) ==
    /\ entries[m] = NotMade
    /\ entries' = [entries EXCEPT ![m] = Parsed(memFile)]
    /\ UNCHANGED <<memFile, memDisk, memOp, stored, lost, cut, storing, diskVars>>

MemMutexFree(m) == \A c \in Clients : InStore(c) => memOp[c].memory # m

NewEntryOnly(m, k) == With(<<>>, k, calls)        \* variant for MemoryKept
AllEntries(m, k) == With(entries[m], k, calls)

(* execStore: the entry, and the JSON of all of them.  A save that fails   *)
(* does not take the entry back.                                           *)
Store(c) ==
    /\ NewCall
    /\ \E m \in Memories, k \in Keys :
         /\ entries[m] # NotMade
         /\ MemMutexFree(m)
         /\ entries' = [entries EXCEPT ![m] = With(@, k, calls')]
         /\ memOp' = [memOp EXCEPT ![c] = [at |-> "open", memory |-> m, key |-> k,
                                          value |-> calls', data |-> AllEntries(m, k)']]
         /\ storing' = storing \cup {m}
    /\ UNCHANGED <<memFile, memDisk, stored, lost, cut, faults>>

MemOpen(c) ==
    /\ memOp[c].at = "open"
    /\ \/ /\ memFile' = Empty
          /\ memOp' = [memOp EXCEPT ![c].at = "write"]
          /\ UNCHANGED faults
       \/ Fault /\ memOp' = [memOp EXCEPT ![c] = NoStore] /\ UNCHANGED memFile
    /\ memDisk' = memDisk \cup {memFile'}
    /\ UNCHANGED <<entries, stored, lost, cut, storing, calls>>

MemWrite(c) ==
    LET op == memOp[c] IN
    /\ op.at = "write"
    /\ \/ /\ memFile' \in Written(memFile, op.data)
          /\ stored' = With(stored, op.key, op.value)
          /\ lost' = lost \ {op.key} /\ cut' = FALSE
          /\ UNCHANGED faults
       \/ Fault /\ memFile' = Torn /\ cut' = TRUE /\ UNCHANGED <<stored, lost>>
    /\ memDisk' = memDisk \cup {memFile', Torn}
    /\ memOp' = [memOp EXCEPT ![c] = NoStore]
    /\ UNCHANGED <<entries, storing, calls>>

MemStep(c) == MemOpen(c) \/ MemWrite(c)

(* The instances end with the process.                                     *)
Writing == \E c \in Clients : memOp[c].at = "write"
MemoryEnds ==
    /\ entries' = [m \in Memories |-> NotMade]
    /\ memOp' = [c \in Clients |-> NoStore]
    /\ storing' = {}
    /\ cut' = (cut \/ Writing)
    /\ UNCHANGED stored

(* What a file that does not parse held is gone with them; what is left    *)
(* after two of them stored is anybody's guess.                            *)
MemoryCrash ==
    /\ memFile' \in LeftOf(memFile, Writing)
    /\ memDisk' = memDisk \cup {memFile'}
    /\ lost' = IF Readable(memFile') /\ Cardinality(storing) <= 1 THEN lost ELSE DOMAIN stored
    /\ MemoryEnds

(* Nothing is synced.                                                      *)
MemoryPowerLoss ==
    /\ memFile' \in memDisk
    /\ memDisk' = {memFile'}
    /\ lost' = DOMAIN stored
    /\ MemoryEnds

-----------------------------------------------------------------------------
Covers(data) ==
    \A k \in DOMAIN stored \ lost : k \in DOMAIN data /\ stored[k] <= data[k]

(* While one instance at most stores, an entry that was acknowledged gives *)
(* way to no older one and is missing neither from that instance nor from  *)
(* a file that parses, even if saves fail in between, unless the process   *)
(* ended, after it was stored, on a file that did not parse or after       *)
(* several instances had stored, or the power was lost.  And a process can *)
(* end on such a file, with entries to lose, only in the middle of a save, *)
(* or after one that failed and before the next one that works.            *)
MemoryKept ==
    Cardinality(storing) <= 1 =>
        /\ \A m \in storing : Covers(entries[m])
        /\ Readable(memFile) => Covers(memFile)
        /\ Readable(memFile) \/ DOMAIN stored \subseteq lost \/ Writing \/ cut
=============================================================================
