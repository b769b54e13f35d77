----------------------------- MODULE LocalFiles -----------------------------
(***************************************************************************)
(* The files of one user in one process, whose goroutines make one call at *)
(* a time each; a crash or a loss of power ends the calls under way.       *)
(*                                                                         *)
(* The kinds of files have nothing in common but the process, so what goes *)
(* on with one while another is used makes no difference to either: a      *)
(* behaviour is about one kind.                                            *)
(***************************************************************************)
EXTENDS TaskCRUD, Memory, ConfigStore, Filesystem, SessionLog, Discovery

VARIABLE kind   \* the kind of files that is used

vars == <<taskVars, memVars, cfgVars, fileVars, sessionVars, discoveryVars, diskVars, kind>>

Init ==
    /\ DiskInit
    /\ TaskInit /\ MemoryInit /\ ConfigInit /\ FileInit /\ SessionInit /\ DiscoveryInit
    /\ kind \in {"tasks", "memory", "config", "text", "sessions", "instructions"}

Tasks ==
    /\ kind = "tasks"
    /\ \E c \in Clients : (~InTask(c) /\ TaskCall(c)) \/ TaskStep(c)
    /\ UNCHANGED <<memVars, cfgVars, fileVars, sessionVars, discoveryVars, kind>>

Memorizes ==
    /\ kind = "memory"
    /\ \/ \E c \in Clients : (~InStore(c) /\ Store(c)) \/ MemStep(c)
       \/ \E m \in Memories : NewMemory(m)
    /\ UNCHANGED <<taskVars, cfgVars, fileVars, sessionVars, discoveryVars, kind>>

Configures ==
    /\ kind = "config"
    /\ \/ \E c \in Clients : (~InSave(c) /\ Save(c)) \/ SaveStep(c)
       \/ DirectorySettles /\ UNCHANGED diskVars
    /\ UNCHANGED <<taskVars, memVars, fileVars, sessionVars, discoveryVars, kind>>

Texts ==
    /\ kind = "text"
    /\ \E c \in Clients : (~InFile(c) /\ (WriteFile(c) \/ EditFile(c))) \/ FileStep(c)
    /\ UNCHANGED <<taskVars, memVars, cfgVars, sessionVars, discoveryVars, kind>>

Logs ==
    /\ kind = "sessions"
    /\ \E c \in Clients : SessionStep(c)
    /\ UNCHANGED <<taskVars, memVars, cfgVars, fileVars, discoveryVars, diskVars, kind>>

Discovers ==
    /\ kind = "instructions"
    /\ Discover
    /\ UNCHANGED <<taskVars, memVars, cfgVars, fileVars, sessionVars, diskVars, kind>>

Crash ==
    /\ Fault
    /\ TasksCrash /\ MemoryCrash /\ ConfigCrash /\ FilesCrash /\ SessionsCrash
    /\ UNCHANGED <<discoveryVars, calls, kind>>

(* Nothing but the configuration is ever synced.                           *)
PowerLoss ==
    /\ Fault
    /\ TasksPowerLoss /\ MemoryPowerLoss /\ ConfigPowerLoss /\ FilesPowerLoss
    /\ kind # "sessions"
    /\ UNCHANGED <<sessionVars, discoveryVars, calls, kind>>

Next ==
    \/ Tasks \/ Memorizes \/ Configures \/ Texts \/ Logs \/ Discovers
    \/ Crash \/ PowerLoss

Spec == Init /\ [][Next]_vars

-----------------------------------------------------------------------------
(* "Atomic write-temp-then-rename to prevent corruption if the process     *)
(* crashes mid-write" (store.go): Load returns one Save's configuration,   *)
(* whole, whichever Saves overlap, fail or are cut off; a Save that failed *)
(* has changed nothing.                                                    *)
ConfigIsAtomic == Register!Spec
=============================================================================
