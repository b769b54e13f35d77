----------------------------- MODULE ConfigStore -----------------------------
(***************************************************************************)
(* config.Save and Load (src/config/store.go): a configuration is written  *)
(* to a temporary file, synced, and renamed over the old one, by any       *)
(* number of goroutines at a time.                                         *)
(*                                                                         *)
(* A configuration is the number of the Save that wrote it.  A temporary   *)
(* file that a crash, or a Remove that fails, leaves behind is never read, *)
(* and left out.  The directory is not synced, so that after a loss of     *)
(* power the name may refer to an older file.                              *)
(***************************************************************************)
EXTENDS LocalDisk

(* A file: the Save that writes it, and how much of it is there.           *)
ConfigFiles == [cfg : 1..MaxCalls, whole : BOOLEAN, synced : BOOLEAN]

ASSUME NoConfigFile == NoFile \notin ConfigFiles

VARIABLES
    cfgFile,    \* the file at path
    cfgOnDisk,  \* the file that path refers to after a loss of power
    saveOp      \* saveOp[c]: the Save c is in, and its temporary file

cfgVars == <<cfgFile, cfgOnDisk, saveOp>>

NoSave == [at |-> "none"]
ConfigInit ==
    /\ cfgFile = NoFile
    /\ cfgOnDisk = NoFile
    /\ saveOp = [c \in Clients |-> NoSave]

-----------------------------------------------------------------------------
(* Load: the default if there is no file, an error (Torn) if it does not   *)
(* parse.                                                                  *)
Load(file) ==
    IF file = NoFile THEN 0 ELSE IF file.whole THEN file.cfg ELSE Torn

InSave(c) == saveOp[c] # NoSave
SaveEnds(c) == saveOp' = [saveOp EXCEPT ![c] = NoSave]

(* Any step may fail; Save then removes the temporary file and returns.    *)
SaveFails(c) ==
    /\ InSave(c)
    /\ Fault
    /\ SaveEnds(c)
    /\ UNCHANGED <<cfgFile, cfgOnDisk, calls>>

Save(c) ==      \* CreateTemp
    /\ NewCall
    /\ saveOp' = [saveOp EXCEPT ![c] =
         [at |-> "write", file |-> [cfg |-> calls', whole |-> FALSE, synced |-> FALSE]]]
    /\ UNCHANGED <<cfgFile, cfgOnDisk, faults>>

SaveWrite(c) ==
    /\ saveOp[c].at = "write"
    /\ saveOp' = [saveOp EXCEPT ![c].at = "sync", ![c].file.whole = TRUE]
    /\ UNCHANGED <<cfgFile, cfgOnDisk, diskVars>>

SyncSkipped(file) == file       \* variant for ConfigIsAtomic
Synced(file) == [file EXCEPT !.synced = TRUE]

SaveSync(c) ==  \* Sync, Close and Chmod
    /\ saveOp[c].at = "sync"
    /\ saveOp' = [saveOp EXCEPT ![c].at = "rename", ![c].file = Synced(@)]
    /\ UNCHANGED <<cfgFile, cfgOnDisk, diskVars>>

SaveRename(c) ==
    /\ saveOp[c].at = "rename"
    /\ cfgFile' = saveOp[c].file
    /\ SaveEnds(c)
    /\ UNCHANGED <<cfgOnDisk, diskVars>>

SaveStep(c) == SaveWrite(c) \/ SaveSync(c) \/ SaveRename(c) \/ SaveFails(c)

(* The system writes the directory back when it likes.                     *)
DirectorySettles ==
    /\ cfgOnDisk' = cfgFile
    /\ UNCHANGED <<cfgFile, saveOp>>

ConfigCrash ==
    /\ saveOp' = [c \in Clients |-> NoSave]
    /\ UNCHANGED <<cfgFile, cfgOnDisk>>

(* Of a file that was not synced any part may be missing.                  *)
AfterPowerLoss(file) ==
    IF file = NoFile \/ file.synced THEN {file} ELSE {file, [file EXCEPT !.whole = FALSE]}

ConfigPowerLoss ==
    /\ cfgFile' \in AfterPowerLoss(cfgOnDisk)
    /\ cfgOnDisk' = cfgFile'
    /\ saveOp' = [c \in Clients |-> NoSave]

-----------------------------------------------------------------------------
Register == INSTANCE DurableRegister WITH
    Values  <- 1..MaxCalls,
    Default <- 0,
    value   <- Load(cfgFile),
    settled <- Load(cfgOnDisk),
    pending <- {saveOp[c].file.cfg : c \in {d \in Clients : InSave(d)}}
=============================================================================
