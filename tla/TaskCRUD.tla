------------------------------ MODULE TaskCRUD ------------------------------
(***************************************************************************)
(* core.TaskCRUD (src/tools/core/tasks.go): tasks in a JSON file that each *)
(* task_create and task_update reads, changes and writes back, under the   *)
(* mutex of its instance.  core.Register makes an instance per registry,   *)
(* so that several may work on the file of one workspace.                  *)
(*                                                                         *)
(* A task is the number of updates it has been given.  A call is           *)
(* acknowledged with its last write: a crash takes the caller with it.     *)
(***************************************************************************)
EXTENDS LocalDisk

CONSTANT TaskTools  \* instances over one workspace

VARIABLES
    taskFile,       \* tasks.json
    taskOp,         \* taskOp[c]: the call c is in
    taskDisk,       \* what a loss of power may leave in the file
    acked,          \* tasks as acknowledged, since the file was last torn or
                    \* the power lost (history)
    overlapped      \* calls of two instances have overlapped (history)

taskVars == <<taskFile, taskDisk, taskOp, acked, overlapped>>

NoTask == [at |-> "none"]
TaskInit ==
    /\ taskFile = NoFile
    /\ taskDisk = {NoFile}
    /\ taskOp = [c \in Clients |-> NoTask]
    /\ acked = <<>>
    /\ overlapped = FALSE

-----------------------------------------------------------------------------
InTask(c) == taskOp[c] # NoTask
TaskGoto(c, op) == taskOp' = [taskOp EXCEPT ![c] = op]
TaskDone(c) == TaskGoto(c, NoTask)

TaskMutexFree(tool) == \A c \in Clients : InTask(c) => taskOp[c].tool # tool

(* Execute: task_create (new is the id it draws) or task_update (0).       *)
TaskCall(c) ==
    /\ NewCall
    /\ \E tool \in TaskTools, new \in {0, calls'} :
         /\ TaskMutexFree(tool)
         /\ TaskGoto(c, [at |-> "load", tool |-> tool, new |-> new])
         /\ overlapped' = (overlapped \/
              \E d \in Clients : InTask(d) /\ taskOp[d].tool # tool)
    /\ UNCHANGED <<taskFile, taskDisk, acked, faults>>

(* load, and the change to what it returns.  An update of a task that is   *)
(* not there returns an error.                                             *)
TaskLoad(c) ==
    LET op    == taskOp[c]
        tasks == Parsed(taskFile)
        Save(id, changed) ==
            TaskGoto(c, [at |-> "open", tool |-> op.tool, id |-> id, tasks |-> changed])
    IN  /\ op.at = "load"
        /\ \/ op.new # 0 /\ Save(op.new, With(tasks, op.new, 0))
           \/ /\ op.new = 0
              /\ \/ \E id \in DOMAIN tasks : Save(id, [tasks EXCEPT ![id] = @ + 1])
                 \/ TaskDone(c)
        /\ UNCHANGED <<taskFile, taskDisk, acked, overlapped, diskVars>>

(* save: MkdirAll and the first half of WriteFile, which truncates.        *)
TaskOpen(c) ==
    /\ taskOp[c].at = "open"
    /\ \/ taskFile' = Empty /\ TaskGoto(c, [taskOp[c] EXCEPT !.at = "write"]) /\ UNCHANGED faults
       \/ Fault /\ TaskDone(c) /\ UNCHANGED taskFile
    /\ taskDisk' = taskDisk \cup {taskFile'}
    /\ UNCHANGED <<acked, overlapped, calls>>

(* What is acknowledged once the call returns without an error.            *)
Acked(op) ==
    With(acked, op.id, IF op.id \in DOMAIN acked THEN acked[op.id] + 1 ELSE 0)

AckedAnyway(op) == Acked(op)    \* variant for TasksKept: the error is dropped
AckedFailed(op) == <<>>

(* The second half of WriteFile.  A write that fails leaves a part, which  *)
(* the next load takes for no tasks.                                       *)
TaskWrite(c) ==
    LET op == taskOp[c] IN
    /\ op.at = "write"
    /\ \/ /\ taskFile' \in Written(taskFile, op.tasks)
          /\ acked' = Acked(op)
          /\ UNCHANGED faults
       \/ Fault /\ taskFile' = Torn /\ acked' = AckedFailed(op)
    /\ taskDisk' = taskDisk \cup {taskFile', Torn}
    /\ TaskDone(c)
    /\ UNCHANGED <<overlapped, calls>>

TaskStep(c) == TaskLoad(c) \/ TaskOpen(c) \/ TaskWrite(c)

(* Calls end where they are; a file that was being written is torn.        *)
TasksEnd == taskOp' = [c \in Clients |-> NoTask] /\ UNCHANGED overlapped

TasksCrash ==
    /\ taskFile' \in LeftOf(taskFile, \E c \in Clients : taskOp[c].at = "write")
    /\ taskDisk' = taskDisk \cup {taskFile'}
    /\ acked' = IF taskFile' \in {Empty, Torn} THEN <<>> ELSE acked
    /\ TasksEnd

(* Nothing is synced.                                                      *)
TasksPowerLoss ==
    /\ taskFile' \in taskDisk
    /\ taskDisk' = {taskFile'}
    /\ acked' = Parsed(taskFile')
    /\ TasksEnd

-----------------------------------------------------------------------------
(* As long as the calls of two instances do not overlap, the file holds    *)
(* every task and every update that was acknowledged since it was last     *)
(* torn, or since a loss of power and on top of what that left, and        *)
(* nothing else, whenever nobody is writing it.                            *)
TasksKept ==
    ~overlapped /\ (\A c \in Clients : taskOp[c].at # "write") =>
        Parsed(taskFile) = acked
=============================================================================
