----------------------------- MODULE Filesystem -----------------------------
(***************************************************************************)
(* write_file and edit_file of core.Filesystem (src/tools/core/            *)
(* filesystem.go) on one file of the workspace.  Neither takes a lock, so  *)
(* that calls overlap even within one instance; an edit reads the file,    *)
(* replaces a part of it, and writes all of it back.                       *)
(*                                                                         *)
(* A text is the set of the passages in it, each with the number of the    *)
(* call that put it there: a write puts two, an edit replaces one by its   *)
(* own.  Any subset is what a crash may find of a text that is being       *)
(* written; a read that finds a part of one is a call that overlaps, of    *)
(* which nothing is said, and reads in the model what is there.            *)
(* Paths that are refused, by ValidatePath or the guard, change nothing.   *)
(***************************************************************************)
EXTENDS LocalDisk

VARIABLES
    text,       \* the file: a text, or NoFile
    textDisk,   \* what a loss of power may leave, whole or in part
    fileOp,     \* fileOp[c]: the call c is in
    expected,   \* the text the acknowledged calls should have left (history)
    collided    \* two calls have overlapped, or a write was cut short or
                \* undone (history)

fileVars == <<text, textDisk, fileOp, expected, collided>>

NoFileOp == [at |-> "none"]
Passages == (1..MaxCalls) \X {1, 2}
Nothing == <<0, 0>>     \* replaced by a write

FileInit ==
    /\ text = NoFile
    /\ textDisk = {NoFile}
    /\ fileOp = [c \in Clients |-> NoFileOp]
    /\ expected = {}
    /\ collided = FALSE

-----------------------------------------------------------------------------
InFile(c) == fileOp[c] # NoFileOp
FileGoto(c, op) == fileOp' = [fileOp EXCEPT ![c] = op]
FileDone(c) == FileGoto(c, NoFileOp)
Overlaps == \E d \in Clients : InFile(d)

WriteFile(c) ==
    /\ NewCall
    /\ FileGoto(c, [at |-> "open", text |-> {calls'} \X {1, 2}, old |-> Nothing])
    /\ collided' = (collided \/ Overlaps)
    /\ UNCHANGED <<text, textDisk, expected, faults>>

EditFile(c) ==
    /\ NewCall
    /\ \E old \in Passages : FileGoto(c, [at |-> "read", new |-> <<calls', 1>>, old |-> old])
    /\ collided' = (collided \/ Overlaps)
    /\ UNCHANGED <<text, textDisk, expected, faults>>

(* ReadFile fails, or old_text is not found: the call returns an error.    *)
EditFails(c) ==
    /\ fileOp[c].at = "read"
    /\ text # NoFile => fileOp[c].old \notin text
    /\ FileDone(c)
    /\ UNCHANGED <<text, textDisk, expected, collided, diskVars>>

ReplacesAll(was, op) == {op.new}      \* variant for EditsKept
Replaced(was, op) == (was \ {op.old}) \cup {op.new}

EditReads(c) ==
    LET op == fileOp[c] IN
    /\ op.at = "read"
    /\ text # NoFile /\ op.old \in text
    /\ FileGoto(c, [at |-> "open", text |-> Replaced(text, op), new |-> op.new, old |-> op.old])
    /\ UNCHANGED <<text, textDisk, expected, collided, diskVars>>

FileOpen(c) ==      \* MkdirAll, and the first half of WriteFile
    /\ fileOp[c].at = "open"
    /\ \/ text' = {} /\ FileGoto(c, [fileOp[c] EXCEPT !.at = "write"]) /\ UNCHANGED faults
       \/ Fault /\ FileDone(c) /\ UNCHANGED text
    /\ textDisk' = textDisk \cup {text'}
    /\ UNCHANGED <<expected, collided, calls>>

(* From offset 0 on; of a longer text that somebody else has written since *)
(* the tail stays.                                                         *)
FileWrite(c) ==
    LET op == fileOp[c] IN
    /\ op.at = "write"
    /\ \/ /\ \E tail \in SUBSET text : text' = op.text \cup tail
          /\ expected' = IF op.old = Nothing THEN op.text ELSE (expected \ {op.old}) \cup {op.new}
          /\ UNCHANGED <<collided, faults>>
       \/ /\ Fault
          /\ text' \in SUBSET op.text
          /\ collided' = TRUE
          /\ UNCHANGED expected
    /\ textDisk' = textDisk \cup {text', op.text}
    /\ FileDone(c)
    /\ UNCHANGED calls

FileStep(c) == EditFails(c) \/ EditReads(c) \/ FileOpen(c) \/ FileWrite(c)

(* The calls end where they are; what a write was about to leave may be    *)
(* there in part.                                                          *)
FilesCrash ==
    /\ text' \in {text} \cup UNION {SUBSET fileOp[c].text : c \in {d \in Clients : fileOp[d].at = "write"}}
    /\ textDisk' = textDisk \cup {text'}
    /\ collided' = (collided \/ \E c \in Clients : fileOp[c].at = "write")
    /\ fileOp' = [c \in Clients |-> NoFileOp]
    /\ UNCHANGED expected

(* Nothing is synced.                                                      *)
FilesPowerLoss ==
    /\ text' \in (textDisk \cap {NoFile}) \cup UNION {SUBSET t : t \in textDisk \ {NoFile}}
    /\ textDisk' = {text'}
    /\ collided' = (collided \/ text' # text \/ \E c \in Clients : fileOp[c].at = "write")
    /\ fileOp' = [c \in Clients |-> NoFileOp]
    /\ UNCHANGED expected

-----------------------------------------------------------------------------
(* As long as calls on the file do not overlap, and no write is cut short  *)
(* or undone by a loss of power, the file is what the acknowledged writes  *)
(* and edits make of it, one after the other; a call that fails leaves it  *)
(* alone.                                                                  *)
EditsKept ==
    ~collided /\ (\A c \in Clients : fileOp[c].at # "write") =>
        text = IF expected = {} THEN NoFile ELSE expected
=============================================================================
