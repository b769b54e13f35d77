--------------------------- MODULE ArtifactStore ---------------------------
(***************************************************************************)
(* lite.LiteArtifactStore (src/harness/lite/artifact.go): a file for every *)
(* key {tenant}/{run}/{name}.  Put holds the store's mutex while it        *)
(* truncates the file and copies the data into it; Get takes no lock, and  *)
(* its caller reads from the open file at its own pace.                    *)
(*                                                                         *)
(* Put number n writes Chunks chunks, all marked n.  The file is written   *)
(* in place, so a chunk lands at the writer's own offset.                  *)
(***************************************************************************)
EXTENDS LiteProcess, Sequences

CONSTANTS
    Keys,
    Chunks,     \* chunks of the data of a Put
    MaxPuts,    \* bound: calls of Put
    NoFile

ASSUME ArtifactBounds == Chunks \in Nat \ {0} /\ MaxPuts \in Nat

VARIABLES
    content,    \* content[k]: the chunks in the file of k, or NoFile
    putting,    \* clients that hold the mutex
    puts,       \* calls of Put so far
    latest,     \* latest[k]: the last Put of k to end well; 0 if a later one failed
    artOp,      \* artOp[c]: the call c is in
    misread     \* some Get that no Put of the key overlapped read anything
                \* but the latest Put, which ended well

artVars == <<content, putting, puts, latest, artOp, misread>>

NotBusy == [at |-> "idle"]
ArtifactInit ==
    /\ content = [k \in Keys |-> NoFile]
    /\ putting = {}
    /\ puts = 0
    /\ latest = [k \in Keys |-> 0]
    /\ artOp = [c \in Clients |-> NotBusy]
    /\ misread = FALSE

-----------------------------------------------------------------------------
Put(c) ==
    /\ puts < MaxPuts
    /\ puts' = puts + 1
    /\ \E k \in Keys :
         artOp' = [artOp EXCEPT ![c] = [at |-> "lock", key |-> k, put |-> puts', offset |-> 0]]
    /\ UNCHANGED <<content, putting, latest, misread>>

NoMutex == TRUE     \* variant for QuietGetsReadTheLatest
MutexFree == putting = {}

(* Lock, MkdirAll and os.Create.  A Get that is under way is not quiet any *)
(* more.                                                                   *)
PutCreates(c) ==
    LET op == artOp[c] IN
    /\ op.at = "lock"
    /\ MutexFree
    /\ putting' = putting \cup {c}
    /\ content' = [content EXCEPT ![op.key] = <<>>]
    /\ latest' = [latest EXCEPT ![op.key] = 0]
    /\ artOp' = [d \in Clients |->
          IF d = c THEN [op EXCEPT !.at = "copy"]
          ELSE IF artOp[d].at = "get" /\ artOp[d].key = op.key
            THEN [artOp[d] EXCEPT !.quiet = FALSE]
          ELSE artOp[d]]
    /\ UNCHANGED <<puts, misread>>

(* A write at an offset beyond the end leaves a hole before it.            *)
Written(f, offset, put) ==
    [i \in 1..(IF Len(f) > offset THEN Len(f) ELSE offset + 1) |->
        IF i = offset + 1 THEN put ELSE IF i <= Len(f) THEN f[i] ELSE 0]

PutCopies(c) ==
    LET op == artOp[c] IN
    /\ op.at = "copy"
    /\ op.offset < Chunks
    /\ content' = [content EXCEPT ![op.key] = Written(@, op.offset, op.put)]
    /\ artOp' = [artOp EXCEPT ![c].offset = @ + 1]
    /\ UNCHANGED <<putting, puts, latest, misread>>

PutReturns(c) ==
    LET op == artOp[c] IN
    /\ op.at = "copy"
    /\ op.offset = Chunks
    /\ latest' = [latest EXCEPT ![op.key] = op.put]
    /\ putting' = putting \ {c}
    /\ artOp' = [artOp EXCEPT ![c] = NotBusy]
    /\ UNCHANGED <<content, puts, misread>>

(* MkdirAll or os.Create fails under the lock.                             *)
PutCreatesNone(c) ==
    /\ artOp[c].at = "lock"
    /\ MutexFree
    /\ artOp' = [artOp EXCEPT ![c] = NotBusy]
    /\ UNCHANGED <<content, putting, puts, latest, misread>>

(* io.Copy fails: a source that breaks off, a full disk.                   *)
PutFails(c) ==
    /\ artOp[c].at = "copy"
    /\ putting' = putting \ {c}
    /\ artOp' = [artOp EXCEPT ![c] = NotBusy]
    /\ UNCHANGED <<content, puts, latest, misread>>

Get(c) ==
    /\ \E k \in Keys :
         /\ content[k] # NoFile
         /\ artOp' = [artOp EXCEPT ![c] =
                [at |-> "get", key |-> k, got |-> <<>>,
                 quiet |-> \A d \in putting : artOp[d].key # k]]
    /\ UNCHANGED <<content, putting, puts, latest, misread>>

(* The caller reads the next chunk, or finds the end of the file.          *)
GetReads(c) ==
    LET op == artOp[c]
        f  == content[op.key]
    IN  /\ op.at = "get"
        /\ \/ /\ Len(op.got) < Len(f)
              /\ artOp' = [artOp EXCEPT ![c].got = Append(@, f[Len(op.got) + 1])]
              /\ UNCHANGED misread
           \/ /\ Len(op.got) >= Len(f)
              /\ artOp' = [artOp EXCEPT ![c] = NotBusy]
              /\ misread' = (misread \/
                    /\ op.quiet /\ latest[op.key] # 0
                    /\ op.got # [i \in 1..Chunks |-> latest[op.key]])
    /\ UNCHANGED <<content, putting, puts, latest>>

ArtifactCall(c) == Put(c) \/ Get(c)
ArtifactStep(c) ==
    \/ PutCreates(c) \/ PutCreatesNone(c)
    \/ PutCopies(c) \/ PutReturns(c) \/ PutFails(c)
    \/ GetReads(c)

(* The process dies: files stay as they are.                               *)
ArtifactsCrash ==
    /\ putting' = {}
    /\ artOp' = [c \in Clients |-> NotBusy]
    /\ UNCHANGED <<content, puts, latest, misread>>
=============================================================================
