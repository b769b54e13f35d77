----------------------------- MODULE SessionLog -----------------------------
(***************************************************************************)
(* sessions.Store (src/sessions/store.go): one JSONL file per session, a   *)
(* meta line followed by a line per message.                               *)
(*                                                                         *)
(* The store has no lock: appenders (goroutines or processes) open the     *)
(* file with O_APPEND and write one line each, while others delete or load *)
(* the session.  A write may stop half way (a full disk, a crash of the    *)
(* process) and leave a prefix of its line, so that the next line goes on  *)
(* where it ended.  A file is the sequence of these pieces: whose bytes    *)
(* they are, whether the JSON is whole, whether the newline followed, how  *)
(* long they are.  What LoadSession makes of a file is an operator on it.  *)
(* Written data is not lost: the machine itself does not crash.            *)
(***************************************************************************)
EXTENDS LocalDisk, Sequences, FiniteSetsExt

CONSTANTS
    Sessions,   \* ids of the sessions ever created (they are UUIDs)
    Sizes,      \* sizes of a message's line
    LineLimit,  \* longest line the scanner accepts (64 KiB in the code)
    MaxMessages,\* bound: calls of AppendMessage
    MaxTears    \* bound: writes that stop half way

ASSUME SessionBounds ==
    /\ MaxMessages \in Nat /\ MaxTears \in Nat
    /\ Sizes \subseteq Nat \ {0} /\ 1 \in Sizes /\ LineLimit \in Nat

VARIABLES
    jsonl,      \* jsonl[s]: the pieces in the file of s, or NoFile
    born,       \* born[s]: CreateSession has returned s
    gone,       \* gone[s]: DeleteSession(s) has succeeded
    open,       \* open[a]: the session whose file appender a has open, or NoFile
    sent,       \* AppendMessage calls so far; the last one's message
    logged,     \* logged[s]: messages whose AppendMessage returned nil
    tears       \* tears[s]: writes to the file of s that stopped half way

sessionVars == <<jsonl, born, gone, open, sent, logged, tears>>

Meta == 0       \* messages are numbered from 1
Line(msg, size) == [msg |-> msg, whole |-> TRUE, eol |-> TRUE, size |-> size]

(* The proper prefixes of a line that leave bytes in the file.             *)
Prefixes(line) ==
    {[line EXCEPT !.eol = FALSE]}
    \cup {[line EXCEPT !.eol = FALSE, !.whole = FALSE, !.size = n] : n \in 1..line.size}

SessionInit ==
    /\ jsonl = [s \in Sessions |-> NoFile]
    /\ born = [s \in Sessions |-> FALSE]
    /\ gone = [s \in Sessions |-> FALSE]
    /\ open = [a \in Clients |-> NoFile]
    /\ sent = 0
    /\ logged = [s \in Sessions |-> {}]
    /\ tears = [s \in Sessions |-> 0]

-----------------------------------------------------------------------------
(* LoadSession.  A line is what stands between two newlines.               *)

LineOf(f, i) ==
    {j \in DOMAIN f : \A k \in DOMAIN f :
        (i <= k /\ k < j) \/ (j <= k /\ k < i) => ~f[k].eol}
TooLong(f, i) == MapThenSumSet(LAMBDA j : f[j].size, LineOf(f, i)) > LineLimit

(* The scanner stops for good at the first line that is too long.          *)
Scanned(f, i) == \A j \in DOMAIN f : j <= i => ~TooLong(f, j)

(* A line that is not one whole JSON value is skipped.                     *)
Parses(f, i) == f[i].whole /\ LineOf(f, i) = {i}

LoadedOf(f) == {f[i].msg : i \in {k \in DOMAIN f : Scanned(f, k) /\ Parses(f, k)}}
LoadFailsOf(f) == \E i \in DOMAIN f : TooLong(f, i)

Loaded(s) == IF jsonl[s] = NoFile THEN {} ELSE LoadedOf(jsonl[s])

LoadFails(s) == jsonl[s] = NoFile \/ LoadFailsOf(jsonl[s])

(* ListSessions leaves out the sessions whose LoadSession fails.           *)
Listed == {s \in Sessions : jsonl[s] # NoFile /\ ~LoadFails(s)}

-----------------------------------------------------------------------------
(* CreateSession returns the session whatever became of its file.          *)
CreateSession(s) ==
    /\ ~born[s]
    /\ born' = [born EXCEPT ![s] = TRUE]
    /\ \/ /\ jsonl' = [jsonl EXCEPT ![s] = <<Line(Meta, 1)>>]
          /\ UNCHANGED tears
       \/ /\ tears[s] < MaxTears
          /\ tears' = [tears EXCEPT ![s] = @ + 1]
          /\ \/ UNCHANGED jsonl
             \/ jsonl' = [jsonl EXCEPT ![s] = <<>>]
             \/ \E p \in Prefixes(Line(Meta, 1)) : jsonl' = [jsonl EXCEPT ![s] = <<p>>]
    /\ UNCHANGED <<gone, open, sent, logged>>

OpenFile(a, s, f) ==
    /\ open[a] = NoFile
    /\ open' = [open EXCEPT ![a] = s]
    /\ jsonl' = [jsonl EXCEPT ![s] = f]
    /\ UNCHANGED <<born, gone, sent, logged, tears>>

OpenCreates(a, s) ==    \* variant for DeletedStaysDeleted: O_CREATE
    born[s] /\ OpenFile(a, s, IF jsonl[s] = NoFile THEN <<>> ELSE jsonl[s])
OpenTruncates(a, s) ==  \* variant for LoadedStays: O_TRUNC
    jsonl[s] # NoFile /\ OpenFile(a, s, <<>>)

(* AppendMessage opens the file, which must exist, ...                     *)
AppendOpens(a, s) == jsonl[s] # NoFile /\ OpenFile(a, s, jsonl[s])

(* ... and writes the line at its end.  If the file was removed meanwhile  *)
(* the bytes go to the inode that no name refers to any more.              *)
AppendPiece(a, s, p) ==
    /\ jsonl' = [jsonl EXCEPT ![s] = IF @ = NoFile THEN NoFile ELSE Append(@, p)]
    /\ open' = [open EXCEPT ![a] = NoFile]
    /\ UNCHANGED <<born, gone>>

NextMessage == sent < MaxMessages /\ sent' = sent + 1

LineWithoutNewline(msg, n) ==   \* variant for OneMessagePerTear
    [Line(msg, n) EXCEPT !.eol = FALSE]
MessageLine(msg, n) == Line(msg, n)

AppendWrites(a, n) ==
    /\ open[a] # NoFile
    /\ NextMessage
    /\ AppendPiece(a, open[a], MessageLine(sent', n))
    /\ logged' = [logged EXCEPT ![open[a]] = @ \cup {sent'}]
    /\ UNCHANGED tears

(* The write fails half way, or the appender crashes in it.                *)
AppendTears(a, n) ==
    /\ open[a] # NoFile
    /\ tears[open[a]] < MaxTears
    /\ NextMessage
    /\ \E p \in Prefixes(Line(sent', n)) : AppendPiece(a, open[a], p)
    /\ tears' = [tears EXCEPT ![open[a]] = @ + 1]
    /\ UNCHANGED logged

DeleteSession(s) ==     \* os.Remove
    /\ jsonl[s] # NoFile
    /\ jsonl' = [jsonl EXCEPT ![s] = NoFile]
    /\ gone' = [gone EXCEPT ![s] = TRUE]
    /\ UNCHANGED <<born, open, sent, logged, tears>>

SessionStep(a) ==
    \/ \E s \in Sessions : CreateSession(s) \/ DeleteSession(s) \/ AppendOpens(a, s)
    \/ \E n \in Sizes : AppendWrites(a, n) \/ AppendTears(a, n)

(* The process dies between two system calls: the files stay.              *)
SessionsCrash ==
    /\ open' = [a \in Clients |-> NoFile]
    /\ UNCHANGED <<jsonl, born, gone, sent, logged, tears>>

-----------------------------------------------------------------------------
(* As long as no line grows too long, each write that stops half way costs *)
(* one acknowledged message at most, the one that continues its line; it   *)
(* never hides the session nor what stands on the other lines.             *)
OneMessagePerTear ==
    \A s \in Sessions :
        jsonl[s] # NoFile /\ (\A i \in DOMAIN jsonl[s] : ~TooLong(jsonl[s], i)) =>
            /\ s \in Listed
            /\ Cardinality(logged[s] \ Loaded(s)) <= tears[s]

(* A message that was acknowledged and once loaded is loaded ever after,   *)
(* whatever is appended, until the session is deleted.                     *)
LoadedStays ==
    [][\A s \in Sessions : jsonl'[s] # NoFile =>
          Loaded(s) \cap logged[s] \subseteq Loaded(s)']_sessionVars

(* No append that overlaps a delete brings the session back.               *)
DeletedStaysDeleted == \A s \in Sessions : gone[s] => s \notin Listed
=============================================================================
