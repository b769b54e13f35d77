-------------------------- MODULE LocalFilesProofs --------------------------
(***************************************************************************)
(* The files of one user, for any number of goroutines, calls, failed      *)
(* system calls, crashes and losses of power.  The kinds of files have     *)
(* nothing but the count of the calls in common, so each has an inductive  *)
(* invariant of its own, which the steps of the others leave alone.        *)
(***************************************************************************)
EXTENDS LocalFiles, Sums, FiniteSetTheorems, SequenceTheorems, TLAPS

CallsInv == calls \in 0..MaxCalls

LEMMA NewCallFacts ==
    ASSUME CallsInv, NewCall
    PROVE  calls' = calls + 1 /\ calls' \in 1..MaxCalls /\ calls < calls' /\ CallsInv'
  BY DiskBounds DEF CallsInv, NewCall

(* Whatever is done, calls are counted upwards.                            *)
LEMMA CallsCounted ==
    ASSUME CallsInv, [Next]_vars
    PROVE  CallsInv' /\ calls <= calls'
<1>1. CASE UNCHANGED calls
  BY <1>1, DiskBounds DEF CallsInv
<1>2. CASE NewCall
  BY <1>2, NewCallFacts DEF CallsInv
<1>3. NewCall \/ UNCHANGED calls
  <2>1. CASE Tasks
    BY <2>1 DEF Tasks, TaskCall, TaskStep, TaskLoad, TaskOpen, TaskWrite, diskVars
  <2>2. CASE Memorizes
    BY <2>2 DEF Memorizes, Store, NewMemory, MemStep, MemOpen, MemWrite, diskVars
  <2>3. CASE Configures
    BY <2>3 DEF Configures, Save, SaveStep, SaveWrite, SaveSync, SaveRename, SaveFails,
                DirectorySettles, diskVars
  <2>4. CASE Texts
    BY <2>4 DEF Texts, WriteFile, EditFile, FileStep, EditFails, EditReads, FileOpen,
                FileWrite, diskVars
  <2>5. CASE Logs \/ Discovers \/ Crash \/ PowerLoss
    BY <2>5 DEF Logs, Discovers, Crash, PowerLoss, diskVars
  <2>6. CASE UNCHANGED vars
    BY <2>6 DEF vars, diskVars
  <2> QED  BY <2>1, <2>2, <2>3, <2>4, <2>5, <2>6 DEF Next
<1> QED  BY <1>1, <1>2, <1>3

-----------------------------------------------------------------------------
(* The session log: what its inductive invariant is, that each step        *)
(* preserves it, and that it gives the three properties.                   *)

Pieces == [msg : Nat, whole : BOOLEAN, eol : BOOLEAN, size : Nat]

(* The pieces whose newline is missing: the next one continues their line. *)
TornIn(f) == {i \in DOMAIN f : ~f[i].eol}

WholeLine(f, m) == \E i \in DOMAIN f : f[i].msg = m /\ f[i].whole /\ f[i].eol

(* A file that no message is numbered above n in: it has a whole line of   *)
(* its own for each acknowledged message, nothing torn of these, and no    *)
(* more torn pieces than writes that stopped.                              *)
Holds(f, n, good, torn) ==
    /\ f \in Seq(Pieces)
    /\ \A i \in DOMAIN f : f[i].msg <= n
    /\ \A m \in good : WholeLine(f, m)
    /\ \A i \in DOMAIN f : f[i].msg \in good => f[i].eol
    /\ Cardinality(TornIn(f)) <= torn

SessionTypes ==
    /\ jsonl = [s \in Sessions |-> jsonl[s]]
    /\ born \in [Sessions -> BOOLEAN] /\ gone \in [Sessions -> BOOLEAN]
    /\ open \in [Clients -> Sessions \cup {NoFile}]
    /\ sent \in Nat
    /\ logged \in [Sessions -> SUBSET (1..sent)]
    /\ tears \in [Sessions -> Nat]

SessionInv ==
    /\ SessionTypes
    /\ \A s \in Sessions :
          /\ jsonl[s] # NoFile => born[s] /\ Holds(jsonl[s], sent, logged[s], tears[s])
          /\ gone[s] => born[s] /\ jsonl[s] = NoFile
          /\ logged[s] # {} => born[s]
    /\ \A a \in Clients : open[a] # NoFile => born[open[a]]

-----------------------------------------------------------------------------
LEMMA PrefixFacts ==
    ASSUME NEW line \in Pieces, NEW p \in Prefixes(line)
    PROVE  p \in Pieces /\ p.msg = line.msg /\ ~p.eol
<1>1. CASE p = [line EXCEPT !.eol = FALSE]
  BY <1>1 DEF Pieces
<1>2. CASE \E k \in 1..line.size : p = [line EXCEPT !.eol = FALSE, !.whole = FALSE, !.size = k]
  <2>1. PICK k \in 1..line.size : p = [line EXCEPT !.eol = FALSE, !.whole = FALSE, !.size = k]
    BY <1>2
  <2>2. line.size \in Nat
    BY DEF Pieces
  <2>3. k \in Nat
    BY <2>2
  <2>4. line = [msg |-> line.msg, whole |-> line.whole, eol |-> line.eol, size |-> line.size]
    BY DEF Pieces
  <2>5. p = [msg |-> line.msg, whole |-> FALSE, eol |-> FALSE, size |-> k]
    BY <2>1, <2>4
  <2> QED  BY <2>3, <2>5 DEF Pieces
<1> QED  BY <1>1, <1>2 DEF Prefixes

LEMMA LinesArePieces ==
    ASSUME NEW m \in Nat, NEW n \in Sizes \cup {1}
    PROVE  /\ Line(m, n) \in Pieces
           /\ \A p \in Prefixes(Line(m, n)) : p \in Pieces /\ p.msg = m /\ ~p.eol
<1>1. n \in Nat
  BY SessionBounds
<1>2. Line(m, n) = [msg |-> m, whole |-> TRUE, eol |-> TRUE, size |-> n]
  BY DEF Line
<1>3. Line(m, n) \in Pieces
  BY <1>1, <1>2 DEF Pieces
<1>4. \A p \in Prefixes(Line(m, n)) : p \in Pieces /\ p.msg = m /\ ~p.eol
  BY <1>2, <1>3, PrefixFacts
<1> QED  BY <1>3, <1>4

LEMMA AppendFacts ==
    ASSUME NEW f \in Seq(Pieces), NEW p \in Pieces
    PROVE  /\ Append(f, p) \in Seq(Pieces)
           /\ DOMAIN f = 1..Len(f) /\ Len(f) \in Nat
           /\ DOMAIN Append(f, p) = DOMAIN f \cup {Len(f) + 1} /\ Len(f) + 1 \notin DOMAIN f
           /\ Append(f, p)[Len(f) + 1] = p
           /\ \A i \in DOMAIN f : Append(f, p)[i] = f[i]
  OBVIOUS

LEMMA TornIsFinite ==
    ASSUME NEW f \in Seq(Pieces)
    PROVE  IsFiniteSet(TornIn(f)) /\ Cardinality(TornIn(f)) \in Nat
<1>1. DOMAIN f = 1..Len(f) /\ Len(f) \in Nat
  OBVIOUS
<1>2. IsFiniteSet(1..Len(f))
  BY <1>1, FS_Interval
<1>3. TornIn(f) \in SUBSET (1..Len(f))
  BY <1>1 DEF TornIn
<1> QED  BY <1>2, <1>3, FS_Subset, FS_CardinalityType

(* A line that is written whole and acknowledged.                          *)
LEMMA LineKeeps ==
    ASSUME NEW n \in Nat, NEW good \in SUBSET (1..n), NEW torn \in Nat,
           NEW f, Holds(f, n, good, torn), NEW p \in Pieces,
           p.msg = n + 1, p.whole, p.eol
    PROVE  Holds(Append(f, p), n + 1, good \cup {n + 1}, torn)
<1> DEFINE g == Append(f, p)
<1>1. /\ f \in Seq(Pieces) /\ g \in Seq(Pieces) /\ Len(f) \in Nat
      /\ DOMAIN g = DOMAIN f \cup {Len(f) + 1} /\ Len(f) + 1 \notin DOMAIN f
      /\ g[Len(f) + 1] = p /\ \A i \in DOMAIN f : g[i] = f[i]
  BY AppendFacts DEF Holds
<1> HIDE DEF g
<1>2. \A i \in DOMAIN f : f[i].msg \in Nat /\ f[i].msg <= n
  <2>1. \A i \in DOMAIN f : f[i] \in Pieces
    BY <1>1
  <2> QED  BY <2>1 DEF Holds, Pieces
<1>3. \A i \in DOMAIN g : g[i].msg <= n + 1
  BY <1>1, <1>2
<1>4. \A m \in good \cup {n + 1} : WholeLine(g, m)
  <2>1. WholeLine(g, n + 1)
    BY <1>1 DEF WholeLine
  <2>2. \A m \in good : WholeLine(g, m)
    BY <1>1 DEF Holds, WholeLine
  <2> QED  BY <2>1, <2>2
<1>5. \A i \in DOMAIN g : g[i].msg \in good \cup {n + 1} => g[i].eol
  <2>1. \A i \in DOMAIN f : f[i].msg # n + 1
    BY <1>2
  <2> QED  BY <1>1, <2>1 DEF Holds
<1>6. TornIn(g) = TornIn(f)
  BY <1>1 DEF TornIn
<1>7. Holds(g, n + 1, good \cup {n + 1}, torn)
  BY <1>1, <1>3, <1>4, <1>5, <1>6 DEF Holds
<1> QED  BY <1>7 DEF g

(* A line that is cut off, whose message is not acknowledged.              *)
LEMMA TearKeeps ==
    ASSUME NEW n \in Nat, NEW good \in SUBSET (1..n), NEW torn \in Nat,
           NEW f, Holds(f, n, good, torn), NEW p \in Pieces, p.msg = n + 1, ~p.eol
    PROVE  Holds(Append(f, p), n + 1, good, torn + 1)
<1> DEFINE g == Append(f, p)
<1>1. /\ f \in Seq(Pieces) /\ g \in Seq(Pieces) /\ Len(f) \in Nat
      /\ DOMAIN g = DOMAIN f \cup {Len(f) + 1} /\ Len(f) + 1 \notin DOMAIN f
      /\ g[Len(f) + 1] = p /\ \A i \in DOMAIN f : g[i] = f[i]
  BY AppendFacts DEF Holds
<1> HIDE DEF g
<1>2. \A i \in DOMAIN f : f[i].msg \in Nat /\ f[i].msg <= n
  <2>1. \A i \in DOMAIN f : f[i] \in Pieces
    BY <1>1
  <2> QED  BY <2>1 DEF Holds, Pieces
<1>3. \A i \in DOMAIN g : g[i].msg <= n + 1
  BY <1>1, <1>2
<1>4. \A m \in good : WholeLine(g, m)
  BY <1>1 DEF Holds, WholeLine
<1>5. \A i \in DOMAIN g : g[i].msg \in good => g[i].eol
  <2>1. n + 1 \notin good
    OBVIOUS
  <2> QED  BY <1>1, <2>1 DEF Holds
<1>6. TornIn(g) = TornIn(f) \cup {Len(f) + 1} /\ Len(f) + 1 \notin TornIn(f)
  BY <1>1 DEF TornIn
<1>7. Cardinality(TornIn(g)) = Cardinality(TornIn(f)) + 1
  <2>1. IsFiniteSet(TornIn(f))
    BY <1>1, TornIsFinite
  <2> QED  BY <1>6, <2>1, FS_AddElement
<1>8. Cardinality(TornIn(g)) <= torn + 1
  BY <1>1, <1>7, TornIsFinite DEF Holds
<1>9. Holds(g, n + 1, good, torn + 1)
  BY <1>1, <1>3, <1>4, <1>5, <1>8 DEF Holds
<1> QED  BY <1>9 DEF g

(* A new file: empty or with one piece of the meta line.                   *)
LEMMA NewFileHolds ==
    ASSUME NEW n \in Nat, NEW torn \in Nat
    PROVE  /\ Holds(<<>>, n, {}, torn)
           /\ Holds(<<Line(Meta, 1)>>, n, {}, torn)
           /\ \A p \in Prefixes(Line(Meta, 1)) : Holds(<<p>>, n, {}, torn + 1)
<1>1. Holds(<<>>, n, {}, torn)
  <2>1. TornIn(<<>>) = {}
    BY DEF TornIn
  <2> QED  BY <2>1, FS_EmptySet DEF Holds
<1>2. ASSUME NEW p \in Pieces, p.msg = 0
      PROVE  Holds(<<p>>, n, {}, IF p.eol THEN torn ELSE torn + 1)
  <2>1. <<p>> \in Seq(Pieces) /\ DOMAIN <<p>> = {1} /\ <<p>>[1] = p
    OBVIOUS
  <2>2. TornIn(<<p>>) = IF p.eol THEN {} ELSE {1}
    BY <2>1 DEF TornIn
  <2>3. Cardinality(TornIn(<<p>>)) <= IF p.eol THEN torn ELSE torn + 1
    BY <2>2, FS_EmptySet, FS_Singleton
  <2> QED  BY <1>2, <2>1, <2>3 DEF Holds
<1>3. Meta \in Nat /\ Meta = 0
  BY DEF Meta
<1>4. Line(Meta, 1) \in Pieces /\ Line(Meta, 1).msg = 0 /\ Line(Meta, 1).eol
  BY <1>3, LinesArePieces DEF Line
<1>5. \A p \in Prefixes(Line(Meta, 1)) : p \in Pieces /\ p.msg = 0 /\ ~p.eol
  BY <1>3, LinesArePieces
<1> QED  BY <1>1, <1>2, <1>4, <1>5

-----------------------------------------------------------------------------
(* The steps.                                                              *)

LEMMA SessionAtFirst == SessionInit => SessionInv
  BY DEF SessionInit, SessionInv, SessionTypes

LEMMA CreateKeeps ==
    ASSUME SessionInv, NEW s \in Sessions, CreateSession(s)
    PROVE  SessionInv'
<1>1. /\ ~born[s] /\ born' = [born EXCEPT ![s] = TRUE]
      /\ UNCHANGED <<gone, open, sent, logged>>
      /\ logged[s] = {} /\ ~gone[s] /\ jsonl[s] = NoFile /\ tears[s] \in Nat /\ sent \in Nat
  BY DEF CreateSession, SessionInv, SessionTypes
<1>2. /\ jsonl' = [t \in Sessions |-> jsonl'[t]] /\ tears' \in [Sessions -> Nat]
      /\ \A t \in Sessions \ {s} : jsonl'[t] = jsonl[t] /\ tears'[t] = tears[t]
      /\ jsonl'[s] # NoFile => Holds(jsonl'[s], sent, {}, tears'[s])
  <2>1. CASE jsonl' = [jsonl EXCEPT ![s] = <<Line(Meta, 1)>>] /\ UNCHANGED tears
    BY <1>1, <2>1, NewFileHolds DEF SessionInv, SessionTypes
  <2>2. CASE /\ tears' = [tears EXCEPT ![s] = @ + 1]
             /\ UNCHANGED jsonl \/ jsonl' = [jsonl EXCEPT ![s] = <<>>]
    <3>1. tears' \in [Sessions -> Nat] /\ \A t \in Sessions \ {s} : tears'[t] = tears[t]
      BY <2>2 DEF SessionInv, SessionTypes
    <3> QED  BY <1>1, <2>2, <3>1, NewFileHolds DEF SessionInv, SessionTypes
  <2>3. CASE /\ tears' = [tears EXCEPT ![s] = @ + 1]
             /\ \E p \in Prefixes(Line(Meta, 1)) : jsonl' = [jsonl EXCEPT ![s] = <<p>>]
    <3>1. /\ tears' \in [Sessions -> Nat] /\ tears'[s] = tears[s] + 1
          /\ \A t \in Sessions \ {s} : tears'[t] = tears[t]
      BY <2>3 DEF SessionInv, SessionTypes
    <3>2. PICK p \in Prefixes(Line(Meta, 1)) : jsonl' = [jsonl EXCEPT ![s] = <<p>>]
      BY <2>3
    <3>3. Holds(<<p>>, sent, {}, tears'[s])
      BY <1>1, <3>1, NewFileHolds
    <3>4. jsonl = [t \in Sessions |-> jsonl[t]]
      BY DEF SessionInv, SessionTypes
    <3>5. /\ jsonl' = [t \in Sessions |-> jsonl'[t]] /\ jsonl'[s] = <<p>>
          /\ \A t \in Sessions \ {s} : jsonl'[t] = jsonl[t]
      BY <3>2, <3>4
    <3> QED  BY <3>1, <3>3, <3>5
  <2> QED  BY <2>1, <2>2, <2>3 DEF CreateSession
<1>3. SessionTypes'
  BY <1>1, <1>2 DEF SessionInv, SessionTypes
<1>4. \A t \in Sessions : born'[t] <=> t = s \/ born[t]
  BY <1>1 DEF SessionInv, SessionTypes
<1>5. \A a \in Clients : open[a] # NoFile => open[a] \in Sessions
  BY DEF SessionInv, SessionTypes
<1> QED  BY <1>1, <1>2, <1>3, <1>4, <1>5 DEF SessionInv

LEMMA DeleteKeeps ==
    ASSUME SessionInv, NEW s \in Sessions, DeleteSession(s)
    PROVE  SessionInv'
  BY DEF SessionInv, SessionTypes, DeleteSession

LEMMA OpenKeeps ==
    ASSUME SessionInv, NEW a \in Clients, NEW s \in Sessions, AppendOpens(a, s)
    PROVE  SessionInv' /\ UNCHANGED <<jsonl, logged>>
<1>1. /\ jsonl' = jsonl /\ UNCHANGED <<born, gone, sent, logged, tears>>
      /\ open' = [open EXCEPT ![a] = s] /\ born[s]
  BY DEF AppendOpens, OpenFile, SessionInv, SessionTypes
<1> QED  BY <1>1 DEF SessionInv, SessionTypes

(* What the steps that write a piece p have in common.                     *)
LEMMA PieceFacts ==
    ASSUME SessionInv, NEW a \in Clients, open[a] # NoFile, NextMessage,
           NEW p, AppendPiece(a, open[a], p)
    PROVE  /\ open[a] \in Sessions /\ born[open[a]]
           /\ sent' = sent + 1 /\ UNCHANGED <<born, gone>>
           /\ open' \in [Clients -> Sessions \cup {NoFile}]
           /\ \A b \in Clients : open'[b] # NoFile => open'[b] = open[b]
           /\ jsonl' = [t \in Sessions |-> jsonl'[t]]
           /\ \A t \in Sessions : jsonl[t] = NoFile => jsonl'[t] = NoFile
           /\ \A t \in Sessions \ {open[a]} : jsonl'[t] = jsonl[t]
           /\ jsonl[open[a]] # NoFile => jsonl'[open[a]] = Append(jsonl[open[a]], p)
  BY DEF SessionInv, SessionTypes, AppendPiece, NextMessage

LEMMA HoldsLater ==
    ASSUME NEW n \in Nat, NEW good, NEW torn \in Nat, NEW f, Holds(f, n, good, torn)
    PROVE  Holds(f, n + 1, good, torn)
<1>1. \A i \in DOMAIN f : f[i] \in Pieces
  BY DEF Holds
<1>2. \A i \in DOMAIN f : f[i].msg \in Nat /\ f[i].msg <= n
  BY <1>1 DEF Holds, Pieces
<1> QED  BY <1>2 DEF Holds

LEMMA WriteKeeps ==
    ASSUME SessionInv, NEW a \in Clients, NEW n \in Sizes, AppendWrites(a, n)
    PROVE  SessionInv'
<1>1. PICK s \in Sessions : s = open[a]
  BY DEF SessionInv, SessionTypes, AppendWrites
<1>2. PICK m \in Nat : m = sent
  BY DEF SessionInv, SessionTypes
<1> DEFINE p == Line(m + 1, n)
<1>3. p \in Pieces /\ p.msg = m + 1 /\ p.whole /\ p.eol
  BY LinesArePieces DEF Line
<1>4. /\ open[a] # NoFile /\ NextMessage /\ AppendPiece(a, open[a], p)
      /\ logged' = [logged EXCEPT ![s] = @ \cup {m + 1}] /\ UNCHANGED tears
  <2>1. sent' = m + 1
    BY <1>2 DEF AppendWrites, NextMessage
  <2> QED  BY <1>1, <2>1 DEF AppendWrites, MessageLine
<1> HIDE DEF p
<1>5. /\ born[s] /\ sent' = m + 1 /\ UNCHANGED <<born, gone>>
      /\ open' \in [Clients -> Sessions \cup {NoFile}]
      /\ \A b \in Clients : open'[b] # NoFile => open'[b] = open[b]
      /\ jsonl' = [t \in Sessions |-> jsonl'[t]]
      /\ \A t \in Sessions : jsonl[t] = NoFile => jsonl'[t] = NoFile
      /\ \A t \in Sessions \ {s} : jsonl'[t] = jsonl[t]
      /\ jsonl[s] # NoFile => jsonl'[s] = Append(jsonl[s], p)
  BY <1>1, <1>2, <1>4, PieceFacts
<1>6. /\ logged' \in [Sessions -> SUBSET (1..m + 1)] /\ logged'[s] = logged[s] \cup {m + 1}
      /\ \A t \in Sessions : logged[t] \in SUBSET (1..m)
      /\ \A t \in Sessions \ {s} : logged'[t] = logged[t]
  BY <1>2, <1>4 DEF SessionInv, SessionTypes
<1>7. SessionTypes'
  BY <1>4, <1>5, <1>6 DEF SessionInv, SessionTypes
<1>8. ASSUME NEW t \in Sessions, jsonl'[t] # NoFile
      PROVE  Holds(jsonl'[t], m + 1, logged'[t], tears'[t])
  <2>1. jsonl[t] # NoFile /\ tears[t] \in Nat /\ tears' = tears
    BY <1>4, <1>5, <1>8 DEF SessionInv, SessionTypes
  <2>2. Holds(jsonl[t], m, logged[t], tears[t])
    BY <1>2, <2>1 DEF SessionInv
  <2>3. CASE t = s
    <3>1. Holds(Append(jsonl[s], p), m + 1, logged[s] \cup {m + 1}, tears[s])
      <4>1. Holds(jsonl[s], m, logged[s], tears[s]) /\ tears[s] \in Nat
        BY <2>1, <2>2, <2>3
      <4>2. logged[s] \in SUBSET (1..m)
        BY <1>6
      <4> QED  BY <1>3, <4>1, <4>2, LineKeeps
    <3> QED  BY <1>5, <1>6, <2>1, <2>3, <3>1
  <2>4. CASE t # s
    BY <1>5, <1>6, <2>1, <2>2, <2>4, HoldsLater
  <2> QED  BY <2>3, <2>4
<1> QED  BY <1>2, <1>5, <1>6, <1>7, <1>8 DEF SessionInv

LEMMA TearingKeeps ==
    ASSUME SessionInv, NEW a \in Clients, NEW n \in Sizes, AppendTears(a, n)
    PROVE  SessionInv'
<1>1. PICK s \in Sessions : s = open[a]
  BY DEF SessionInv, SessionTypes, AppendTears
<1>2. PICK m \in Nat : m = sent
  BY DEF SessionInv, SessionTypes
<1>3. PICK p \in Prefixes(Line(m + 1, n)) : AppendPiece(a, open[a], p)
  <2>1. sent' = m + 1
    BY <1>2 DEF AppendTears, NextMessage
  <2> QED  BY <2>1 DEF AppendTears
<1>4. p \in Pieces /\ p.msg = m + 1 /\ ~p.eol
  BY LinesArePieces
<1>5. /\ born[s] /\ sent' = m + 1 /\ UNCHANGED <<born, gone>>
      /\ open' \in [Clients -> Sessions \cup {NoFile}]
      /\ \A b \in Clients : open'[b] # NoFile => open'[b] = open[b]
      /\ jsonl' = [t \in Sessions |-> jsonl'[t]]
      /\ \A t \in Sessions : jsonl[t] = NoFile => jsonl'[t] = NoFile
      /\ \A t \in Sessions \ {s} : jsonl'[t] = jsonl[t]
      /\ jsonl[s] # NoFile => jsonl'[s] = Append(jsonl[s], p)
  BY <1>1, <1>2, <1>3, PieceFacts DEF AppendTears
<1>6. /\ logged' = logged /\ tears' \in [Sessions -> Nat] /\ tears'[s] = tears[s] + 1
      /\ \A t \in Sessions : logged[t] \in SUBSET (1..m) /\ tears[t] \in Nat
      /\ \A t \in Sessions \ {s} : tears'[t] = tears[t]
  BY <1>1, <1>2 DEF AppendTears, SessionInv, SessionTypes
<1>7. logged' \in [Sessions -> SUBSET (1..m + 1)]
  BY <1>2, <1>6 DEF SessionInv, SessionTypes
<1>8. SessionTypes'
  BY <1>5, <1>6, <1>7 DEF SessionInv, SessionTypes
<1>9. ASSUME NEW t \in Sessions, jsonl'[t] # NoFile
      PROVE  Holds(jsonl'[t], m + 1, logged'[t], tears'[t])
  <2>1. jsonl[t] # NoFile
    BY <1>5, <1>9
  <2>2. Holds(jsonl[t], m, logged[t], tears[t])
    BY <1>2, <2>1 DEF SessionInv
  <2>3. CASE t = s
    <3>1. PICK f : f = jsonl[s]
      OBVIOUS
    <3>2. logged[s] \in SUBSET (1..m) /\ tears[s] \in Nat
      BY <1>6
    <3>3. Holds(f, m, logged[s], tears[s])
      BY <2>2, <2>3, <3>1
    <3>4. Holds(Append(f, p), m + 1, logged[s], tears[s] + 1)
      BY <1>4, <3>2, <3>3, TearKeeps
    <3>5. jsonl'[s] = Append(f, p) /\ logged'[s] = logged[s] /\ tears'[s] = tears[s] + 1
      BY <1>5, <1>6, <2>1, <2>3, <3>1
    <3> QED  BY <2>3, <3>4, <3>5
  <2>4. CASE t # s
    BY <1>5, <1>6, <2>1, <2>2, <2>4, HoldsLater
  <2> QED  BY <2>3, <2>4
<1> QED  BY <1>2, <1>5, <1>6, <1>8, <1>9 DEF SessionInv

LEMMA SessionNext ==
    ASSUME SessionInv,
           (\E a \in Clients : SessionStep(a)) \/ SessionsCrash \/ UNCHANGED sessionVars
    PROVE  SessionInv'
<1>1. CASE \E a \in Clients : SessionStep(a)
  BY <1>1, CreateKeeps, DeleteKeeps, OpenKeeps, WriteKeeps, TearingKeeps DEF SessionStep
<1>2. CASE SessionsCrash
  BY <1>2 DEF SessionsCrash, SessionInv, SessionTypes
<1>3. CASE UNCHANGED sessionVars
  BY <1>3 DEF sessionVars, SessionInv, SessionTypes
<1> QED  BY <1>1, <1>2, <1>3

-----------------------------------------------------------------------------
(* What a file tells LoadSession.                                          *)

(* A piece with its newline is a line of its own, unless the one before it *)
(* was torn.                                                               *)
LEMMA OwnLine ==
    ASSUME NEW f \in Seq(Pieces), NEW i \in DOMAIN f, f[i].eol, i > 1 => f[i - 1].eol
    PROVE  LineOf(f, i) = {i}
<1>1. DOMAIN f = 1..Len(f) /\ Len(f) \in Nat
  OBVIOUS
<1>2. ASSUME NEW j \in DOMAIN f, j # i
      PROVE  j \notin LineOf(f, i)
  <2>1. CASE i < j
    BY <1>1, <2>1 DEF LineOf
  <2>2. CASE j < i
    <3>1. i - 1 \in DOMAIN f /\ j <= i - 1 /\ i - 1 < i
      BY <1>1, <2>2
    <3> QED  BY <1>1, <2>2, <3>1 DEF LineOf
  <2> QED  BY <1>1, <1>2, <2>1, <2>2
<1>3. i \in LineOf(f, i)
  BY <1>1 DEF LineOf
<1> QED  BY <1>2, <1>3 DEF LineOf

LEMMA OneLostPerTear ==
    ASSUME NEW f, NEW n \in Nat, NEW good, NEW torn \in Nat, Holds(f, n, good, torn),
           ~LoadFailsOf(f)
    PROVE  Cardinality(good \ LoadedOf(f)) <= torn
<1>1. f \in Seq(Pieces) /\ DOMAIN f = 1..Len(f) /\ Len(f) \in Nat
  BY DEF Holds
<1>2. \A i \in DOMAIN f : Scanned(f, i)
  BY DEF LoadFailsOf, Scanned
<1> DEFINE next == [t \in TornIn(f) |-> f[t + 1].msg]
           after == {next[t] : t \in TornIn(f)}
<1>3. ASSUME NEW m \in good \ LoadedOf(f)
      PROVE  m \in after
  <2>1. PICK i \in DOMAIN f : f[i].msg = m /\ f[i].whole /\ f[i].eol
    BY DEF Holds, WholeLine
  <2>2. LineOf(f, i) # {i}
    BY <1>2, <2>1 DEF LoadedOf, Parses
  <2>3. i > 1 /\ ~f[i - 1].eol
    BY <1>1, <2>1, <2>2, OwnLine
  <2>4. i - 1 \in TornIn(f) /\ (i - 1) + 1 = i
    BY <1>1, <2>3 DEF TornIn
  <2>5. next[i - 1] = m
    BY <2>1, <2>4
  <2> QED  BY <2>4, <2>5
<1>4. next \in Surjection(TornIn(f), after)
  BY DEF Surjection
<1> HIDE DEF next, after
<1>5. /\ IsFiniteSet(after) /\ Cardinality(after) <= Cardinality(TornIn(f))
      /\ Cardinality(after) \in Nat /\ Cardinality(TornIn(f)) \in Nat
  BY <1>1, <1>4, TornIsFinite, FS_Surjection, FS_CardinalityType
<1>6. /\ Cardinality(good \ LoadedOf(f)) <= Cardinality(after)
      /\ Cardinality(good \ LoadedOf(f)) \in Nat
  <2>1. good \ LoadedOf(f) \in SUBSET after
    BY <1>3
  <2> QED  BY <1>5, <2>1, FS_Subset, FS_CardinalityType
<1>7. Cardinality(TornIn(f)) <= torn
  BY DEF Holds
<1> QED  BY <1>5, <1>6, <1>7

(* Only the sizes count.  The definition of MapThenSumSet speaks of a      *)
(* function that is summed by adding one element at a time: two sequences  *)
(* that agree on the elements give the same one.                           *)
LEMMA SameLength ==
    ASSUME NEW f, NEW g, NEW i, LineOf(f, i) = LineOf(g, i),
           \A j \in LineOf(f, i) : f[j].size = g[j].size
    PROVE  TooLong(f, i) <=> TooLong(g, i)
<1> DEFINE IsTotal(it, h, S) ==
      it = [s \in SUBSET S |->
              IF s = {} THEN 0
              ELSE h[CHOOSE x \in s : TRUE].size + it[s \ {CHOOSE x \in s : TRUE}]]
    Total(h, S) == CHOOSE it : IsTotal(it, h, S)
<1>1. TooLong(f, i) <=> Total(f, LineOf(f, i))[LineOf(f, i)] > LineLimit
  BY DEF TooLong, MapThenSumSet, MapThenFoldSet
<1>2. TooLong(g, i) <=> Total(g, LineOf(g, i))[LineOf(g, i)] > LineLimit
  BY DEF TooLong, MapThenSumSet, MapThenFoldSet
<1>3. PICK S : S = LineOf(f, i) /\ S = LineOf(g, i)
  OBVIOUS
<1>4. \A it : IsTotal(it, f, S) <=> IsTotal(it, g, S)
  <2>1. \A s \in SUBSET S : s # {} => (CHOOSE x \in s : TRUE) \in S
    OBVIOUS
  <2> QED  BY <1>3, <2>1
<1>5. Total(f, S) = Total(g, S)
  <2> HIDE DEF IsTotal
  <2> QED  BY <1>4, Zenon
<1> HIDE DEF Total
<1> QED  BY <1>1, <1>2, <1>3, <1>5

(* An append changes nothing up to the last newline.                       *)
LEMMA AppendAddsLines ==
    ASSUME NEW f \in Seq(Pieces), NEW p \in Pieces, NEW k \in DOMAIN f, f[k].eol,
           Scanned(f, k), Parses(f, k)
    PROVE  Scanned(Append(f, p), k) /\ Parses(Append(f, p), k)
<1> DEFINE g == Append(f, p)
<1>1. /\ DOMAIN f = 1..Len(f) /\ Len(f) \in Nat
      /\ DOMAIN g = DOMAIN f \cup {Len(f) + 1} /\ Len(f) + 1 \notin DOMAIN f
      /\ \A i \in DOMAIN f : g[i] = f[i]
  BY AppendFacts
<1> HIDE DEF g
<1>2. ASSUME NEW i \in DOMAIN f, i <= k
      PROVE  LineOf(g, i) = LineOf(f, i)
  <2>1. Len(f) + 1 \notin LineOf(g, i)
    BY <1>1, <1>2 DEF LineOf
  <2>2. \A j \in DOMAIN f : j \in LineOf(g, i) <=> j \in LineOf(f, i)
    BY <1>1 DEF LineOf
  <2> QED  BY <1>1, <2>1, <2>2 DEF LineOf
<1>3. ASSUME NEW i \in DOMAIN f, i <= k
      PROVE  TooLong(g, i) <=> TooLong(f, i)
  <2>1. LineOf(g, i) = LineOf(f, i)
    BY <1>2, <1>3
  <2>2. \A j \in LineOf(f, i) : g[j].size = f[j].size
    BY <1>1 DEF LineOf
  <2> QED  BY <2>1, <2>2, SameLength
<1>4. Scanned(g, k)
  <2>1. \A i \in DOMAIN g : i <= k => i \in DOMAIN f
    BY <1>1
  <2> QED  BY <1>3, <2>1 DEF Scanned
<1>5. Parses(g, k)
  <2>1. k <= k
    BY <1>1
  <2> QED  BY <1>1, <1>2, <2>1 DEF Parses
<1> QED  BY <1>4, <1>5 DEF g

LEMMA AppendLoadsMore ==
    ASSUME NEW f \in Seq(Pieces), NEW p \in Pieces, NEW good,
           \A i \in DOMAIN f : f[i].msg \in good => f[i].eol
    PROVE  LoadedOf(f) \cap good \subseteq LoadedOf(Append(f, p))
<1> SUFFICES ASSUME NEW m \in LoadedOf(f) \cap good
             PROVE  m \in LoadedOf(Append(f, p))
  OBVIOUS
<1>1. PICK k \in DOMAIN f : Scanned(f, k) /\ Parses(f, k) /\ f[k].msg = m
  BY DEF LoadedOf
<1>2. Scanned(Append(f, p), k) /\ Parses(Append(f, p), k)
  BY <1>1, AppendAddsLines
<1>3. k \in DOMAIN Append(f, p) /\ Append(f, p)[k].msg = m
  BY <1>1, AppendFacts
<1> QED  BY <1>2, <1>3 DEF LoadedOf

-----------------------------------------------------------------------------
LEMMA SessionPromises == SessionInv => OneMessagePerTear /\ DeletedStaysDeleted
<1> SUFFICES ASSUME SessionInv
             PROVE  OneMessagePerTear /\ DeletedStaysDeleted
  OBVIOUS
<1>1. DeletedStaysDeleted
  BY DEF SessionInv, DeletedStaysDeleted, Listed
<1>2. ASSUME NEW s \in Sessions, jsonl[s] # NoFile,
             \A i \in DOMAIN jsonl[s] : ~TooLong(jsonl[s], i)
      PROVE  s \in Listed /\ Cardinality(logged[s] \ Loaded(s)) <= tears[s]
  <2>1. ~LoadFailsOf(jsonl[s])
    BY <1>2 DEF LoadFailsOf
  <2>2. s \in Listed
    BY <1>2, <2>1 DEF Listed, LoadFails
  <2>3. Holds(jsonl[s], sent, logged[s], tears[s]) /\ sent \in Nat /\ tears[s] \in Nat
    BY <1>2 DEF SessionInv, SessionTypes
  <2> QED  BY <1>2, <2>1, <2>2, <2>3, OneLostPerTear DEF Loaded
<1> QED  BY <1>1, <1>2 DEF OneMessagePerTear

(* A step that appends to the file of s, if it is still there.             *)
LEMMA PieceLoadsMore ==
    ASSUME SessionInv, NEW a \in Clients, open[a] # NoFile, NextMessage,
           NEW p \in Pieces, AppendPiece(a, open[a], p), NEW s \in Sessions, jsonl'[s] # NoFile
    PROVE  Loaded(s) \cap logged[s] \subseteq Loaded(s)'
<1>1. jsonl[s] # NoFile /\ jsonl'[s] \in {jsonl[s], Append(jsonl[s], p)}
  <2>1. CASE s = open[a]
    BY <2>1, PieceFacts
  <2>2. CASE s # open[a]
    BY <2>2, PieceFacts
  <2> QED  BY <2>1, <2>2
<1>2. Holds(jsonl[s], sent, logged[s], tears[s])
  BY <1>1 DEF SessionInv
<1>3. LoadedOf(jsonl[s]) \cap logged[s] \subseteq LoadedOf(Append(jsonl[s], p))
  BY <1>2, AppendLoadsMore DEF Holds
<1>4. Loaded(s) = LoadedOf(jsonl[s])
  BY <1>1 DEF Loaded
<1>5. Loaded(s)' = LoadedOf(jsonl'[s])
  BY DEF Loaded
<1> QED  BY <1>1, <1>3, <1>4, <1>5

LEMMA LoadedStaysStep ==
    ASSUME SessionInv,
           (\E a \in Clients : SessionStep(a)) \/ SessionsCrash \/ UNCHANGED sessionVars,
           NEW s \in Sessions, jsonl'[s] # NoFile
    PROVE  Loaded(s) \cap logged[s] \subseteq Loaded(s)'
<1>1. CASE jsonl'[s] = jsonl[s]
  BY <1>1 DEF Loaded
<1>2. CASE \E t \in Sessions : CreateSession(t)
  <2>1. PICK t \in Sessions : CreateSession(t)
    BY <1>2
  <2>2. CASE s = t
    BY <2>1, <2>2 DEF CreateSession, SessionInv
  <2>3. CASE s # t
    BY <1>1, <2>1, <2>3 DEF CreateSession, SessionInv, SessionTypes
  <2> QED  BY <2>2, <2>3
<1>3. CASE \E t \in Sessions : DeleteSession(t)
  BY <1>1, <1>3 DEF DeleteSession, SessionInv, SessionTypes
<1>4. CASE \E a \in Clients, t \in Sessions : AppendOpens(a, t)
  BY <1>1, <1>4, OpenKeeps
<1>5. CASE \E a \in Clients, n \in Sizes : AppendWrites(a, n)
  <2>1. PICK a \in Clients, n \in Sizes : AppendWrites(a, n)
    BY <1>5
  <2>2. PICK m \in Nat : m = sent'
    BY <2>1 DEF AppendWrites, NextMessage, SessionInv, SessionTypes
  <2>3. Line(m, n) \in Pieces
    BY LinesArePieces
  <2> QED  BY <2>1, <2>2, <2>3, PieceLoadsMore DEF AppendWrites, MessageLine
<1>6. CASE \E a \in Clients, n \in Sizes : AppendTears(a, n)
  <2>1. PICK a \in Clients, n \in Sizes : AppendTears(a, n)
    BY <1>6
  <2>2. PICK m \in Nat : m = sent'
    BY <2>1 DEF AppendTears, NextMessage, SessionInv, SessionTypes
  <2>3. PICK p \in Prefixes(Line(m, n)) : AppendPiece(a, open[a], p)
    BY <2>1, <2>2 DEF AppendTears
  <2>4. p \in Pieces
    BY LinesArePieces
  <2> QED  BY <2>1, <2>3, <2>4, PieceLoadsMore DEF AppendTears
<1>7. CASE SessionsCrash \/ UNCHANGED sessionVars
  BY <1>1, <1>7 DEF SessionsCrash, sessionVars
<1> QED  BY <1>2, <1>3, <1>4, <1>5, <1>6, <1>7 DEF SessionStep

-----------------------------------------------------------------------------
(* ConfigStore implements DurableRegister.  The name refers to files that  *)
(* are whole and synced only, so that a loss of power leaves them as they  *)
(* are; the Saves under way write one configuration each.                  *)

WholeFiles == [cfg : 1..MaxCalls, whole : {TRUE}, synced : {TRUE}]
Saving ==
    [at : {"write"}, file : [cfg : 1..MaxCalls, whole : {FALSE}, synced : {FALSE}]]
    \cup [at : {"sync"}, file : [cfg : 1..MaxCalls, whole : {TRUE}, synced : {FALSE}]]
    \cup [at : {"rename"}, file : WholeFiles]

ConfigInv ==
    /\ {cfgFile, cfgOnDisk} \subseteq WholeFiles \cup {NoFile}
    /\ saveOp \in [Clients -> {NoSave} \cup Saving]
    /\ \A c \in Clients : InSave(c) => saveOp[c].file.cfg <= calls
    /\ \A c, d \in Clients :
          InSave(c) /\ InSave(d) /\ saveOp[c].file.cfg = saveOp[d].file.cfg => c = d

Pending == {saveOp[c].file.cfg : c \in {d \in Clients : InSave(d)}}

LEMMA SavingFacts ==
    ASSUME NEW op \in Saving
    PROVE  op # NoSave /\ op.file.cfg \in 1..MaxCalls
<1>1. op.at \in {"write", "sync", "rename"} /\ NoSave.at = "none"
  BY DEF Saving, NoSave
<1>2. op.file \in [cfg : 1..MaxCalls, whole : BOOLEAN, synced : BOOLEAN]
  BY DEF Saving, WholeFiles
<1> QED  BY <1>1, <1>2

LEMMA RegisterSteps ==
    ASSUME NEW v \in 1..MaxCalls,
           Register!Begin(v) \/ Register!Commit(v) \/ Register!Abandon(v)
    PROVE  Register!Next
  BY DEF Register!Next

LEMMA WholeFileLoads ==
    ASSUME NEW file \in WholeFiles
    PROVE  Load(file) = file.cfg /\ file # NoFile
<1>1. file \in ConfigFiles
  BY DEF WholeFiles, ConfigFiles
<1> QED  BY <1>1, NoConfigFile DEF Load, WholeFiles

LEMMA ConfigInitInv == ConfigInit => ConfigInv /\ Register!Init
  BY DEF ConfigInit, ConfigInv, InSave, Register!Init, Load

(* A Save that goes on to its next step is invisible.                      *)
LEMMA SaveGoesOn ==
    ASSUME ConfigInv, CallsInv, NEW c \in Clients, InSave(c), NEW op \in Saving,
           op.file.cfg = saveOp[c].file.cfg, saveOp' = [saveOp EXCEPT ![c] = op],
           UNCHANGED <<cfgFile, cfgOnDisk, calls>>
    PROVE  ConfigInv' /\ UNCHANGED Register!vars
<1>1. /\ saveOp' \in [Clients -> {NoSave} \cup Saving]
      /\ \A d \in Clients : /\ InSave(d)' <=> InSave(d)
                            /\ InSave(d) => saveOp'[d].file.cfg = saveOp[d].file.cfg
  BY SavingFacts DEF ConfigInv, InSave
<1>2. ConfigInv'
  BY <1>1 DEF ConfigInv
<1>3. Pending' = Pending
  BY <1>1 DEF Pending
<1> QED  BY <1>2, <1>3 DEF Pending, Register!vars

(* A Save that ends takes what it wrote with it.                           *)
LEMMA SaveLeaves ==
    ASSUME ConfigInv, NEW c \in Clients, InSave(c), SaveEnds(c), UNCHANGED <<cfgOnDisk, calls>>,
           cfgFile' \in WholeFiles \cup {NoFile}
    PROVE  /\ ConfigInv' /\ saveOp[c].file.cfg \in 1..MaxCalls
           /\ saveOp[c].file.cfg \in Pending /\ Pending' = Pending \ {saveOp[c].file.cfg}
<1>1. /\ saveOp' \in [Clients -> {NoSave} \cup Saving] /\ ~InSave(c)'
      /\ \A d \in Clients \ {c} : saveOp'[d] = saveOp[d] /\ (InSave(d)' <=> InSave(d))
  BY DEF ConfigInv, SaveEnds, InSave
<1>2. ConfigInv'
  BY <1>1 DEF ConfigInv
<1>3. saveOp[c].file.cfg \in 1..MaxCalls
  BY SavingFacts DEF ConfigInv, InSave
<1>4. Pending' = Pending \ {saveOp[c].file.cfg}
  <2>1. \A d \in Clients \ {c} : InSave(d) => saveOp[d].file.cfg # saveOp[c].file.cfg
    BY DEF ConfigInv
  <2> QED  BY <1>1, <2>1 DEF Pending
<1> QED  BY <1>2, <1>3, <1>4 DEF Pending

LEMMA SaveBegins ==
    ASSUME ConfigInv, CallsInv, NEW c \in Clients, ~InSave(c), Save(c)
    PROVE  ConfigInv' /\ Register!Next
<1> DEFINE op == [at |-> "write", file |-> [cfg |-> calls', whole |-> FALSE, synced |-> FALSE]]
<1>1. calls' \in 1..MaxCalls /\ calls < calls' /\ calls \in Nat
  BY NewCallFacts DEF Save, CallsInv
<1>2. op \in Saving /\ op.file.cfg = calls' /\ op # NoSave
  BY <1>1 DEF Saving, NoSave
<1> HIDE DEF op
<1>3. saveOp' = [saveOp EXCEPT ![c] = op] /\ UNCHANGED <<cfgFile, cfgOnDisk>>
  BY DEF Save, op
<1>4. /\ saveOp' \in [Clients -> {NoSave} \cup Saving] /\ InSave(c)' /\ saveOp'[c] = op
      /\ \A d \in Clients \ {c} : saveOp'[d] = saveOp[d] /\ (InSave(d)' <=> InSave(d))
  BY <1>2, <1>3 DEF ConfigInv, InSave
<1>5. \A d \in Clients : InSave(d) => saveOp[d].file.cfg \in Nat /\ saveOp[d].file.cfg < calls'
  BY <1>1, SavingFacts DEF ConfigInv, InSave
<1>6. ConfigInv'
  BY <1>1, <1>2, <1>3, <1>4, <1>5 DEF ConfigInv
<1>7. calls' \notin Pending /\ Pending' = Pending \cup {calls'}
  BY <1>1, <1>2, <1>4, <1>5 DEF Pending
<1>8. PICK v \in 1..MaxCalls : v = calls'
  BY <1>1
<1>9. Register!Begin(v)
  BY <1>3, <1>7, <1>8 DEF Register!Begin, Pending
<1> QED  BY <1>6, <1>9, RegisterSteps

LEMMA SaveStepImplements ==
    ASSUME ConfigInv, CallsInv, NEW c \in Clients, SaveStep(c)
    PROVE  ConfigInv' /\ [Register!Next]_Register!vars
<1>1. CASE SaveWrite(c)
  <2> DEFINE op == [saveOp[c] EXCEPT !.at = "sync", !.file = [saveOp[c].file EXCEPT !.whole = TRUE]]
  <2>1. InSave(c) /\ op \in Saving /\ op.file.cfg = saveOp[c].file.cfg
    <3>1. saveOp[c] \in Saving /\ saveOp[c].at = "write" /\ InSave(c)
      BY <1>1 DEF SaveWrite, ConfigInv, InSave, NoSave
    <3>2. saveOp[c] \in [at : {"write"}, file : [cfg : 1..MaxCalls, whole : {FALSE}, synced : {FALSE}]]
      BY <3>1 DEF Saving
    <3>3. op \in [at : {"sync"}, file : [cfg : 1..MaxCalls, whole : {TRUE}, synced : {FALSE}]]
      BY <3>2
    <3> QED  BY <3>1, <3>2, <3>3 DEF Saving
  <2>2. saveOp' = [saveOp EXCEPT ![c] = op] /\ UNCHANGED <<cfgFile, cfgOnDisk, calls>>
    BY <1>1, <2>1 DEF SaveWrite, ConfigInv, diskVars
  <2> QED  BY <2>1, <2>2, SaveGoesOn
<1>2. CASE SaveSync(c)
  <2> DEFINE op == [saveOp[c] EXCEPT !.at = "rename", !.file = Synced(saveOp[c].file)]
  <2>1. InSave(c) /\ op \in Saving /\ op.file.cfg = saveOp[c].file.cfg
    <3>1. saveOp[c] \in Saving /\ saveOp[c].at = "sync" /\ InSave(c)
      BY <1>2 DEF SaveSync, ConfigInv, InSave, NoSave
    <3>2. saveOp[c] \in [at : {"sync"}, file : [cfg : 1..MaxCalls, whole : {TRUE}, synced : {FALSE}]]
      BY <3>1 DEF Saving
    <3>3. op \in [at : {"rename"}, file : WholeFiles]
      BY <3>2 DEF Synced, WholeFiles
    <3> QED  BY <3>1, <3>2, <3>3 DEF Saving, Synced
  <2>2. saveOp' = [saveOp EXCEPT ![c] = op] /\ UNCHANGED <<cfgFile, cfgOnDisk, calls>>
    BY <1>2, <2>1 DEF SaveSync, ConfigInv, diskVars
  <2> QED  BY <2>1, <2>2, SaveGoesOn
<1>3. CASE SaveRename(c)
  <2>1. InSave(c) /\ saveOp[c].file \in WholeFiles
    <3>1. saveOp[c] \in Saving /\ saveOp[c].at = "rename" /\ InSave(c)
      BY <1>3 DEF SaveRename, ConfigInv, InSave, NoSave
    <3> QED  BY <3>1 DEF Saving
  <2>2. /\ ConfigInv' /\ saveOp[c].file.cfg \in 1..MaxCalls
        /\ saveOp[c].file.cfg \in Pending /\ Pending' = Pending \ {saveOp[c].file.cfg}
    BY <1>3, <2>1, SaveLeaves DEF SaveRename, diskVars
  <2>3. PICK v \in 1..MaxCalls : v = saveOp[c].file.cfg
    BY <2>2
  <2>4. Load(cfgFile)' = v /\ UNCHANGED cfgOnDisk
    BY <1>3, <2>1, <2>3, WholeFileLoads DEF SaveRename
  <2>5. Register!Commit(v)
    BY <2>2, <2>3, <2>4 DEF Register!Commit, Pending
  <2> QED  BY <2>2, <2>5, RegisterSteps
<1>4. CASE SaveFails(c)
  <2>1. InSave(c) /\ UNCHANGED <<cfgFile, cfgOnDisk, calls>> /\ SaveEnds(c)
    BY <1>4 DEF SaveFails
  <2>2. /\ ConfigInv' /\ saveOp[c].file.cfg \in 1..MaxCalls
        /\ saveOp[c].file.cfg \in Pending /\ Pending' = Pending \ {saveOp[c].file.cfg}
    BY <2>1, SaveLeaves DEF ConfigInv
  <2>3. PICK v \in 1..MaxCalls : v = saveOp[c].file.cfg
    BY <2>2
  <2>4. Register!Abandon(v)
    BY <2>1, <2>2, <2>3 DEF Register!Abandon, Pending
  <2> QED  BY <2>2, <2>4, RegisterSteps
<1> QED  BY <1>1, <1>2, <1>3, <1>4 DEF SaveStep

LEMMA ConfigEndImplements ==
    ASSUME ConfigInv, ConfigCrash \/ ConfigPowerLoss
    PROVE  ConfigInv' /\ Register!Next
<1>1. saveOp' = [c \in Clients |-> NoSave]
  BY DEF ConfigCrash, ConfigPowerLoss
<1>2. \A c \in Clients : ~InSave(c)'
  BY <1>1 DEF InSave
<1>3. Pending' = {}
  BY <1>2 DEF Pending
<1>4. CASE ConfigCrash
  <2>1. ConfigInv'
    BY <1>1, <1>2, <1>4 DEF ConfigInv, ConfigCrash
  <2>2. Register!Crash
    BY <1>3, <1>4 DEF Register!Crash, ConfigCrash, Pending
  <2> QED  BY <2>1, <2>2 DEF Register!Next
<1>5. CASE ConfigPowerLoss
  <2>1. cfgFile' = cfgOnDisk /\ cfgOnDisk' = cfgOnDisk
    BY <1>5 DEF ConfigPowerLoss, AfterPowerLoss, ConfigInv, WholeFiles
  <2>2. ConfigInv'
    BY <1>1, <1>2, <2>1 DEF ConfigInv
  <2>3. Register!PowerLoss
    BY <1>3, <2>1 DEF Register!PowerLoss, Pending
  <2> QED  BY <2>2, <2>3 DEF Register!Next
<1> QED  BY <1>4, <1>5

LEMMA ConfigUnused ==
    ASSUME ConfigInv, CallsInv, UNCHANGED cfgVars, calls <= calls', CallsInv'
    PROVE  ConfigInv' /\ UNCHANGED Register!vars
<1>1. UNCHANGED <<cfgFile, cfgOnDisk, saveOp>>
  BY DEF cfgVars
<1>2. \A c \in Clients : InSave(c)' <=> InSave(c)
  BY <1>1 DEF InSave
<1>3. \A c \in Clients : InSave(c) => saveOp[c].file.cfg <= calls'
  <2> SUFFICES ASSUME NEW c \in Clients, InSave(c)
               PROVE  saveOp[c].file.cfg <= calls'
    OBVIOUS
  <2>1. saveOp[c].file.cfg \in Nat /\ saveOp[c].file.cfg <= calls
    BY SavingFacts DEF ConfigInv, InSave
  <2> QED  BY <2>1 DEF CallsInv
<1>4. ConfigInv'
  BY <1>1, <1>2, <1>3 DEF ConfigInv
<1>5. Pending' = Pending
  BY <1>1, <1>2 DEF Pending
<1> QED  BY <1>1, <1>4, <1>5 DEF Pending, Register!vars

LEMMA ConfigNext ==
    ASSUME CallsInv, ConfigInv, [Next]_vars
    PROVE  ConfigInv' /\ [Register!Next]_Register!vars
<1>1. CASE Configures
  <2>1. CASE \E c \in Clients : ~InSave(c) /\ Save(c)
    BY <2>1, SaveBegins
  <2>2. CASE \E c \in Clients : SaveStep(c)
    BY <2>2, SaveStepImplements
  <2>3. CASE DirectorySettles /\ UNCHANGED diskVars
    <3>1. ConfigInv'
      BY <2>3 DEF DirectorySettles, diskVars, ConfigInv, InSave
    <3>2. Register!Settle
      BY <2>3 DEF DirectorySettles, Register!Settle, InSave
    <3> QED  BY <3>1, <3>2 DEF Register!Next
  <2> QED  BY <1>1, <2>1, <2>2, <2>3 DEF Configures
<1>2. CASE Crash \/ PowerLoss
  BY <1>2, ConfigEndImplements DEF Crash, PowerLoss
<1>3. CASE UNCHANGED cfgVars
  BY <1>3, ConfigUnused, CallsCounted
<1> QED  BY <1>1, <1>2, <1>3
         DEF Next, Tasks, Memorizes, Texts, Logs, Discovers, vars

-----------------------------------------------------------------------------
(* JSON objects, and what is made of a file.                               *)

MapsTo(n) == UNION {[keys -> 0..n] : keys \in SUBSET (1..n)}

LEMMA MapsToFacts ==
    ASSUME NEW n \in Nat, NEW f
    PROVE  f \in MapsTo(n) <=>
              /\ f = [x \in DOMAIN f |-> f[x]]
              /\ \A x \in DOMAIN f : x \in 1..n /\ f[x] \in 0..n
  BY DEF MapsTo

LEMMA MapsToWith ==
    ASSUME NEW n \in Nat, NEW m \in Nat, n <= m, NEW f \in MapsTo(n),
           NEW x \in 1..m, NEW y \in 0..m
    PROVE  With(f, x, y) \in MapsTo(m)
<1> DEFINE g == With(f, x, y)
<1>1. /\ g = [z \in DOMAIN g |-> g[z]] /\ DOMAIN g = DOMAIN f \cup {x} /\ g[x] = y
      /\ \A z \in DOMAIN f : z # x => g[z] = f[z]
  BY DEF With
<1> HIDE DEF g
<1>2. \A z \in DOMAIN g : z \in 1..m /\ g[z] \in 0..m
  BY <1>1, MapsToFacts
<1>3. g \in MapsTo(m)
  BY <1>1, <1>2, MapsToFacts
<1> QED  BY <1>3 DEF g

LEMMA MapsToMonotone ==
    ASSUME NEW n \in Nat, NEW m \in Nat, n <= m
    PROVE  MapsTo(n) \subseteq MapsTo(m) /\ <<>> \in MapsTo(n)
<1>1. ASSUME NEW f \in MapsTo(n)
      PROVE  f \in MapsTo(m)
  <2>1. f = [x \in DOMAIN f |-> f[x]] /\ \A x \in DOMAIN f : x \in 1..m /\ f[x] \in 0..m
    BY MapsToFacts
  <2> QED  BY <2>1, MapsToFacts
<1>2. <<>> \in MapsTo(n)
  <2>1. DOMAIN <<>> = {}
    OBVIOUS
  <2>2. <<>> = [x \in DOMAIN <<>> |-> <<>>[x]]
    OBVIOUS
  <2> QED  BY <2>1, <2>2, MapsToFacts
<1> QED  BY <1>1, <1>2

LEMMA MapsAreReadable ==
    /\ \A f \in Maps : Readable(f) /\ Parsed(f) = f /\ f # NoFile
    /\ \A f \in {NoFile, Empty, Torn} : ~Readable(f) /\ Parsed(f) = <<>>
    /\ Maps = MapsTo(MaxCalls) /\ <<>> \in Maps
<1>1. Maps = MapsTo(MaxCalls)
  BY DEF Maps, MapsTo
<1> QED  BY <1>1, FileStates, DiskBounds, MapsToMonotone DEF Readable, Parsed

-----------------------------------------------------------------------------
(* TaskCRUD.  Calls that do not overlap are one at a time: the file is     *)
(* what was acknowledged until the one call truncates it, and that call    *)
(* has in hand what will be acknowledged when it returns.                  *)

OneTaskCall == \A c, d \in Clients : InTask(c) /\ InTask(d) => c = d

TaskLoading(op) ==
    /\ Parsed(taskFile) = acked
    /\ calls \in Nat \ {0} /\ acked \in MapsTo(calls - 1)
    /\ op.new # 0 => op.new \in 1..calls /\ op.new \notin DOMAIN acked

TaskSaving(op) ==
    /\ Parsed(taskFile) = acked /\ acked \in MapsTo(calls)
    /\ op.tasks = Acked(op) /\ op.tasks \in MapsTo(calls)

TaskWriting(op) ==
    /\ taskFile = Empty
    /\ op.tasks = Acked(op) /\ op.tasks \in MapsTo(calls)

(* Of what a loss of power may leave all is a file that calls have made.   *)
OnTaskDisk ==
    taskFile \in taskDisk /\ taskDisk \subseteq MapsTo(calls) \cup {NoFile, Empty, Torn}

TaskInv ==
    ~overlapped =>
        /\ OnTaskDisk
        /\ taskOp = [c \in Clients |-> taskOp[c]]
        /\ OneTaskCall
        /\ (\A c \in Clients : ~InTask(c)) =>
              Parsed(taskFile) = acked /\ acked \in MapsTo(calls)
        /\ \A c \in Clients : InTask(c) =>
              \/ taskOp[c].at = "load" /\ TaskLoading(taskOp[c])
              \/ taskOp[c].at = "open" /\ TaskSaving(taskOp[c])
              \/ taskOp[c].at = "write" /\ TaskWriting(taskOp[c])

LEMMA TasksAtFirst == Init => TaskInv
<1> SUFFICES ASSUME Init PROVE TaskInv
  OBVIOUS
<1>1. calls \in Nat /\ Parsed(taskFile) = acked /\ \A c \in Clients : ~InTask(c)
  BY MapsAreReadable DEF Init, TaskInit, DiskInit, InTask
<1>2. acked \in MapsTo(calls) /\ taskOp = [c \in Clients |-> taskOp[c]]
  BY <1>1, MapsToMonotone DEF Init, TaskInit
<1>3. OnTaskDisk
  BY DEF Init, TaskInit, OnTaskDisk
<1> QED  BY <1>1, <1>2, <1>3 DEF TaskInv, OneTaskCall

(* The call under way goes on, and is still the only one.                  *)
LEMMA TaskGoesOn ==
    ASSUME TaskInv, ~overlapped, UNCHANGED overlapped, NEW c \in Clients, InTask(c),
           taskOp' = [taskOp EXCEPT ![c] = taskOp'[c]],
           \/ taskOp'[c].at = "open" /\ TaskSaving(taskOp[c])'
           \/ taskOp'[c].at = "write" /\ TaskWriting(taskOp[c])',
           OnTaskDisk'
    PROVE  TaskInv'
<1>1. /\ taskOp' = [d \in Clients |-> taskOp'[d]] /\ InTask(c)'
      /\ \A d \in Clients \ {c} : ~InTask(d)'
  BY DEF TaskInv, OneTaskCall, InTask, NoTask
<1> QED  BY <1>1 DEF TaskInv, OneTaskCall

LEMMA TaskEnds ==
    ASSUME TaskInv, ~overlapped, UNCHANGED overlapped, NEW c \in Clients, InTask(c),
           TaskDone(c), Parsed(taskFile)' = acked', acked' \in MapsTo(calls'), OnTaskDisk'
    PROVE  TaskInv'
<1>1. /\ taskOp' = [d \in Clients |-> taskOp'[d]]
      /\ \A d \in Clients : ~InTask(d)'
  BY DEF TaskInv, OneTaskCall, TaskDone, TaskGoto, InTask
<1> QED  BY <1>1 DEF TaskInv, OneTaskCall

LEMMA TaskCallKeeps ==
    ASSUME TaskInv, CallsInv, NEW c \in Clients, ~InTask(c), TaskCall(c)
    PROVE  TaskInv'
<1> SUFFICES ASSUME ~overlapped'
             PROVE  TaskInv'
  BY DEF TaskInv
<1>1. PICK tool \in TaskTools, new \in {0, calls'} :
         /\ TaskMutexFree(tool)
         /\ TaskGoto(c, [at |-> "load", tool |-> tool, new |-> new])
         /\ overlapped' = (overlapped \/
              \E d \in Clients : InTask(d) /\ taskOp[d].tool # tool)
  BY DEF TaskCall
<1> DEFINE op == [at |-> "load", tool |-> tool, new |-> new]
<1>2. ~overlapped /\ \A d \in Clients : ~InTask(d)
  BY <1>1 DEF TaskMutexFree
<1>3. calls' = calls + 1 /\ calls' - 1 = calls /\ calls \in Nat /\ calls' \in Nat \ {0}
  BY NewCallFacts DEF TaskCall, CallsInv
<1>4. /\ Parsed(taskFile) = acked /\ acked \in MapsTo(calls)
      /\ UNCHANGED <<taskFile, acked>> /\ Parsed(taskFile)' = Parsed(taskFile)
  BY <1>2 DEF TaskInv, TaskCall, Parsed, Readable
<1>5. new # 0 => new \in 1..calls' /\ new \notin DOMAIN acked
  BY <1>3, <1>4, MapsToFacts
<1>6. TaskLoading(op)'
  BY <1>3, <1>4, <1>5 DEF TaskLoading
<1>7. /\ taskOp' = [d \in Clients |-> taskOp'[d]] /\ taskOp'[c] = op /\ op.at = "load"
      /\ \A d \in Clients \ {c} : ~InTask(d)'
      /\ InTask(c)'
  BY <1>1, <1>2 DEF TaskInv, TaskGoto, InTask, NoTask
<1> HIDE DEF op
<1>8. OnTaskDisk'
  <2>1. OnTaskDisk /\ MapsTo(calls) \subseteq MapsTo(calls')
    BY <1>2, <1>3, MapsToMonotone DEF TaskInv
  <2> QED  BY <2>1 DEF TaskCall, OnTaskDisk
<1> QED  BY <1>6, <1>7, <1>8 DEF TaskInv, OneTaskCall

LEMMA TaskStepKeeps ==
    ASSUME TaskInv, CallsInv, NEW c \in Clients, TaskStep(c)
    PROVE  TaskInv'
<1>0. UNCHANGED <<overlapped, calls>> /\ InTask(c)
  BY DEF TaskStep, TaskLoad, TaskOpen, TaskWrite, diskVars, InTask, NoTask
<1> SUFFICES ASSUME ~overlapped
             PROVE  TaskInv'
  BY <1>0 DEF TaskInv
<1> DEFINE op == taskOp[c]
<1>disk. OnTaskDisk
  BY DEF TaskInv
<1>1. CASE TaskLoad(c)
  <2>disk. OnTaskDisk'
    BY <1>0, <1>1, <1>disk DEF TaskLoad, OnTaskDisk
  <2>1. /\ TaskLoading(op) /\ calls - 1 \in Nat /\ calls \in Nat /\ calls - 1 <= calls
        /\ UNCHANGED <<taskFile, acked>> /\ Parsed(taskFile)' = Parsed(taskFile)
    BY <1>0, <1>1 DEF TaskLoad, TaskInv, CallsInv, TaskLoading, Parsed, Readable
  <2>2. ASSUME NEW id \in 1..calls, NEW changed \in MapsTo(calls),
               TaskGoto(c, [at |-> "open", tool |-> op.tool, id |-> id, tasks |-> changed]),
               changed = With(acked, id, IF id \in DOMAIN acked THEN acked[id] + 1 ELSE 0)
        PROVE  TaskInv'
    <3> DEFINE next == [at |-> "open", tool |-> op.tool, id |-> id, tasks |-> changed]
    <3>1. next.at = "open" /\ next.id = id /\ next.tasks = changed
      OBVIOUS
    <3>2. taskOp' = [taskOp EXCEPT ![c] = next]
      BY <2>2 DEF TaskGoto
    <3> HIDE DEF next
    <3>3. taskOp'[c] = next
      BY <3>2 DEF TaskInv
    <3>4. acked \in MapsTo(calls)
      BY <2>1, MapsToMonotone DEF TaskLoading
    <3>5. TaskSaving(taskOp[c])'
      BY <1>0, <2>1, <2>2, <3>1, <3>3, <3>4 DEF TaskSaving, TaskLoading, Acked
    <3> QED  BY <1>0, <2>disk, <3>1, <3>2, <3>3, <3>5, TaskGoesOn
  <2>3. CASE /\ op.new # 0
             /\ TaskGoto(c, [at |-> "open", tool |-> op.tool, id |-> op.new,
                             tasks |-> With(Parsed(taskFile), op.new, 0)])
    <3>1. op.new \in 1..calls /\ op.new \notin DOMAIN acked /\ Parsed(taskFile) = acked
      BY <2>1, <2>3 DEF TaskLoading
    <3>2. With(acked, op.new, 0) \in MapsTo(calls)
      BY <2>1, <3>1, MapsToWith DEF TaskLoading
    <3> QED  BY <2>2, <2>3, <3>1, <3>2
  <2>4. CASE \E id \in DOMAIN Parsed(taskFile) :
                TaskGoto(c, [at |-> "open", tool |-> op.tool, id |-> id,
                             tasks |-> [Parsed(taskFile) EXCEPT ![id] = @ + 1]])
    <3>1. Parsed(taskFile) = acked /\ acked \in MapsTo(calls - 1)
      BY <2>1 DEF TaskLoading
    <3>2. PICK id \in DOMAIN acked :
            TaskGoto(c, [at |-> "open", tool |-> op.tool, id |-> id,
                         tasks |-> [acked EXCEPT ![id] = @ + 1]])
      BY <2>4, <3>1
    <3>3. id \in 1..calls /\ acked[id] + 1 \in 0..calls
      BY <2>1, <3>1, MapsToFacts
    <3>4. [acked EXCEPT ![id] = @ + 1] = With(acked, id, acked[id] + 1)
      BY <2>1, <3>1, MapsToFacts DEF With
    <3>5. With(acked, id, acked[id] + 1) \in MapsTo(calls)
      BY <2>1, <3>1, <3>3, MapsToWith
    <3> QED  BY <2>2, <3>2, <3>3, <3>4, <3>5
  <2>5. CASE TaskDone(c)
    <3>1. acked \in MapsTo(calls)
      BY <2>1, MapsToMonotone DEF TaskLoading
    <3> QED  BY <1>0, <2>1, <2>5, <2>disk, <3>1, TaskEnds DEF TaskLoading
  <2> QED  BY <1>1, <2>3, <2>4, <2>5 DEF TaskLoad
<1>2. CASE TaskOpen(c)
  <2>1. TaskSaving(op) /\ UNCHANGED acked /\ op.at = "open"
    BY <1>0, <1>2 DEF TaskOpen, TaskInv
  <2>disk. OnTaskDisk'
    BY <1>0, <1>2, <1>disk DEF TaskOpen, OnTaskDisk
  <2>2. CASE taskFile' = Empty /\ TaskGoto(c, [op EXCEPT !.at = "write"])
    <3> DEFINE next == [op EXCEPT !.at = "write"]
    <3>1. next.tasks = op.tasks /\ next.id = op.id
      OBVIOUS
    <3>2. taskOp' = [taskOp EXCEPT ![c] = next]
      BY <2>2 DEF TaskGoto
    <3>3. next.at = "write"
      BY <2>1
    <3> HIDE DEF next
    <3>4. taskOp'[c] = next
      BY <3>2 DEF TaskInv
    <3>5. TaskWriting(taskOp[c])'
      BY <1>0, <2>1, <2>2, <3>1, <3>4 DEF TaskWriting, TaskSaving, Acked
    <3> QED  BY <1>0, <2>disk, <3>2, <3>3, <3>4, <3>5, TaskGoesOn
  <2>3. CASE TaskDone(c) /\ UNCHANGED taskFile
    <3>1. acked \in MapsTo(calls)
      BY <2>1 DEF TaskSaving
    <3> QED  BY <1>0, <2>1, <2>3, <2>disk, <3>1, TaskEnds DEF TaskSaving, Parsed, Readable
  <2> QED  BY <1>2, <2>2, <2>3 DEF TaskOpen
<1>3. CASE TaskWrite(c)
  <2>1. TaskWriting(op) /\ TaskDone(c) /\ calls \in Nat /\ MaxCalls \in Nat /\ calls <= MaxCalls
    BY <1>0, <1>3, DiskBounds DEF TaskWrite, TaskInv, CallsInv
  <2>2. CASE taskFile' \in Written(taskFile, op.tasks) /\ acked' = Acked(op)
    <3>1. taskFile' = op.tasks /\ acked' = op.tasks /\ op.tasks \in Maps
      BY <2>1, <2>2, MapsToMonotone, MapsAreReadable DEF TaskWriting, Written
    <3>2. Parsed(taskFile)' = acked'
      BY <3>1, MapsAreReadable DEF Parsed, Readable
    <3>3. OnTaskDisk'
      BY <1>0, <1>3, <1>disk, <2>1, <3>1 DEF TaskWrite, TaskWriting, OnTaskDisk
    <3> QED  BY <1>0, <2>1, <3>1, <3>2, <3>3, TaskEnds DEF TaskWriting
  <2>3. CASE taskFile' = Torn /\ acked' = <<>>
    <3>1. Parsed(taskFile)' = acked' /\ acked' \in MapsTo(calls')
      BY <1>0, <2>1, <2>3, MapsToMonotone, MapsAreReadable DEF Parsed, Readable
    <3>2. OnTaskDisk'
      BY <1>0, <1>3, <1>disk, <2>3 DEF TaskWrite, OnTaskDisk
    <3> QED  BY <1>0, <2>1, <3>1, <3>2, TaskEnds
  <2> QED  BY <1>3, <2>2, <2>3 DEF TaskWrite, AckedFailed
<1> QED  BY <1>1, <1>2, <1>3 DEF TaskStep

(* Calls that a crash ends: the file is torn, or as it was; a call that    *)
(* had truncated it leaves it so.                                          *)
LEMMA TasksCrashKeeps ==
    ASSUME TaskInv, CallsInv, UNCHANGED calls, TasksCrash
    PROVE  TaskInv'
<1> SUFFICES ASSUME ~overlapped
             PROVE  TaskInv'
  BY DEF TaskInv, TasksCrash, TasksEnd
<1>1. /\ taskFile' \in {taskFile, Torn} /\ UNCHANGED overlapped
      /\ acked' = IF taskFile' \in {Empty, Torn} THEN <<>> ELSE acked
      /\ taskOp' = [c \in Clients |-> NoTask]
  BY DEF TasksCrash, TasksEnd, LeftOf
<1>2. taskOp' = [c \in Clients |-> taskOp'[c]] /\ \A c \in Clients : ~InTask(c)'
  BY <1>1 DEF InTask
<1>3. Parsed(taskFile)' = acked' /\ acked' \in MapsTo(calls')
  <2>1. CASE taskFile' \in {Empty, Torn}
    BY <1>1, <2>1, MapsAreReadable, MapsToMonotone DEF Parsed, Readable, CallsInv
  <2>2. CASE taskFile' \notin {Empty, Torn}
    <3>1. taskFile' = taskFile /\ acked' = acked /\ taskFile # Empty
      BY <1>1, <2>2
    <3>2. Parsed(taskFile) = acked /\ acked \in MapsTo(calls)
      <4>1. CASE \A c \in Clients : ~InTask(c)
        BY <4>1 DEF TaskInv
      <4>2. CASE \E c \in Clients : InTask(c)
        <5>1. PICK c \in Clients : TaskLoading(taskOp[c]) \/ TaskSaving(taskOp[c])
          BY <3>1, <4>2 DEF TaskInv, TaskWriting
        <5>2. CASE TaskLoading(taskOp[c])
          <6>1. calls - 1 \in Nat /\ calls - 1 <= calls /\ calls \in Nat
            BY <5>2 DEF TaskLoading
          <6> QED  BY <5>2, <6>1, MapsToMonotone DEF TaskLoading
        <5> QED  BY <5>1, <5>2 DEF TaskSaving
      <4> QED  BY <4>1, <4>2
    <3> QED  BY <3>1, <3>2 DEF Parsed, Readable
  <2> QED  BY <2>1, <2>2
<1>4. OnTaskDisk'
  BY <1>1 DEF TaskInv, TasksCrash, OnTaskDisk
<1> QED  BY <1>1, <1>2, <1>3, <1>4 DEF TaskInv, OneTaskCall

(* What a loss of power leaves counts as acknowledged.                     *)
LEMMA TasksPowerLossKeeps ==
    ASSUME TaskInv, CallsInv, UNCHANGED calls, TasksPowerLoss
    PROVE  TaskInv'
<1> SUFFICES ASSUME ~overlapped
             PROVE  TaskInv'
  BY DEF TaskInv, TasksPowerLoss, TasksEnd
<1>1. /\ taskFile' \in MapsTo(calls) \cup {NoFile, Empty, Torn}
      /\ taskDisk' = {taskFile'} /\ acked' = Parsed(taskFile')
      /\ taskOp' = [c \in Clients |-> NoTask]
  BY DEF TaskInv, OnTaskDisk, TasksPowerLoss, TasksEnd
<1>2. taskOp' = [c \in Clients |-> taskOp'[c]] /\ \A c \in Clients : ~InTask(c)'
  BY <1>1 DEF InTask
<1>3. acked' \in MapsTo(calls')
  <2>1. calls \in Nat /\ <<>> \in MapsTo(calls)
    BY MapsToMonotone DEF CallsInv
  <2> QED  BY <1>1, <2>1 DEF Parsed, Readable
<1>4. OnTaskDisk' /\ Parsed(taskFile)' = acked'
  BY <1>1 DEF OnTaskDisk, Parsed, Readable
<1> QED  BY <1>1, <1>2, <1>3, <1>4 DEF TaskInv, OneTaskCall

LEMMA TasksUnused ==
    ASSUME TaskInv, CallsInv, UNCHANGED taskVars, calls <= calls', CallsInv'
    PROVE  TaskInv'
<1>1. /\ UNCHANGED <<taskFile, taskDisk, taskOp, acked, overlapped>>
      /\ \A c \in Clients : InTask(c)' <=> InTask(c)
  BY DEF taskVars, InTask
<1>2. calls \in Nat /\ calls' \in Nat /\ MapsTo(calls) \subseteq MapsTo(calls')
  BY MapsToMonotone DEF CallsInv
<1>3. Parsed(taskFile)' = Parsed(taskFile)
  BY <1>1 DEF Parsed, Readable
<1>4. ASSUME NEW c \in Clients
      PROVE  /\ TaskLoading(taskOp[c]) => TaskLoading(taskOp[c])'
             /\ TaskSaving(taskOp[c]) => TaskSaving(taskOp[c])'
             /\ TaskWriting(taskOp[c]) => TaskWriting(taskOp[c])'
  <2>1. TaskLoading(taskOp[c]) => TaskLoading(taskOp[c])'
    <3> SUFFICES ASSUME TaskLoading(taskOp[c])
                 PROVE  TaskLoading(taskOp[c])'
      OBVIOUS
    <3>1. calls - 1 \in Nat /\ calls' - 1 \in Nat /\ calls - 1 <= calls' - 1
          /\ calls' \in Nat \ {0}
      BY <1>2 DEF TaskLoading
    <3>2. acked \in MapsTo(calls' - 1)
      BY <3>1, MapsToMonotone DEF TaskLoading
    <3> QED  BY <1>1, <1>2, <1>3, <3>1, <3>2 DEF TaskLoading
  <2>2. TaskSaving(taskOp[c]) => TaskSaving(taskOp[c])'
    BY <1>1, <1>2, <1>3 DEF TaskSaving, Acked
  <2>3. TaskWriting(taskOp[c]) => TaskWriting(taskOp[c])'
    BY <1>1, <1>2 DEF TaskWriting, Acked
  <2> QED  BY <2>1, <2>2, <2>3
<1>5. OnTaskDisk => OnTaskDisk'
  BY <1>1, <1>2 DEF OnTaskDisk
<1> QED  BY <1>1, <1>2, <1>3, <1>4, <1>5 DEF TaskInv, OneTaskCall

LEMMA TasksNext ==
    ASSUME CallsInv, TaskInv, [Next]_vars
    PROVE  TaskInv'
<1>1. CASE Tasks
  BY <1>1, TaskCallKeeps, TaskStepKeeps DEF Tasks
<1>2. CASE Crash
  BY <1>2, TasksCrashKeeps DEF Crash
<1>3. CASE PowerLoss
  BY <1>3, TasksPowerLossKeeps DEF PowerLoss
<1>4. CASE UNCHANGED taskVars
  BY <1>4, TasksUnused, CallsCounted
<1> QED  BY <1>1, <1>2, <1>3, <1>4
         DEF Next, Memorizes, Configures, Texts, Logs, Discovers, vars

LEMMA TasksPromise == TaskInv => TasksKept
<1> SUFFICES ASSUME TaskInv, ~overlapped, \A c \in Clients : taskOp[c].at # "write"
             PROVE  Parsed(taskFile) = acked
  BY DEF TasksKept
<1>1. CASE \A c \in Clients : ~InTask(c)
  BY <1>1 DEF TaskInv
<1>2. CASE \E c \in Clients : InTask(c)
  BY <1>2 DEF TaskInv, TaskLoading, TaskSaving
<1> QED  BY <1>1, <1>2

-----------------------------------------------------------------------------
(* Memory.  While one instance at most has stored, its map covers what was *)
(* acknowledged and not lost, and so does every file it has left whole; a  *)
(* call under way writes that map, and is the only one to have truncated   *)
(* the file.  Once two have stored, only a restart helps.                  *)

MemoryTypes ==
    /\ memFile \in Maps \cup {NoFile, Empty, Torn}
    /\ entries \in [Memories -> Maps \cup {NotMade}]
    /\ memOp \in [Clients -> {NoStore} \cup
                      [at : {"open", "write"}, memory : Memories, key : Keys,
                       value : 0..MaxCalls, data : Maps]]
    /\ memDisk \subseteq Maps \cup {NoFile, Empty, Torn}
    /\ stored \in Maps /\ \A k \in DOMAIN stored : stored[k] <= calls
    /\ cut \in BOOLEAN
    /\ storing \subseteq Memories /\ IsFiniteSet(storing)

StoresHold ==
    /\ \A m \in storing : entries[m] # NotMade
    /\ \A c \in Clients : InStore(c) =>
          LET op == memOp[c] IN
          /\ op.memory \in storing
          /\ op.data = entries[op.memory]
          /\ op.key \in DOMAIN op.data /\ op.data[op.key] = op.value /\ op.value <= calls
    /\ \A c, d \in Clients :
          InStore(c) /\ InStore(d) /\ memOp[c].memory = memOp[d].memory => c = d

NothingToLose == DOMAIN stored \subseteq lost

Alone == \A m, n \in storing : m = n

AloneCovers ==
    Alone =>
        /\ \A m \in storing : Covers(entries[m])
        /\ Readable(memFile) => Covers(memFile)
        /\ Readable(memFile) \/ NothingToLose \/ Writing \/ cut
        /\ \A c \in Clients : memOp[c].at = "write" => memFile = Empty
        /\ storing = {} => /\ \A m \in Memories : entries[m] # NotMade => Covers(entries[m])
                           /\ Readable(memFile) \/ NothingToLose

MemoryInv == MemoryTypes /\ StoresHold /\ AloneCovers

LEMMA AloneIsAtMostOne ==
    ASSUME IsFiniteSet(storing)
    PROVE  Cardinality(storing) <= 1 <=> Alone
<1>1. Cardinality(storing) \in Nat
  BY FS_CardinalityType
<1>2. ASSUME Cardinality(storing) <= 1
      PROVE  Alone
  <2>1. Cardinality(storing) = 0 \/ Cardinality(storing) = 1
    BY <1>1, <1>2
  <2>2. storing = {} \/ \E m : storing = {m}
    BY <2>1, FS_EmptySet, FS_Singleton
  <2> QED  BY <2>2 DEF Alone
<1>3. ASSUME Alone
      PROVE  Cardinality(storing) <= 1
  <2>1. storing = {} \/ \E m : storing = {m}
    BY <1>3 DEF Alone
  <2>2. Cardinality(storing) = 0 \/ Cardinality(storing) = 1
    BY <2>1, FS_EmptySet, FS_Singleton
  <2> QED  BY <2>2
<1> QED  BY <1>2, <1>3

LEMMA NothingStored == NothingToLose => \A data : Covers(data)
  BY DEF NothingToLose, Covers

LEMMA MemoryAtFirst == Init => MemoryInv
<1> SUFFICES ASSUME Init PROVE MemoryInv
  OBVIOUS
<1>1. IsFiniteSet({}) /\ DOMAIN <<>> = {}
  BY FS_EmptySet
<1>2. NothingToLose /\ \A c \in Clients : memOp[c].at # "write"
  BY <1>1 DEF Init, MemoryInit, NothingToLose, NoStore
<1> QED  BY <1>1, <1>2, NothingStored, MapsAreReadable
         DEF Init, MemoryInit, MemoryInv, MemoryTypes, StoresHold, AloneCovers, InStore

LEMMA NewMemoryKeeps ==
    ASSUME MemoryInv, NEW m \in Memories, NewMemory(m)
    PROVE  MemoryInv'
<1>1. /\ entries[m] = NotMade /\ m \notin storing
      /\ UNCHANGED <<memFile, memDisk, memOp, stored, lost, cut, storing, calls>>
  BY DEF NewMemory, diskVars, MemoryInv, StoresHold
<1>2. Parsed(memFile) \in Maps /\ Parsed(memFile) # NotMade
  BY MapsAreReadable, KeyBounds DEF MemoryInv, MemoryTypes
<1>3. /\ entries' \in [Memories -> Maps \cup {NotMade}] /\ entries'[m] = Parsed(memFile)
      /\ \A n \in Memories \ {m} : entries'[n] = entries[n]
  BY <1>2 DEF NewMemory, MemoryInv, MemoryTypes
<1>4. MemoryTypes'
  BY <1>1, <1>3 DEF MemoryInv, MemoryTypes
<1>5. StoresHold'
  <2>1. \A c \in Clients : (InStore(c)' <=> InStore(c)) /\ memOp'[c] = memOp[c]
    BY <1>1 DEF InStore
  <2>2. storing \subseteq Memories \ {m}
    BY <1>1 DEF MemoryInv, MemoryTypes
  <2>3. \A c \in Clients : InStore(c) => memOp[c].memory \in storing
    BY DEF MemoryInv, StoresHold
  <2> QED  BY <1>1, <1>3, <2>1, <2>2, <2>3 DEF MemoryInv, StoresHold
<1>6. AloneCovers'
  <2>1. \A data : Covers(data)' <=> Covers(data)
    BY <1>1 DEF Covers
  <2>2. Alone' <=> Alone
    BY <1>1 DEF Alone
  <2>3. Alone /\ storing = {} => Covers(Parsed(memFile))
    BY NothingStored DEF MemoryInv, AloneCovers, Parsed
  <2>4. ASSUME Alone
        PROVE  /\ \A n \in storing : Covers(entries'[n])
               /\ storing = {} => \A n \in Memories : entries'[n] # NotMade => Covers(entries'[n])
    BY <1>1, <1>3, <2>3, <2>4 DEF MemoryInv, MemoryTypes, AloneCovers
  <2>5. /\ Readable(memFile)' <=> Readable(memFile)
        /\ NothingToLose' <=> NothingToLose
        /\ Writing' <=> Writing
    BY <1>1 DEF Readable, NothingToLose, Writing
  <2> QED  BY <1>1, <2>1, <2>2, <2>4, <2>5 DEF MemoryInv, AloneCovers
<1> QED  BY <1>4, <1>5, <1>6 DEF MemoryInv

LEMMA StoreKeeps ==
    ASSUME MemoryInv, CallsInv, NEW c \in Clients, ~InStore(c), Store(c)
    PROVE  MemoryInv'
<1>1. PICK m \in Memories, k \in Keys :
         /\ entries[m] # NotMade
         /\ MemMutexFree(m)
         /\ entries' = [entries EXCEPT ![m] = With(@, k, calls')]
         /\ memOp' = [memOp EXCEPT ![c] = [at |-> "open", memory |-> m, key |-> k,
                                          value |-> calls', data |-> AllEntries(m, k)']]
         /\ storing' = storing \cup {m}
  BY DEF Store
<1> DEFINE map == With(entries[m], k, calls')
           op == [at |-> "open", memory |-> m, key |-> k, value |-> calls', data |-> map]
<1>2. /\ calls' \in 0..MaxCalls /\ calls' \in Nat /\ calls < calls' /\ calls \in Nat
      /\ UNCHANGED <<memFile, memDisk, stored, lost, cut>>
  BY NewCallFacts DEF Store, CallsInv
<1>3. /\ map \in Maps /\ map # NotMade /\ k \in DOMAIN map /\ map[k] = calls'
      /\ DOMAIN map = DOMAIN entries[m] \cup {k}
      /\ \A j \in DOMAIN entries[m] : j # k => map[j] = entries[m][j]
  <2>1. entries[m] \in Maps /\ k \in 1..MaxCalls
    BY <1>1, KeyBounds DEF MemoryInv, MemoryTypes
  <2>2. map \in Maps
    BY <1>2, <2>1, DiskBounds, MapsAreReadable, MapsToWith
  <2> QED  BY <2>2, KeyBounds DEF With
<1> HIDE DEF map
<1>4. /\ entries' \in [Memories -> Maps \cup {NotMade}] /\ entries'[m] = map
      /\ \A n \in Memories \ {m} : entries'[n] = entries[n]
  BY <1>1, <1>3 DEF MemoryInv, MemoryTypes, map
<1>5. memOp' = [memOp EXCEPT ![c] = op]
  <2>1. AllEntries(m, k)' = With(entries'[m], k, calls')
    BY DEF AllEntries
  <2>2. With(entries'[m], k, calls') = map
    BY <1>4 DEF With, map
  <2> QED  BY <1>1, <2>1, <2>2
<1>6. /\ op \in [at : {"open", "write"}, memory : Memories, key : Keys,
                 value : 0..MaxCalls, data : Maps]
      /\ op.memory = m /\ op.key = k /\ op.value = calls' /\ op.data = map /\ op # NoStore
      /\ op.at # "write"
  BY <1>2, <1>3 DEF NoStore
<1> HIDE DEF op
<1>7. /\ memOp'[c] = op /\ InStore(c)'
      /\ \A d \in Clients \ {c} : memOp'[d] = memOp[d] /\ (InStore(d)' <=> InStore(d))
  BY <1>5, <1>6 DEF MemoryInv, MemoryTypes, InStore
<1>8. storing' \subseteq Memories /\ IsFiniteSet(storing')
  BY <1>1, FS_AddElement DEF MemoryInv, MemoryTypes
<1>9. MemoryTypes'
  <2>1. memOp' \in [Clients -> {NoStore} \cup
                      [at : {"open", "write"}, memory : Memories, key : Keys,
                       value : 0..MaxCalls, data : Maps]]
    BY <1>5, <1>6 DEF MemoryInv, MemoryTypes
  <2>2. \A j \in DOMAIN stored : stored[j] \in Nat /\ stored[j] <= calls
    BY DiskBounds, MapsAreReadable, MapsToFacts DEF MemoryInv, MemoryTypes
  <2>3. \A j \in DOMAIN stored : stored[j] <= calls'
    BY <1>2, <2>2
  <2> QED  BY <1>2, <1>4, <1>8, <2>1, <2>3 DEF MemoryInv, MemoryTypes
<1>10. StoresHold'
  <2>1. \A d \in Clients \ {c} : InStore(d) => memOp[d].memory # m
    BY <1>1 DEF MemMutexFree
  <2>2. \A d \in Clients : InStore(d) => memOp[d].memory \in Memories /\ memOp[d].value \in Nat
    BY DEF MemoryInv, MemoryTypes, InStore
  <2>3. \A n \in storing' : entries'[n] # NotMade
    BY <1>1, <1>3, <1>4, <1>8 DEF MemoryInv, StoresHold
  <2>4. ASSUME NEW d \in Clients, InStore(d)'
        PROVE  /\ memOp'[d].memory \in storing'
               /\ memOp'[d].data = entries'[memOp'[d].memory]
               /\ memOp'[d].key \in DOMAIN memOp'[d].data
               /\ memOp'[d].data[memOp'[d].key] = memOp'[d].value
               /\ memOp'[d].value <= calls'
    <3>1. CASE d = c
      BY <1>1, <1>2, <1>3, <1>4, <1>6, <1>7, <3>1
    <3>2. CASE d # c
      BY <1>1, <1>2, <1>4, <1>7, <2>1, <2>2, <2>4, <3>2 DEF MemoryInv, StoresHold
    <3> QED  BY <3>1, <3>2
  <2>5. ASSUME NEW d \in Clients, NEW e \in Clients, InStore(d)', InStore(e)',
               memOp'[d].memory = memOp'[e].memory
        PROVE  d = e
    BY <1>6, <1>7, <2>1, <2>5 DEF MemoryInv, StoresHold
  <2> QED  BY <2>3, <2>4, <2>5 DEF StoresHold
<1>11. AloneCovers'
  <2> SUFFICES ASSUME Alone'
               PROVE  /\ \A n \in storing' : Covers(entries[n])'
                      /\ Readable(memFile)' => Covers(memFile)'
                      /\ (Readable(memFile) \/ NothingToLose \/ Writing \/ cut)'
                      /\ \A d \in Clients : memOp'[d].at = "write" => memFile' = Empty
                      /\ storing' # {}
    BY DEF AloneCovers
  <2>1. Alone /\ storing' = {m} /\ storing \subseteq {m}
    BY <1>1 DEF Alone
  <2>2. Covers(entries[m]) /\ (Readable(memFile) => Covers(memFile))
    <3>1. CASE storing = {}
      BY <1>1, <2>1, <3>1 DEF MemoryInv, AloneCovers
    <3>2. CASE m \in storing
      BY <2>1, <3>2 DEF MemoryInv, AloneCovers
    <3> QED  BY <2>1, <3>1, <3>2
  <2>3. \A j \in DOMAIN stored : stored[j] \in Nat /\ stored[j] <= calls
    BY DiskBounds, MapsAreReadable, MapsToFacts DEF MemoryInv, MemoryTypes
  <2>4. \A j \in DOMAIN stored \ lost : j \in DOMAIN map /\ stored[j] <= map[j]
    BY <1>2, <1>3, <2>2, <2>3 DEF Covers
  <2>5. Covers(entries[m])' /\ (Readable(memFile)' => Covers(memFile)')
    BY <1>2, <1>4, <2>2, <2>4 DEF Covers, Readable
  <2>6. \A d \in Clients : memOp'[d].at = "write" <=> memOp[d].at = "write"
    BY <1>6, <1>7 DEF InStore, NoStore
  <2>7. /\ (Readable(memFile) \/ NothingToLose \/ Writing \/ cut)'
        /\ \A d \in Clients : memOp'[d].at = "write" => memFile' = Empty
    BY <1>2, <2>1, <2>6 DEF MemoryInv, AloneCovers, Readable, NothingToLose, Writing
  <2> QED  BY <2>1, <2>5, <2>7
<1> QED  BY <1>9, <1>10, <1>11 DEF MemoryInv

LEMMA MemOpenKeeps ==
    ASSUME MemoryInv, NEW c \in Clients, MemOpen(c)
    PROVE  MemoryInv'
<1>1. /\ memOp[c].at = "open" /\ InStore(c)
      /\ UNCHANGED <<entries, stored, lost, cut, storing, calls>>
      /\ memDisk' = memDisk \cup {memFile'}
      /\ (\A data : Covers(data)' <=> Covers(data)) /\ (Alone' <=> Alone)
      /\ NothingToLose' <=> NothingToLose
  BY DEF MemOpen, InStore, NoStore, Covers, Alone, NothingToLose
<1>2. CASE memFile' = Empty /\ memOp' = [memOp EXCEPT ![c].at = "write"]
  <2>1. /\ memOp' \in [Clients -> {NoStore} \cup
                      [at : {"open", "write"}, memory : Memories, key : Keys,
                       value : 0..MaxCalls, data : Maps]]
        /\ \A d \in Clients :
             /\ InStore(d)' <=> InStore(d)
             /\ InStore(d) => /\ memOp'[d].memory = memOp[d].memory
                              /\ memOp'[d].key = memOp[d].key
                              /\ memOp'[d].value = memOp[d].value
                              /\ memOp'[d].data = memOp[d].data
    BY <1>1, <1>2 DEF MemoryInv, MemoryTypes, InStore, NoStore
  <2>2. ~Readable(memFile)' /\ storing # {} /\ Writing'
    BY <1>1, <1>2 DEF Readable, Writing, MemoryInv, MemoryTypes, StoresHold
  <2>3. MemoryTypes'
    BY <1>1, <1>2, <2>1 DEF MemoryInv, MemoryTypes
  <2>4. StoresHold'
    BY <1>1, <2>1 DEF MemoryInv, StoresHold
  <2>5. AloneCovers'
    BY <1>1, <1>2, <2>2 DEF MemoryInv, AloneCovers
  <2> QED  BY <2>3, <2>4, <2>5 DEF MemoryInv
<1>3. CASE memOp' = [memOp EXCEPT ![c] = NoStore] /\ UNCHANGED memFile
  <2>1. /\ memOp' \in [Clients -> {NoStore} \cup
                      [at : {"open", "write"}, memory : Memories, key : Keys,
                       value : 0..MaxCalls, data : Maps]]
        /\ \A d \in Clients : InStore(d)' => InStore(d) /\ memOp'[d] = memOp[d]
        /\ Readable(memFile)' <=> Readable(memFile)
        /\ \A d \in Clients : memOp'[d].at = "write" <=> memOp[d].at = "write"
    BY <1>1, <1>3 DEF MemoryInv, MemoryTypes, InStore, NoStore, Readable
  <2>2. MemoryTypes' /\ StoresHold'
    BY <1>1, <1>3, <2>1 DEF MemoryInv, MemoryTypes, StoresHold
  <2>3. AloneCovers'
    <3>1. Writing' <=> Writing
      BY <2>1 DEF Writing
    <3> QED  BY <1>1, <1>3, <2>1, <3>1 DEF MemoryInv, AloneCovers
  <2> QED  BY <2>2, <2>3 DEF MemoryInv
<1> QED  BY <1>2, <1>3 DEF MemOpen

LEMMA MemWriteKeeps ==
    ASSUME MemoryInv, CallsInv, NEW c \in Clients, MemWrite(c)
    PROVE  MemoryInv'
<1> DEFINE op == memOp[c]
<1>1. /\ op.at = "write" /\ InStore(c) /\ UNCHANGED <<entries, storing, calls>>
      /\ memOp' = [memOp EXCEPT ![c] = NoStore] /\ (Alone' <=> Alone)
      /\ memDisk' = memDisk \cup {memFile', Torn}
      /\ op.memory \in Memories /\ op.key \in 1..MaxCalls /\ op.value \in 0..MaxCalls
      /\ op.data \in Maps
  <2>1. op.at = "write" /\ InStore(c) /\ memOp' = [memOp EXCEPT ![c] = NoStore]
    BY DEF MemWrite, InStore, NoStore
  <2>2. op \in [at : {"open", "write"}, memory : Memories, key : Keys,
                value : 0..MaxCalls, data : Maps]
    BY <2>1 DEF InStore, MemoryInv, MemoryTypes
  <2>3. /\ UNCHANGED <<entries, storing, calls>> /\ (Alone' <=> Alone)
        /\ memDisk' = memDisk \cup {memFile', Torn}
    BY DEF MemWrite, Alone
  <2> QED  BY <2>1, <2>2, <2>3, KeyBounds
<1>2. /\ op.memory \in storing /\ op.data = entries[op.memory] /\ op.value <= calls
      /\ op.key \in DOMAIN op.data /\ op.data[op.key] = op.value
  BY <1>1 DEF MemoryInv, StoresHold
<1>3. /\ memOp' \in [Clients -> {NoStore} \cup
                      [at : {"open", "write"}, memory : Memories, key : Keys,
                       value : 0..MaxCalls, data : Maps]]
      /\ \A d \in Clients : InStore(d)' => InStore(d) /\ memOp'[d] = memOp[d]
  BY <1>1 DEF MemoryInv, MemoryTypes, InStore
<1>4. StoresHold'
  BY <1>1, <1>3 DEF MemoryInv, StoresHold
(* Alone, the call is the only one to have truncated the file.             *)
<1>alone. ASSUME Alone
          PROVE  storing = {op.memory} /\ \A d \in Clients : memOp'[d].at # "write"
  <2>1. \A d \in Clients \ {c} : ~InStore(d)
    BY <1>1, <1>2, <1>alone DEF Alone, MemoryInv, StoresHold
  <2>2. \A d \in Clients : memOp'[d] = NoStore
    BY <1>1, <2>1 DEF MemoryInv, MemoryTypes, InStore
  <2> QED  BY <1>2, <1>alone, <2>2 DEF Alone, NoStore
<1>5. CASE memFile' = Torn /\ cut' = TRUE /\ UNCHANGED <<stored, lost>>
  <2>1. /\ ~Readable(memFile)'
        /\ \A data : Covers(data)' <=> Covers(data)
    BY <1>5 DEF Readable, Covers
  <2>2. MemoryTypes'
    BY <1>1, <1>3, <1>5 DEF MemoryInv, MemoryTypes
  <2>3. AloneCovers'
    BY <1>1, <1>2, <1>5, <1>alone, <2>1 DEF MemoryInv, AloneCovers
  <2> QED  BY <1>4, <2>2, <2>3 DEF MemoryInv
<1>6. CASE /\ memFile' \in Written(memFile, op.data) /\ stored' = With(stored, op.key, op.value)
           /\ lost' = lost \ {op.key} /\ cut' = FALSE
  <2>1. memFile' \in {op.data, Torn}
    BY <1>6 DEF Written
  <2>2. /\ stored' \in Maps /\ DOMAIN stored' = DOMAIN stored \cup {op.key}
        /\ stored'[op.key] = op.value
        /\ \A k \in DOMAIN stored : k # op.key => stored'[k] = stored[k]
    <3>1. stored' \in Maps
      BY <1>1, <1>6, DiskBounds, MapsAreReadable, MapsToWith DEF MemoryInv, MemoryTypes
    <3> QED  BY <1>6, <3>1 DEF With
  <2>3. MemoryTypes'
    <3>1. \A k \in DOMAIN stored' : stored'[k] <= calls'
      BY <1>1, <1>2, <2>2 DEF MemoryInv, MemoryTypes
    <3>2. cut' \in BOOLEAN
      BY <1>6
    <3>3. /\ memFile' \in Maps \cup {NoFile, Empty, Torn}
          /\ memDisk' \subseteq Maps \cup {NoFile, Empty, Torn}
      BY <1>1, <2>1 DEF MemoryInv, MemoryTypes
    <3> QED  BY <1>1, <1>3, <2>2, <3>1, <3>2, <3>3 DEF MemoryInv, MemoryTypes
  <2>4. AloneCovers'
    <3> SUFFICES ASSUME Alone
                 PROVE  AloneCovers'
      BY <1>1 DEF AloneCovers
    <3>1. storing' = {op.memory} /\ memFile' = op.data
      BY <1>1, <1>6, <1>alone DEF MemoryInv, AloneCovers, Written
    <3>2. Covers(op.data)
      BY <1>2 DEF MemoryInv, AloneCovers
    <3>3. op.value <= op.data[op.key]
      BY <1>1, <1>2
    <3>4. \A k \in DOMAIN stored' \ lost' : k \in DOMAIN op.data /\ stored'[k] <= op.data[k]
      BY <1>2, <1>6, <2>2, <3>2, <3>3 DEF Covers
    <3>5. (\A m \in storing' : Covers(entries[m])') /\ Covers(memFile)'
      BY <1>1, <1>2, <3>1, <3>4 DEF Covers
    <3>6. Readable(memFile)'
      BY <1>1, <3>1, MapsAreReadable DEF Readable
    <3> QED  BY <1>1, <1>alone, <3>1, <3>5, <3>6 DEF AloneCovers
  <2> QED  BY <1>4, <2>3, <2>4 DEF MemoryInv
<1> QED  BY <1>5, <1>6 DEF MemWrite

(* With the process go all instances, and what a file held that does not   *)
(* parse.                                                                  *)
LEMMA MemoryCrashKeeps ==
    ASSUME MemoryInv, UNCHANGED calls, MemoryCrash
    PROVE  MemoryInv'
<1>1. /\ memFile' \in {memFile, Torn} /\ memDisk' = memDisk \cup {memFile'}
      /\ lost' = IF Readable(memFile') /\ Cardinality(storing) <= 1 THEN lost ELSE DOMAIN stored
      /\ entries' = [m \in Memories |-> NotMade] /\ memOp' = [c \in Clients |-> NoStore]
      /\ storing' = {} /\ cut' \in BOOLEAN /\ stored' = stored
  BY DEF MemoryCrash, MemoryEnds, LeftOf, MemoryInv, MemoryTypes
<1>2. MemoryTypes'
  BY <1>1, FS_EmptySet DEF MemoryInv, MemoryTypes
<1>3. StoresHold' /\ \A c \in Clients : memOp'[c].at # "write"
  BY <1>1 DEF StoresHold, InStore, NoStore
<1>4. CASE Readable(memFile') /\ Cardinality(storing) <= 1
  <2>1. Alone /\ memFile' = memFile /\ lost' = lost
    BY <1>1, <1>4, AloneIsAtMostOne DEF MemoryInv, MemoryTypes, Readable
  <2>2. Covers(memFile)'
    BY <1>1, <1>4, <2>1 DEF MemoryInv, AloneCovers, Covers
  <2>3. AloneCovers'
    BY <1>1, <1>3, <1>4, <2>2 DEF AloneCovers, Readable
  <2> QED  BY <1>2, <1>3, <2>3 DEF MemoryInv
<1>5. CASE ~(Readable(memFile') /\ Cardinality(storing) <= 1)
  <2>1. NothingToLose' /\ Covers(memFile)'
    BY <1>1, <1>5 DEF NothingToLose, Covers
  <2>2. AloneCovers'
    BY <1>1, <1>3, <2>1 DEF AloneCovers
  <2> QED  BY <1>2, <1>3, <2>2 DEF MemoryInv
<1> QED  BY <1>4, <1>5

LEMMA MemoryPowerLossKeeps ==
    ASSUME MemoryInv, UNCHANGED calls, MemoryPowerLoss
    PROVE  MemoryInv'
<1>1. /\ memFile' \in memDisk /\ memDisk' = {memFile'} /\ lost' = DOMAIN stored
      /\ entries' = [m \in Memories |-> NotMade] /\ memOp' = [c \in Clients |-> NoStore]
      /\ storing' = {} /\ cut' \in BOOLEAN /\ stored' = stored
  BY DEF MemoryPowerLoss, MemoryEnds, MemoryInv, MemoryTypes
<1>2. MemoryTypes'
  BY <1>1, FS_EmptySet DEF MemoryInv, MemoryTypes
<1>3. StoresHold' /\ \A c \in Clients : memOp'[c].at # "write"
  BY <1>1 DEF StoresHold, InStore, NoStore
<1>4. NothingToLose' /\ Covers(memFile)'
  BY <1>1 DEF NothingToLose, Covers
<1>5. AloneCovers'
  BY <1>1, <1>3, <1>4 DEF AloneCovers
<1> QED  BY <1>2, <1>3, <1>5 DEF MemoryInv

LEMMA MemoryUnused ==
    ASSUME MemoryInv, CallsInv, UNCHANGED memVars, calls <= calls', CallsInv'
    PROVE  MemoryInv'
<1>1. /\ UNCHANGED <<memFile, entries, memDisk, memOp, stored, lost, cut, storing>>
      /\ \A c \in Clients : InStore(c)' <=> InStore(c)
  BY DEF memVars, InStore
<1>2. /\ \A data : Covers(data)' <=> Covers(data)
      /\ Alone' <=> Alone
      /\ Readable(memFile)' <=> Readable(memFile)
      /\ NothingToLose' <=> NothingToLose
      /\ Writing' <=> Writing
  BY <1>1 DEF Covers, Alone, Readable, NothingToLose, Writing
<1>3. \A n \in Nat : n <= calls => n <= calls'
  BY DEF CallsInv
<1>4. MemoryTypes'
  <2>1. \A j \in DOMAIN stored : stored[j] \in Nat
    BY DiskBounds, MapsAreReadable, MapsToFacts DEF MemoryInv, MemoryTypes
  <2> QED  BY <1>1, <1>3, <2>1 DEF MemoryInv, MemoryTypes
<1>5. StoresHold'
  <2>1. \A c \in Clients : InStore(c) => memOp[c].value \in Nat
    BY DEF MemoryInv, MemoryTypes, InStore
  <2> QED  BY <1>1, <1>3, <2>1 DEF MemoryInv, StoresHold
<1>6. AloneCovers'
  BY <1>1, <1>2 DEF MemoryInv, AloneCovers
<1> QED  BY <1>4, <1>5, <1>6 DEF MemoryInv

LEMMA MemoryNext ==
    ASSUME CallsInv, MemoryInv, [Next]_vars
    PROVE  MemoryInv'
<1>1. CASE Memorizes
  BY <1>1, NewMemoryKeeps, StoreKeeps, MemOpenKeeps, MemWriteKeeps DEF Memorizes, MemStep
<1>2. CASE Crash
  BY <1>2, MemoryCrashKeeps DEF Crash
<1>3. CASE PowerLoss
  BY <1>3, MemoryPowerLossKeeps DEF PowerLoss
<1>4. CASE UNCHANGED memVars
  BY <1>4, MemoryUnused, CallsCounted
<1> QED  BY <1>1, <1>2, <1>3, <1>4 DEF Next, Tasks, Configures, Texts, Logs, Discovers, vars

LEMMA MemoryPromise == MemoryInv => MemoryKept
  BY AloneIsAtMostOne DEF MemoryInv, MemoryTypes, AloneCovers, NothingToLose, MemoryKept

-----------------------------------------------------------------------------
(* Filesystem.  Calls that do not overlap are one at a time: the file is   *)
(* what the acknowledged calls left until the one call truncates it, and   *)
(* that call has in hand what it will leave.                               *)

Left == IF expected = {} THEN NoFile ELSE expected

OneFileCall == \A c, d \in Clients : InFile(c) /\ InFile(d) => c = d

FileReading(op) == text = Left /\ op.old # Nothing

Prepared(op) ==
    /\ op.text # {}
    /\ op.old # Nothing => op.text = (expected \ {op.old}) \cup {op.new}

FileInv ==
    ~collided =>
        /\ fileOp = [c \in Clients |-> fileOp[c]]
        /\ OneFileCall
        /\ (\A c \in Clients : ~InFile(c)) => text = Left
        /\ \A c \in Clients : InFile(c) =>
              \/ fileOp[c].at = "read" /\ FileReading(fileOp[c])
              \/ fileOp[c].at = "open" /\ text = Left /\ Prepared(fileOp[c])
              \/ fileOp[c].at = "write" /\ text = {} /\ Prepared(fileOp[c])

LEMMA FileAtFirst == Init => FileInv
  BY DEF Init, FileInit, FileInv, OneFileCall, InFile, Left

(* The call under way goes on, or a new one has begun.                     *)
LEMMA OnlyFileCall ==
    ASSUME FileInv, ~collided, NEW c \in Clients, \A d \in Clients \ {c} : ~InFile(d),
           fileOp' = [fileOp EXCEPT ![c] = fileOp'[c]],
           \/ fileOp'[c].at = "read" /\ FileReading(fileOp[c])'
           \/ fileOp'[c].at = "open" /\ (text = Left)' /\ Prepared(fileOp[c])'
           \/ fileOp'[c].at = "write" /\ text' = {} /\ Prepared(fileOp[c])'
    PROVE  FileInv'
<1>1. /\ fileOp' = [d \in Clients |-> fileOp'[d]] /\ InFile(c)'
      /\ \A d \in Clients \ {c} : ~InFile(d)'
  BY DEF FileInv, InFile, NoFileOp
<1> QED  BY <1>1 DEF FileInv, OneFileCall

LEMMA FileEnds ==
    ASSUME FileInv, ~collided, NEW c \in Clients, InFile(c), FileDone(c), (text = Left)'
    PROVE  FileInv'
<1>1. /\ fileOp' = [d \in Clients |-> fileOp'[d]]
      /\ \A d \in Clients : ~InFile(d)'
  BY DEF FileInv, OneFileCall, FileDone, FileGoto, InFile
<1> QED  BY <1>1 DEF FileInv, OneFileCall

LEMMA FileCallKeeps ==
    ASSUME FileInv, CallsInv, NEW c \in Clients, ~InFile(c), WriteFile(c) \/ EditFile(c)
    PROVE  FileInv'
<1> SUFFICES ASSUME ~collided'
             PROVE  FileInv'
  BY DEF FileInv
<1>1. ~collided /\ (\A d \in Clients : ~InFile(d)) /\ UNCHANGED <<text, expected>>
  BY DEF WriteFile, EditFile, Overlaps
<1>2. text = Left /\ Left' = Left
  BY <1>1 DEF FileInv, Left
<1>3. CASE WriteFile(c)
  <2> DEFINE op == [at |-> "open", text |-> {calls'} \X {1, 2}, old |-> Nothing]
  <2>1. fileOp' = [fileOp EXCEPT ![c] = op] /\ op.at = "open" /\ op.old = Nothing
    BY <1>3 DEF WriteFile, FileGoto
  <2>2. <<calls', 1>> \in op.text
    OBVIOUS
  <2> HIDE DEF op
  <2>3. fileOp'[c] = op
    BY <1>1, <2>1 DEF FileInv
  <2>4. Prepared(fileOp[c])'
    BY <2>1, <2>2, <2>3 DEF Prepared
  <2> QED  BY <1>1, <1>2, <2>1, <2>3, <2>4, OnlyFileCall
<1>4. CASE EditFile(c)
  <2>1. PICK old \in Passages :
          fileOp' = [fileOp EXCEPT ![c] = [at |-> "read", new |-> <<calls', 1>>, old |-> old]]
    BY <1>4 DEF EditFile, FileGoto
  <2>2. old # Nothing
    BY DEF Passages, Nothing
  <2>3. fileOp'[c] = [at |-> "read", new |-> <<calls', 1>>, old |-> old]
    BY <1>1, <2>1 DEF FileInv
  <2>4. fileOp'[c].at = "read" /\ FileReading(fileOp[c])'
    BY <1>1, <1>2, <2>2, <2>3 DEF FileReading
  <2> QED  BY <1>1, <2>1, <2>3, <2>4, OnlyFileCall
<1> QED  BY <1>3, <1>4

LEMMA FileStepKeeps ==
    ASSUME FileInv, NEW c \in Clients, FileStep(c)
    PROVE  FileInv'
<1> SUFFICES ASSUME ~collided'
             PROVE  FileInv'
  BY DEF FileInv
<1> DEFINE op == fileOp[c]
<1>1. ~collided /\ InFile(c) /\ \A d \in Clients \ {c} : ~InFile(d)
  <2>1. ~collided /\ InFile(c)
    BY DEF FileStep, EditFails, EditReads, FileOpen, FileWrite, InFile, NoFileOp
  <2> QED  BY <2>1 DEF FileInv, OneFileCall
<1>2. CASE EditFails(c)
  <2>1. text = Left /\ FileDone(c) /\ UNCHANGED <<text, expected>>
    BY <1>1, <1>2 DEF EditFails, FileInv, FileReading
  <2> QED  BY <1>1, <2>1, FileEnds DEF Left
<1>3. CASE EditReads(c)
  <2> DEFINE next == [at |-> "open", text |-> Replaced(text, op), new |-> op.new, old |-> op.old]
  <2>1. /\ text = Left /\ text # NoFile /\ op.old # Nothing /\ UNCHANGED <<text, expected>>
        /\ fileOp' = [fileOp EXCEPT ![c] = next]
    BY <1>1, <1>3 DEF EditReads, FileInv, FileReading, FileGoto
  <2>2. /\ next.at = "open" /\ next.old = op.old /\ next.new = op.new
        /\ next.text = (expected \ {op.old}) \cup {op.new} /\ next.text # {}
    BY <2>1 DEF Left, Replaced
  <2> HIDE DEF next
  <2>3. fileOp'[c] = next
    BY <1>1, <2>1 DEF FileInv
  <2>4. Prepared(fileOp[c])' /\ (text = Left)'
    BY <2>1, <2>2, <2>3 DEF Prepared, Left
  <2> QED  BY <1>1, <2>1, <2>2, <2>3, <2>4, OnlyFileCall
<1>4. CASE FileOpen(c)
  <2>1. text = Left /\ Prepared(op) /\ UNCHANGED expected
    BY <1>1, <1>4 DEF FileOpen, FileInv
  <2>2. CASE text' = {} /\ FileGoto(c, [op EXCEPT !.at = "write"])
    <3> DEFINE next == [op EXCEPT !.at = "write"]
    <3>1. next.text = op.text /\ next.old = op.old /\ next.new = op.new /\ next.at = "write"
      BY <1>4 DEF FileOpen
    <3>2. fileOp' = [fileOp EXCEPT ![c] = next]
      BY <2>2 DEF FileGoto
    <3> HIDE DEF next
    <3>3. fileOp'[c] = next
      BY <1>1, <3>2 DEF FileInv
    <3>4. Prepared(fileOp[c])'
      BY <2>1, <3>1, <3>3 DEF Prepared
    <3> QED  BY <1>1, <2>2, <3>1, <3>2, <3>3, <3>4, OnlyFileCall
  <2>3. CASE FileDone(c) /\ UNCHANGED text
    BY <1>1, <2>1, <2>3, FileEnds DEF Left
  <2> QED  BY <1>4, <2>2, <2>3 DEF FileOpen
<1>5. CASE FileWrite(c)
  <2>1. text = {} /\ Prepared(op) /\ FileDone(c)
    BY <1>1, <1>5 DEF FileWrite, FileInv
  <2>2. PICK tail \in SUBSET text :
          /\ text' = op.text \cup tail
          /\ expected' = IF op.old = Nothing THEN op.text ELSE (expected \ {op.old}) \cup {op.new}
    BY <1>5 DEF FileWrite
  <2>3. text' = op.text /\ expected' = op.text /\ op.text # {}
    BY <2>1, <2>2 DEF Prepared
  <2>4. (text = Left)'
    BY <2>3 DEF Left
  <2> QED  BY <1>1, <2>1, <2>4, FileEnds
<1> QED  BY <1>2, <1>3, <1>4, <1>5 DEF FileStep

(* Without a write that is cut short the file is as it was.                *)
LEMMA FilesEndKeeps ==
    ASSUME FileInv, FilesCrash \/ FilesPowerLoss
    PROVE  FileInv'
<1> SUFFICES ASSUME ~collided'
             PROVE  FileInv'
  BY DEF FileInv
<1>1. /\ ~collided /\ (\A c \in Clients : fileOp[c].at # "write")
      /\ fileOp' = [c \in Clients |-> NoFileOp] /\ UNCHANGED expected
  BY DEF FilesCrash, FilesPowerLoss
<1>2. text' = text
  BY <1>1 DEF FilesCrash, FilesPowerLoss
<1>3. text = Left
  BY <1>1 DEF FileInv, FileReading
<1>4. \A c \in Clients : ~InFile(c)'
  BY <1>1 DEF InFile
<1> QED  BY <1>1, <1>2, <1>3, <1>4 DEF FileInv, OneFileCall, Left

LEMMA FilesUnused == FileInv /\ UNCHANGED fileVars => FileInv'
  BY DEF fileVars, FileInv, OneFileCall, InFile, FileReading, Prepared, Left

LEMMA FilesNext ==
    ASSUME CallsInv, FileInv, [Next]_vars
    PROVE  FileInv'
<1>1. CASE Texts
  BY <1>1, FileCallKeeps, FileStepKeeps DEF Texts
<1>2. CASE Crash \/ PowerLoss
  BY <1>2, FilesEndKeeps DEF Crash, PowerLoss
<1>3. CASE UNCHANGED fileVars
  BY <1>3, FilesUnused
<1> QED  BY <1>1, <1>2, <1>3
         DEF Next, Tasks, Memorizes, Configures, Logs, Discovers, vars

LEMMA FilesPromise == FileInv => EditsKept
  BY DEF FileInv, EditsKept, FileReading, Left

-----------------------------------------------------------------------------
(* Discovery.  The loops only go forward, so that files are taken at places*)
(* that grow; what did not fit is longer than what the budget leaves, and  *)
(* the budget only shrinks.                                                *)

Files == [place : Nat, length : Nat]
LengthOf == [f \in Files |-> f.length]

DiscoveryInv ==
    /\ dir \in Nat \ {0} /\ candidate \in 1..Candidates
    /\ total \in Nat /\ total <= MaxTotal
    /\ found \subseteq Files /\ tooLong \subseteq Files /\ IsFiniteSet(found)
    /\ total = SumOver(LengthOf, found)
    /\ \A f \in found \cup tooLong : f.place < Place
    /\ \A f \in tooLong : total + f.length > MaxTotal
    /\ \A f \in tooLong, g \in found : f.place < g.place => f.length > g.length

LEMMA DiscoveryAtFirst == DiscoveryInit => DiscoveryInv
<1> SUFFICES ASSUME DiscoveryInit
             PROVE  DiscoveryInv
  OBVIOUS
<1>1. found = {} /\ tooLong = {} /\ dir = 1 /\ candidate = 1 /\ total = 0
  BY DEF DiscoveryInit
<1> QED  BY <1>1, DiscoveryBounds, SumEmpty, FS_EmptySet DEF DiscoveryInv

LEMMA RowsAhead ==
    ASSUME NEW d \in Nat, NEW e \in Nat, NEW n \in Nat, d + 1 <= e
    PROVE  d * n + n <= e * n /\ d * n \in Nat /\ e * n \in Nat
<1>1. \E k \in Nat : e = d + 1 + k
  OBVIOUS
<1>2. PICK k \in Nat : e = d + 1 + k
  BY <1>1
<1>3. e * n = d * n + n + k * n
  BY <1>2
<1>4. k * n \in Nat /\ d * n \in Nat /\ e * n \in Nat
  BY <1>2
<1> QED  BY <1>3, <1>4

(* The next place is farther on.                                           *)
LEMMA Onwards ==
    ASSUME DiscoveryInv, dir <= Depth, NEW sum, NextCandidate(sum) \/ NextDirectory(sum)
    PROVE  dir' \in Nat \ {0} /\ candidate' \in 1..Candidates /\ Place < Place'
<1>1. dir \in Nat /\ candidate \in 1..Candidates /\ Candidates \in Nat /\ Depth \in Nat
  BY DiscoveryBounds DEF DiscoveryInv
<1>2. CASE NextDirectory(sum)
  <2>1. candidate' = 1 /\ dir' \in Nat /\ dir + 1 <= dir'
    BY <1>1, <1>2 DEF NextDirectory
  <2>2. PICK d, e, n \in Nat : d = dir /\ e = dir' /\ n = Candidates
    BY <1>1, <2>1
  <2>3. d * n + n <= e * n /\ d * n \in Nat /\ e * n \in Nat
    BY <2>1, <2>2, RowsAhead
  <2>4. Place = d * n + candidate /\ Place' = e * n + 1 /\ candidate \in 1..n
    BY <1>1, <2>1, <2>2 DEF Place
  <2>5. Place < Place'
    BY <2>3, <2>4
  <2>6. candidate' \in 1..Candidates /\ dir' \in Nat \ {0}
    BY <1>1, <2>1
  <2> QED  BY <2>5, <2>6
<1>3. CASE candidate < Candidates /\ candidate' = candidate + 1 /\ UNCHANGED dir
  <2>1. dir * Candidates \in Nat
    BY <1>1
  <2> QED  BY <1>1, <1>3, <2>1 DEF Place, DiscoveryInv
<1> QED  BY <1>2, <1>3 DEF NextCandidate

LEMMA DiscoveryNext ==
    ASSUME DiscoveryInv, Discover \/ UNCHANGED discoveryVars
    PROVE  DiscoveryInv'
<1>1. CASE UNCHANGED discoveryVars
  BY <1>1 DEF discoveryVars, DiscoveryInv, Place
<1>2. /\ total \in Nat /\ MaxTotal \in Nat /\ Place \in Nat
      /\ \A n \in Lengths : Counted(n) = Content(n) /\ Content(n) \in Nat
  BY DiscoveryBounds DEF DiscoveryInv, Place, Counted, Content
<1>3. \A f \in Files : f.place \in Nat /\ f.length \in Nat
  BY DEF Files
<1>4. CASE Unreadable
  <2>1. dir' \in Nat \ {0} /\ candidate' \in 1..Candidates /\ Place < Place' /\ Place' \in Nat
    BY <1>4, Onwards, DiscoveryBounds DEF Unreadable, Place
  <2>2. \A f \in found \cup tooLong : f.place < Place'
    BY <1>2, <1>3, <2>1 DEF DiscoveryInv
  <2> QED  BY <1>4, <2>1, <2>2 DEF Unreadable, DiscoveryInv
<1>5. ASSUME NEW n \in Lengths, Fits(n)
      PROVE  DiscoveryInv'
  <2>1. dir' \in Nat \ {0} /\ candidate' \in 1..Candidates /\ Place < Place' /\ Place' \in Nat
    BY <1>5, Onwards, DiscoveryBounds DEF Fits, Place
  <2>2. PICK new \in Files : new = [place |-> Place, length |-> Content(n)]
    BY <1>2 DEF Files
  <2>3. /\ total' = total + new.length /\ total' <= MaxTotal /\ total' \in Nat
        /\ found' = found \cup {new} /\ tooLong' = tooLong
        /\ new.place = Place /\ new.length \in Nat
    BY <1>2, <1>5, <2>2 DEF Fits
  <2>4. \A f \in found' \cup tooLong' : f.place < Place'
    BY <1>2, <1>3, <2>1, <2>3 DEF DiscoveryInv
  <2>5. \A f \in tooLong' : total' + f.length > MaxTotal
    BY <1>2, <1>3, <2>3 DEF DiscoveryInv
  <2>6. ASSUME NEW f \in tooLong', NEW g \in found', f.place < g.place
        PROVE  f.length > g.length
    <3>1. CASE g = new
      <4>1. total + f.length > MaxTotal /\ f.length \in Nat
        BY <1>3, <2>3 DEF DiscoveryInv
      <4> QED  BY <1>2, <2>3, <3>1, <4>1
    <3>2. CASE g \in found
      BY <2>3, <2>6, <3>2 DEF DiscoveryInv
    <3> QED  BY <2>3, <3>1, <3>2
  <2>7. IsFiniteSet(found') /\ total' = SumOver(LengthOf, found')
    <3>1. new \notin found /\ IsFiniteSet(found) /\ total = SumOver(LengthOf, found)
      BY <1>2, <1>3, <2>3 DEF DiscoveryInv
    <3>2. \A f \in found \cup {new} : LengthOf[f] \in Nat
      BY <1>3 DEF LengthOf, DiscoveryInv
    <3>3. LengthOf[new] = new.length
      BY DEF LengthOf
    <3>4. SumOver(LengthOf, found \cup {new}) = SumOver(LengthOf, found) + LengthOf[new]
      BY <3>1, <3>2, SumAdds
    <3> QED  BY <2>3, <3>1, <3>3, <3>4, FS_AddElement
  <2> QED  BY <2>1, <2>3, <2>4, <2>5, <2>6, <2>7 DEF DiscoveryInv
<1>6. ASSUME NEW n \in Lengths, DoesNotFit(n)
      PROVE  DiscoveryInv'
  <2>1. dir' \in Nat \ {0} /\ candidate' \in 1..Candidates /\ Place < Place' /\ Place' \in Nat
    BY <1>6, Onwards, DiscoveryBounds DEF DoesNotFit, Place
  <2>2. PICK new \in Files : new = [place |-> Place, length |-> Content(n)]
    BY <1>2 DEF Files
  <2>3. /\ total' = total /\ total + new.length > MaxTotal
        /\ tooLong' = tooLong \cup {new} /\ found' = found
        /\ new.place = Place /\ new.length \in Nat
    BY <1>2, <1>6, <2>2 DEF DoesNotFit
  <2>4. \A f \in found' \cup tooLong' : f.place < Place'
    BY <1>2, <1>3, <2>1, <2>3 DEF DiscoveryInv
  <2>5. \A f \in tooLong' : total' + f.length > MaxTotal
    BY <2>3 DEF DiscoveryInv
  <2>6. ASSUME NEW f \in tooLong', NEW g \in found', f.place < g.place
        PROVE  f.length > g.length
    <3>1. f # new
      <4>1. g.place < Place /\ g.place \in Nat
        BY <1>3, <2>3 DEF DiscoveryInv
      <4> QED  BY <1>2, <2>3, <2>6, <4>1
    <3> QED  BY <2>3, <2>6, <3>1 DEF DiscoveryInv
  <2> QED  BY <2>1, <2>3, <2>4, <2>5, <2>6 DEF DiscoveryInv
<1> QED  BY <1>1, <1>4, <1>5, <1>6 DEF Discover

LEMMA LengthsTaken ==
    ASSUME found \subseteq Files
    PROVE  MapThenSumSet(LAMBDA f : f.length, found) = SumOver(LengthOf, found)
<1> DEFINE Lengthens(it, S) ==
      it = [s \in SUBSET S |->
              IF s = {} THEN 0
              ELSE (CHOOSE x \in s : TRUE).length + it[s \ {CHOOSE x \in s : TRUE}]]
    Total(S) == (CHOOSE it : Lengthens(it, S))[S]
<1>1. MapThenSumSet(LAMBDA f : f.length, found) = Total(found)
  BY DEF MapThenSumSet, MapThenFoldSet
<1>2. PICK S : S = found /\ S \subseteq Files
  OBVIOUS
<1>3. \A it : Lengthens(it, S) <=> Adds(it, LengthOf, SUBSET S)
  <2>1. \A s \in SUBSET S : s # {} => LengthOf[First(s)] = (CHOOSE x \in s : TRUE).length
    <3>1. \A s \in SUBSET S : s # {} => First(s) \in Files
      BY <1>2, FirstIsIn
    <3> QED  BY <3>1 DEF LengthOf, First
  <2>2. ASSUME NEW it, NEW s \in SUBSET S
        PROVE  (IF s = {} THEN 0
                ELSE (CHOOSE x \in s : TRUE).length + it[s \ {CHOOSE x \in s : TRUE}])
               = IF s = {} THEN 0 ELSE LengthOf[First(s)] + it[s \ {First(s)}]
    BY <2>1 DEF First
  <2> QED  BY <2>2 DEF Adds
<1>4. (CHOOSE it : Lengthens(it, S)) = (CHOOSE it : Adds(it, LengthOf, SUBSET S))
  <2> HIDE DEF Lengthens
  <2> QED  BY <1>3, Zenon
<1>5. Total(S) = SumOver(LengthOf, S)
  <2> HIDE DEF Lengthens
  <2> QED  BY <1>4 DEF SumOver
<1> HIDE DEF Total
<1> QED  BY <1>1, <1>2, <1>5

LEMMA DiscoveryPromise == DiscoveryInv => NearestFilesFirst
  BY LengthsTaken DEF DiscoveryInv, NearestFilesFirst

-----------------------------------------------------------------------------
(* All kinds of files together.                                            *)

IInv ==
    CallsInv /\ ConfigInv /\ TaskInv /\ MemoryInv /\ FileInv /\ SessionInv /\ DiscoveryInv

LEMMA InvInit == Init => IInv /\ Register!Init
<1> SUFFICES ASSUME Init
             PROVE  IInv /\ Register!Init
  OBVIOUS
<1>1. CallsInv
  BY DiskBounds DEF Init, DiskInit, CallsInv
<1> QED  BY <1>1, ConfigInitInv, TasksAtFirst, MemoryAtFirst, FileAtFirst, SessionAtFirst,
            DiscoveryAtFirst DEF Init, IInv

LEMMA SessionsUsed ==
    ASSUME [Next]_vars
    PROVE  (\E a \in Clients : SessionStep(a)) \/ SessionsCrash \/ UNCHANGED sessionVars
  BY DEF Next, Tasks, Memorizes, Configures, Texts, Logs, Discovers, Crash, PowerLoss, vars

LEMMA DirectoriesRead ==
    ASSUME [Next]_vars
    PROVE  Discover \/ UNCHANGED discoveryVars
  BY DEF Next, Tasks, Memorizes, Configures, Texts, Logs, Discovers, Crash, PowerLoss, vars

LEMMA InvNext == IInv /\ [Next]_vars => IInv' /\ [Register!Next]_Register!vars
<1> SUFFICES ASSUME IInv, [Next]_vars
             PROVE  IInv' /\ [Register!Next]_Register!vars
  OBVIOUS
<1>1. CallsInv' /\ ConfigInv' /\ [Register!Next]_Register!vars
  BY CallsCounted, ConfigNext DEF IInv
<1>2. TaskInv' /\ MemoryInv' /\ FileInv'
  BY TasksNext, MemoryNext, FilesNext DEF IInv
<1>3. SessionInv'
  BY SessionsUsed, SessionNext DEF IInv
<1>4. DiscoveryInv'
  BY DirectoriesRead, DiscoveryNext DEF IInv
<1> QED  BY <1>1, <1>2, <1>3, <1>4 DEF IInv

(* The strengthened invariants hold of every reachable state.              *)
THEOREM Invariance == Spec => []IInv
<1>1. Init => IInv
  BY InvInit
<1>2. IInv /\ [Next]_vars => IInv'
  BY InvNext
<1> QED  BY <1>1, <1>2, PTL DEF Spec

(* Save writes a file aside, syncs it and renames it (config/store.go), so *)
(* that Load returns what one Save wrote, whichever Saves overlap, fail or *)
(* are cut off: ConfigStore implements DurableRegister.                    *)
THEOREM SavesAreAtomic == Spec => ConfigIsAtomic
<1>1. Init => Register!Init
  BY InvInit
<1>2. IInv /\ [Next]_vars => [Register!Next]_Register!vars
  BY InvNext
<1> QED  BY <1>1, <1>2, Invariance, PTL DEF Spec, ConfigIsAtomic, Register!Spec

(* As long as calls of the task tools do not overlap, the file has every   *)
(* task and update acknowledged since it was last torn, or since a loss of *)
(* power and on top of what that left, and nothing else, whenever nobody   *)
(* writes it (tools/core/tasks.go, load and save).                         *)
THEOREM TasksAreKept == Spec => []TasksKept
<1>1. IInv => TasksKept
  BY TasksPromise DEF IInv
<1> QED  BY <1>1, Invariance, PTL

(* While one instance of the memory tool at most stores, an acknowledged   *)
(* entry gives way to no older one, and is missing neither from it nor     *)
(* from a file that parses, unless the process ended since on a file that  *)
(* did not parse, or after several instances had stored, or the power was  *)
(* lost; and such a file it can only have ended on in the middle of a      *)
(* save, or after one that failed and before the next one that worked:     *)
(* calls save under the lock, and a save that fails leaves the entry       *)
(* (tools/core/memory.go, New, execStore and save).                        *)
THEOREM MemoriesAreKept == Spec => []MemoryKept
<1>1. IInv => MemoryKept
  BY MemoryPromise DEF IInv
<1> QED  BY <1>1, Invariance, PTL

(* As long as writes and edits of a file do not overlap and none is cut    *)
(* short, the file is what the acknowledged ones make of it, one after the *)
(* other (tools/core/filesystem.go, write and edit).                       *)
THEOREM FilesKeepEdits == Spec => []EditsKept
<1>1. IInv => EditsKept
  BY FilesPromise DEF IInv
<1> QED  BY <1>1, Invariance, PTL

(* A write that stops half way costs one acknowledged message at most, and *)
(* hides neither the session nor the other lines (sessions/store.go,       *)
(* AppendMessage and the scanner of LoadSession).                          *)
THEOREM TearsAreLocal == Spec => []OneMessagePerTear
<1>1. IInv => OneMessagePerTear
  BY SessionPromises DEF IInv
<1> QED  BY <1>1, Invariance, PTL

(* AppendMessage opens without O_CREATE, so that none that overlaps a      *)
(* DeleteSession brings the file back (sessions/store.go).                 *)
THEOREM DeletesAreFinal == Spec => []DeletedStaysDeleted
<1>1. IInv => DeletedStaysDeleted
  BY SessionPromises DEF IInv
<1> QED  BY <1>1, Invariance, PTL

(* What LoadSession has shown of the acknowledged messages it goes on to   *)
(* show, whatever is appended (sessions/store.go, O_APPEND and the scan    *)
(* from the first line).                                                   *)
THEOREM LoadsOnlyGrow == Spec => LoadedStays
<1>1. IInv /\ [Next]_vars =>
        [\A s \in Sessions : jsonl'[s] # NoFile =>
            Loaded(s) \cap logged[s] \subseteq Loaded(s)']_sessionVars
  <2> SUFFICES ASSUME IInv, [Next]_vars, NEW s \in Sessions, jsonl'[s] # NoFile
               PROVE  Loaded(s) \cap logged[s] \subseteq Loaded(s)'
    OBVIOUS
  <2> QED  BY SessionsUsed, LoadedStaysStep DEF IInv
<1> QED  BY <1>1, Invariance, PTL DEF Spec, LoadedStays

(* Instruction files fit the budget, marks of truncation included, and     *)
(* none gives way to one that is farther away and no shorter               *)
(* (config/discovery.go, DiscoverInstructionFiles).                        *)
THEOREM NearFilesComeFirst == Spec => []NearestFilesFirst
<1>1. IInv => NearestFilesFirst
  BY DiscoveryPromise DEF IInv
<1> QED  BY <1>1, Invariance, PTL
=============================================================================
