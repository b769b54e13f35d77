------------------------- MODULE OutsideCallsProofs -------------------------
(***************************************************************************)
(* Calls to the outside, for any number of providers, callers, processes,  *)
(* pieces of output, events, pages and blocks, and any timeouts.  A        *)
(* behaviour is about one kind of call, and each kind has an inductive     *)
(* invariant of its own.                                                   *)
(***************************************************************************)
EXTENDS OutsideCalls, Sums, SequenceTheorems, TLAPS

(* The registry.  Before Close a provider that was never registered is not *)
(* there and not closed; one that was registered once is closed if and     *)
(* only if another one has taken its name.                                 *)
ClosedAsReplaced ==
    \A p \in Providers :
        /\ registers[p] = 0 => closes[p] = 0 /\ registered[NameOf(p)] # p
        /\ registers[p] = 1 => closes[p] = IF registered[NameOf(p)] = p THEN 0 ELSE 1

RegistryInv ==
    /\ registered \in [Names -> Providers \cup {NoProvider}]
    /\ \A n \in Names : registered[n] # NoProvider => NameOf(registered[n]) = n
    /\ closes \in [Providers -> Nat] /\ registers \in [Providers -> Nat]
    /\ using \in [Callers -> Providers \cup {NoProvider}]
    /\ ~shut => ClosedAsReplaced

LEMMA NamesOfProviders == \A p \in Providers : NameOf(p) \in Names
  BY DEF Providers, NameOf

LEMMA ClosedFacts ==
    ASSUME RegistryInv, NEW old
    PROVE  /\ Closed(old) \in [Providers -> Nat]
           /\ \A p \in Providers : Closed(old)[p] = IF p \in old THEN closes[p] + 1 ELSE closes[p]
  BY DEF Closed, RegistryInv

LEMMA RegistryAtFirst == RegistryInit => RegistryInv
  BY NilIsNoProvider, NamesOfProviders DEF RegistryInit, RegistryInv, ClosedAsReplaced

LEMMA RegisterKeeps ==
    ASSUME RegistryInv, NEW p \in Providers, Register(p)
    PROVE  RegistryInv'
<1>1. /\ registered \in [Names -> Providers \cup {NoProvider}]
      /\ \A n \in Names : registered[n] # NoProvider => NameOf(registered[n]) = n
      /\ registers \in [Providers -> Nat] /\ NameOf(p) \in Names
      /\ using \in [Callers -> Providers \cup {NoProvider}]
  BY NamesOfProviders DEF RegistryInv
<1>2. /\ registers' = [registers EXCEPT ![p] = @ + 1]
      /\ closes' = Closed({registered[NameOf(p)]})
      /\ registered' = [registered EXCEPT ![NameOf(p)] = p]
      /\ UNCHANGED <<using, shut>>
  BY DEF Register, Replaced
<1>3. /\ closes' \in [Providers -> Nat]
      /\ \A q \in Providers : closes'[q] = IF q = registered[NameOf(p)] THEN closes[q] + 1
                                           ELSE closes[q]
  BY <1>2, ClosedFacts
<1>4. /\ registers' \in [Providers -> Nat]
      /\ \A q \in Providers : registers'[q] = IF q = p THEN registers[q] + 1 ELSE registers[q]
  BY <1>1, <1>2
<1>5. /\ registered' \in [Names -> Providers \cup {NoProvider}]
      /\ \A n \in Names : registered'[n] = IF n = NameOf(p) THEN p ELSE registered[n]
  BY <1>1, <1>2
<1>6. ASSUME ~shut, NEW q \in Providers
      PROVE  /\ registers'[q] = 0 => closes'[q] = 0 /\ registered'[NameOf(q)] # q
             /\ registers'[q] = 1 => closes'[q] = IF registered'[NameOf(q)] = q THEN 0 ELSE 1
  <2>1. /\ registers[q] \in Nat /\ closes[q] \in Nat /\ NameOf(q) \in Names
        /\ registers[q] = 0 => closes[q] = 0 /\ registered[NameOf(q)] # q
        /\ registers[q] = 1 => closes[q] = IF registered[NameOf(q)] = q THEN 0 ELSE 1
    BY <1>6, NamesOfProviders DEF RegistryInv, ClosedAsReplaced
  <2>2. CASE q = p
    BY <1>3, <1>4, <1>5, <2>1, <2>2
  <2>3. CASE q # p
    <3>1. q = registered[NameOf(p)] => NameOf(q) = NameOf(p)
      BY <1>1, NilIsNoProvider
    <3> QED  BY <1>3, <1>4, <1>5, <2>1, <2>3, <3>1
  <2> QED  BY <2>2, <2>3
<1> QED  BY <1>1, <1>2, <1>3, <1>4, <1>5, <1>6 DEF RegistryInv, ClosedAsReplaced

LEMMA RegistryNext ==
    ASSUME RegistryInv, RegistryStep \/ UNCHANGED registryVars
    PROVE  RegistryInv'
<1>1. ASSUME NEW c \in Callers, NEW n \in Names, Get(c, n)
      PROVE  RegistryInv'
  BY <1>1 DEF Get, RegistryInv, ClosedAsReplaced
<1>2. CASE Close
  <2>1. closes' \in [Providers -> Nat]
    BY <1>2, ClosedFacts DEF Close
  <2> QED  BY <1>2, <2>1 DEF Close, RegistryInv
<1>3. CASE UNCHANGED registryVars
  BY <1>3 DEF registryVars, RegistryInv, ClosedAsReplaced
<1> QED  BY <1>1, <1>2, <1>3, RegisterKeeps DEF RegistryStep

LEMMA RegistryPromise == RegistryInv => UsedUntilReplaced
  BY DEF RegistryInv, ClosedAsReplaced, UsedUntilReplaced

-----------------------------------------------------------------------------
(* The command.  What the shell has become is settled when it is waited    *)
(* for, and the output when the pipe has ended: with no process left that  *)
(* holds it nothing more is written.                                       *)
ExecInv ==
    /\ children \in Nat /\ output \in Nat /\ copied \in Nat
    /\ run = "no" => shell = "no" /\ children = 0 /\ result = NoResult
    /\ run = "wait" => shell \in {"runs", "exited", "failed", "killed", "signalled"} /\ result = NoResult
    /\ run = "drain" => shell \in {"exited", "failed", "killed", "signalled"} /\ result = NoResult
    /\ result # NoResult =>
          /\ children = 0 /\ copied = output
          /\ shell \in {"exited", "failed", "killed", "signalled"}
          /\ result = [code |-> ExitCode, output |-> copied]
    /\ run \in {"no", "wait", "drain", "over"}

LEMMA ExecAtFirst == ExecInit => ExecInv
  BY DEF ExecInit, ExecInv

LEMMA ExecNext ==
    ASSUME ExecInv, ExecStep \/ UNCHANGED execVars
    PROVE  ExecInv'
<1>1. ASSUME NEW ms \in Requested, Execute(ms)
      PROVE  ExecInv'
  BY <1>1 DEF Execute, ExecInv, ExitCode
<1>2. CASE ContextEnds \/ Writes \/ Copies
  BY <1>2 DEF ContextEnds, Writes, Copies, ExecInv, ExitCode
<1>3. CASE ShellWorks
  BY <1>3 DEF ShellWorks, ExecInv, ExitCode
<1>4. CASE ChildEnds
  BY <1>4 DEF ChildEnds, ExecInv, ExitCode
<1>5. CASE Kills \/ WaitedFor
  BY <1>5 DEF Kills, WaitedFor, ExecInv, ExitCode
<1>6. CASE Returns
  BY <1>6 DEF Returns, Drained, ExecInv, ExitCode
<1>7. CASE UNCHANGED execVars
  BY <1>7 DEF execVars, ExecInv, ExitCode
<1> QED  BY <1>1, <1>2, <1>3, <1>4, <1>5, <1>6, <1>7 DEF ExecStep

LEMMA ExecPromise == ExecInv => ResultIsWhole
  BY DEF ExecInv, ResultIsWhole, ExitCode, NoResult

-----------------------------------------------------------------------------
(* The answer of a model.  TextParts exists, and two of them agree as far  *)
(* as the blocks do.                                                       *)

Pieces == 1..MaxEvents
BlockSet == [type : {"text", "tool_use"}, data : Seq(Pieces)]

Part(b) == IF b.type = "text" THEN b.data ELSE <<>>

Builds(f, bs, N) == f = [n \in 0..N |-> IF n = 0 THEN <<>> ELSE f[n - 1] \o Part(bs[n])]

LEMMA PartFacts ==
    ASSUME NEW b \in BlockSet
    PROVE  Part(b) \in Seq(Pieces)
  BY DEF Part, BlockSet

LEMMA TextExists ==
    ASSUME NEW bs, NEW N \in Nat
    PROVE  \E f : Builds(f, bs, N)
<1> DEFINE Bad == {n \in Nat : ~\E f : Builds(f, bs, n)}
<1>1. Bad = {}
  <2> SUFFICES ASSUME Bad # {}
               PROVE  FALSE
    OBVIOUS
  <2>1. PICK n \in Bad : \A m \in Bad : n <= m
    <3>1. Bad \subseteq Nat
      OBVIOUS
    <3> HIDE DEF Bad
    <3> QED  BY <3>1, SmallestNumber
  <2>2. n # 0
    <3>1. Builds([k \in 0..0 |-> <<>>], bs, 0)
      BY DEF Builds
    <3> QED  BY <3>1
  <2>3. PICK m \in Nat : n = m + 1
    <3>1. n - 1 \in Nat /\ n = (n - 1) + 1
      BY <2>2
    <3> QED  BY <3>1
  <2>4. PICK f : Builds(f, bs, m)
    <3>1. m \notin Bad
      BY <2>1, <2>3
    <3> QED  BY <3>1
  <2> DEFINE g == [k \in 0..n |-> IF k = 0 THEN <<>> ELSE f[k - 1] \o Part(bs[k])]
  <2>5. \A k \in 0..m : g[k] = f[k]
    <3>1. \A k \in 0..m : f[k] = IF k = 0 THEN <<>> ELSE f[k - 1] \o Part(bs[k])
      BY <2>4 DEF Builds
    <3>2. \A k \in 0..m : k \in 0..n
      BY <2>3
    <3> QED  BY <3>1, <3>2
  <2>6. \A k \in 0..n : k # 0 => k - 1 \in 0..m
    BY <2>3
  <2>7. Builds(g, bs, n)
    BY <2>5, <2>6 DEF Builds
  <2> QED  BY <2>7
<1> QED  BY <1>1

LEMMA TextAgrees ==
    ASSUME NEW bs, NEW N \in Nat, NEW f, Builds(f, bs, N),
           NEW cs, NEW M \in Nat, NEW g, Builds(g, cs, M),
           NEW K \in Nat, K <= N, K <= M, \A i \in 1..K : bs[i] = cs[i]
    PROVE  \A k \in 0..K : f[k] = g[k]
<1> DEFINE Bad == {k \in 0..K : f[k] # g[k]}
<1>1. Bad = {}
  <2> SUFFICES ASSUME Bad # {}
               PROVE  FALSE
    OBVIOUS
  <2>1. PICK n \in Bad : \A m \in Bad : n <= m
    <3>1. Bad \subseteq Nat
      OBVIOUS
    <3> HIDE DEF Bad
    <3> QED  BY <3>1, SmallestNumber
  <2>2. n \in 0..N /\ n \in 0..M /\ n \in 0..K
    OBVIOUS
  <2>3. /\ f[n] = IF n = 0 THEN <<>> ELSE f[n - 1] \o Part(bs[n])
        /\ g[n] = IF n = 0 THEN <<>> ELSE g[n - 1] \o Part(cs[n])
    BY <2>2 DEF Builds
  <2>4. n # 0
    BY <2>3
  <2>5. n - 1 \in 0..K /\ ~(n <= n - 1) /\ bs[n] = cs[n]
    BY <2>2, <2>4
  <2>6. f[n - 1] = g[n - 1]
    BY <2>1, <2>5
  <2> QED  BY <2>3, <2>5, <2>6
<1> QED  BY <1>1

TextOf(bs) == (CHOOSE f : Builds(f, bs, Len(bs)))[Len(bs)]

LEMMA TextParted ==
    ASSUME NEW bs \in Seq(BlockSet)
    PROVE  /\ TextOf(bs) \in Seq(Pieces)
           /\ bs = <<>> => TextOf(bs) = <<>>
<1> DEFINE f == CHOOSE f : Builds(f, bs, Len(bs))
           Bad == {k \in 0..Len(bs) : f[k] \notin Seq(Pieces)}
<1>1. Builds(f, bs, Len(bs)) /\ Len(bs) \in Nat
  BY TextExists
<1>2. f[Len(bs)] = TextOf(bs)
  BY DEF TextOf
<1> HIDE DEF f
<1>3. \A k \in 0..Len(bs) : f[k] = IF k = 0 THEN <<>> ELSE f[k - 1] \o Part(bs[k])
  BY <1>1 DEF Builds
<1>4. Bad = {}
  <2> SUFFICES ASSUME Bad # {}
               PROVE  FALSE
    OBVIOUS
  <2>1. PICK n \in Bad : \A m \in Bad : n <= m
    <3>1. Bad \subseteq Nat
      OBVIOUS
    <3> HIDE DEF Bad
    <3> QED  BY <3>1, SmallestNumber
  <2>2. n # 0
    <3>1. <<>> \in Seq(Pieces)
      OBVIOUS
    <3> QED  BY <1>3, <3>1
  <2>3. n - 1 \in 0..Len(bs) /\ ~(n <= n - 1) /\ n \in 1..Len(bs)
    BY <1>1, <2>2
  <2>4. f[n - 1] \in Seq(Pieces)
    BY <2>1, <2>3
  <2>5. Part(bs[n]) \in Seq(Pieces)
    BY <2>3, PartFacts
  <2>6. f[n - 1] \o Part(bs[n]) \in Seq(Pieces)
    BY <2>4, <2>5
  <2> QED  BY <1>3, <2>2, <2>3, <2>6
<1>5. Len(bs) \in 0..Len(bs)
  BY <1>1
<1>6. bs = <<>> => f[Len(bs)] = <<>>
  BY <1>3, <1>5
<1> QED  BY <1>2, <1>4, <1>5, <1>6

(* The last block is the last part of the text.                            *)
LEMMA TextOfLast ==
    ASSUME NEW bs, NEW N \in Nat, Len(bs) = N + 1,
           NEW cs, Len(cs) = N, \A i \in 1..N : bs[i] = cs[i]
    PROVE  TextOf(bs) = TextOf(cs) \o Part(bs[N + 1])
<1> DEFINE f == CHOOSE f : Builds(f, bs, Len(bs))
           g == CHOOSE g : Builds(g, cs, Len(cs))
<1>1. Builds(f, bs, N + 1) /\ Builds(g, cs, N)
  <2>1. Len(bs) \in Nat /\ Len(cs) \in Nat
    OBVIOUS
  <2>2. (\E h : Builds(h, bs, Len(bs))) /\ \E h : Builds(h, cs, Len(cs))
    BY <2>1, TextExists
  <2>3. Builds(f, bs, Len(bs)) /\ Builds(g, cs, Len(cs))
    BY <2>2
  <2> HIDE DEF f, g
  <2> QED  BY <2>3
<1>2. f[N + 1] = TextOf(bs) /\ g[N] = TextOf(cs)
  BY DEF TextOf
<1> HIDE DEF f, g
<1>3. f[N] = g[N]
  <2>1. N + 1 \in Nat /\ N <= N + 1 /\ N <= N /\ N \in 0..N
    OBVIOUS
  <2>2. PICK K \in Nat : K = N + 1
    BY <2>1
  <2>3. \A k \in 0..N : f[k] = g[k]
    BY <1>1, <2>1, <2>2, TextAgrees
  <2> QED  BY <2>1, <2>3
<1>4. f[N + 1] = f[N] \o Part(bs[N + 1])
  BY <1>1 DEF Builds
<1> QED  BY <1>2, <1>3, <1>4

StreamInv ==
    /\ events \in Nat /\ events <= MaxEvents
    /\ message.blocks \in Seq(BlockSet)
    /\ chatting \in {"idle", "stream", "ok", "error"}
    /\ chatting # "ok" => chunks \in Seq(Pieces) /\ chunks = TextOf(message.blocks)
    /\ chatting = "ok" => chunks = Append(answer.content, Done)

LEMMA TextIsTextOf == Text = TextOf(message.blocks)
<1>1. PICK bs : bs = message.blocks
  OBVIOUS
<1>2. ASSUME NEW f
      PROVE  f = [n \in 0..Len(bs) |->
                    IF n = 0 THEN <<>>
                    ELSE f[n - 1] \o IF bs[n].type = "text" THEN bs[n].data ELSE <<>>]
             <=> Builds(f, bs, Len(bs))
  BY DEF Builds, Part
<1>3. (CHOOSE f : f = [n \in 0..Len(bs) |->
                    IF n = 0 THEN <<>>
                    ELSE f[n - 1] \o IF bs[n].type = "text" THEN bs[n].data ELSE <<>>])
      = (CHOOSE f : Builds(f, bs, Len(bs)))
  BY <1>2, Zenon
<1>4. Text = (CHOOSE f : f = [n \in 0..Len(bs) |->
                    IF n = 0 THEN <<>>
                    ELSE f[n - 1] \o IF bs[n].type = "text" THEN bs[n].data ELSE <<>>])[Len(bs)]
  BY <1>1 DEF Text, TextParts
<1> QED  BY <1>1, <1>3, <1>4 DEF TextOf

LEMMA StreamAtFirst == StreamInit => StreamInv
<1> SUFFICES ASSUME StreamInit
             PROVE  StreamInv
  OBVIOUS
<1>1. chunks = <<>> /\ message.blocks = <<>> /\ chatting = "idle" /\ events = 0
  BY DEF StreamInit
<1>2. <<>> \in Seq(BlockSet) /\ <<>> \in Seq(Pieces)
  OBVIOUS
<1>3. TextOf(<<>>) = <<>>
  BY <1>2, TextParted
<1> QED  BY <1>1, <1>2, <1>3, StreamBounds DEF StreamInv

LEMMA BlockStartsKeeps ==
    ASSUME StreamInv, NEW type \in {"text", "tool_use"}, BlockStarts(type)
    PROVE  StreamInv'
<1>1. PICK cs \in Seq(BlockSet) : cs = message.blocks
  BY DEF StreamInv
<1>2. PICK b : b = [type |-> type, data |-> <<>>]
  OBVIOUS
<1>3. b \in BlockSet /\ Part(b) = <<>>
  BY <1>2 DEF BlockSet, Part
<1>4. PICK bs : bs = Append(cs, b)
  OBVIOUS
<1>5. /\ bs \in Seq(BlockSet) /\ Len(cs) \in Nat /\ Len(bs) = Len(cs) + 1
      /\ bs[Len(cs) + 1] = b /\ \A i \in 1..Len(cs) : bs[i] = cs[i]
  BY <1>3, <1>4
<1>6. /\ message'.blocks = bs /\ events' = events + 1 /\ events < MaxEvents
      /\ UNCHANGED <<chatting, chunks, answer>> /\ chatting = "stream"
  BY <1>1, <1>2, <1>4 DEF BlockStarts, Event
<1>7. chunks \in Seq(Pieces) /\ chunks = TextOf(cs)
  BY <1>1, <1>6 DEF StreamInv
<1>8. TextOf(bs) = TextOf(cs) \o <<>>
  BY <1>3, <1>5, TextOfLast
<1>9. TextOf(bs) = chunks
  BY <1>7, <1>8
<1> QED  BY <1>5, <1>6, <1>7, <1>9, StreamBounds DEF StreamInv

LEMMA DeltaKeeps ==
    ASSUME StreamInv, NEW piece \in {NoText, events + 1}, Delta(piece)
    PROVE  StreamInv'
<1>1. PICK cs \in Seq(BlockSet) : cs = message.blocks
  BY DEF StreamInv
<1>2. cs # <<>> /\ events \in Nat /\ events < MaxEvents /\ chatting = "stream"
  BY <1>1 DEF Delta, Event, StreamInv
<1>3. PICK N \in Nat : Len(cs) = N + 1 /\ DOMAIN cs = 1..(N + 1)
  <2>1. Len(cs) - 1 \in Nat /\ Len(cs) = (Len(cs) - 1) + 1 /\ DOMAIN cs = 1..Len(cs)
    BY <1>2
  <2> QED  BY <2>1
<1>4. PICK last \in BlockSet : last = cs[N + 1]
  BY <1>3
<1>5. PICK b : b = [last EXCEPT !.data = IF piece = NoText THEN @ ELSE Append(@, piece)]
  OBVIOUS
<1>6. piece = NoText \/ piece \in Pieces
  BY <1>2, StreamBounds DEF Pieces
<1>7. /\ b \in BlockSet
      /\ Part(last) \in Seq(Pieces)
      /\ Part(b) = Part(last) \o Forwarded(last.type, piece)
      /\ Forwarded(last.type, piece) \in Seq(Pieces)
  <2>1. last.data \in Seq(Pieces) /\ last.type \in {"text", "tool_use"}
        /\ last = [type |-> last.type, data |-> last.data]
    BY DEF BlockSet
  <2>2. b = [type |-> last.type,
             data |-> IF piece = NoText THEN last.data ELSE Append(last.data, piece)]
    BY <1>5, <2>1
  <2>3. CASE piece = NoText
    BY <2>1, <2>2, <2>3 DEF BlockSet, Part, Forwarded
  <2>4. CASE piece # NoText
    <3>1. Append(last.data, piece) = last.data \o <<piece>> /\ <<piece>> \in Seq(Pieces)
          /\ Append(last.data, piece) \in Seq(Pieces)
      BY <1>6, <2>1, <2>4
    <3> QED  BY <2>1, <2>2, <2>4, <3>1 DEF BlockSet, Part, Forwarded
  <2> QED  BY <2>3, <2>4
<1>8. PICK bs : bs = [cs EXCEPT ![N + 1] = b]
  OBVIOUS
<1>9. /\ bs \in Seq(BlockSet) /\ Len(bs) = N + 1 /\ bs[N + 1] = b
      /\ \A i \in 1..N : bs[i] = cs[i]
  BY <1>3, <1>7, <1>8
<1>10. /\ message'.blocks = bs /\ events' = events + 1
       /\ chunks' = chunks \o Forwarded(last.type, piece)
       /\ UNCHANGED <<chatting, answer>>
  BY <1>1, <1>3, <1>4, <1>5, <1>8 DEF Delta, Event, Last, ReplaceAt
<1>11. chunks \in Seq(Pieces) /\ chunks = TextOf(cs)
  BY <1>1, <1>2 DEF StreamInv
<1>12. PICK front : front = SubSeq(cs, 1, N)
  OBVIOUS
<1>13. front \in Seq(BlockSet) /\ Len(front) = N /\ \A i \in 1..N : front[i] = cs[i]
  <2>1. \A i \in 1..N : cs[i] \in BlockSet
    BY <1>3
  <2> QED  BY <1>12, <2>1, SubSeqProperties
<1>14. TextOf(cs) = TextOf(front) \o Part(last) /\ TextOf(bs) = TextOf(front) \o Part(b)
  <2>1. \A i \in 1..N : bs[i] = front[i] /\ cs[i] = front[i]
    BY <1>9, <1>13
  <2> QED  BY <1>3, <1>4, <1>9, <1>13, <2>1, TextOfLast
<1>15. TextOf(front) \in Seq(Pieces)
  BY <1>13, TextParted
<1>16. TextOf(bs) = chunks'
  <2>1. PICK x \in Seq(Pieces), y \in Seq(Pieces), z \in Seq(Pieces) :
           x = TextOf(front) /\ y = Part(last) /\ z = Forwarded(last.type, piece)
    BY <1>7, <1>15
  <2>2. (x \o y) \o z = x \o (y \o z)
    BY ConcatAssociative
  <2> QED  BY <1>7, <1>10, <1>11, <1>14, <2>1, <2>2
<1>17. chunks' \in Seq(Pieces)
  BY <1>7, <1>10, <1>11
<1> QED  BY <1>2, <1>9, <1>10, <1>16, <1>17, StreamBounds DEF StreamInv

LEMMA StreamNext ==
    ASSUME StreamInv, StreamStep \/ UNCHANGED streamVars
    PROVE  StreamInv'
<1>1. ASSUME NEW n \in 1..MaxMessages, NEW roles \in [1..n -> Roles], ChatStream(roles)
      PROVE  StreamInv'
  BY <1>1 DEF ChatStream, StreamInv
<1>2. CASE Stops
  <2>1. /\ message'.blocks = message.blocks /\ events' = events + 1 /\ events < MaxEvents
        /\ UNCHANGED <<chatting, chunks, answer>> /\ chatting = "stream"
    BY <1>2 DEF Stops, Event
  <2> QED  BY <2>1, StreamBounds DEF StreamInv
<1>3. CASE StreamEnds
  <2>1. chunks' = Append(chunks, Done) /\ answer'.content = Text /\ chatting' = "ok"
        /\ UNCHANGED <<message, events>> /\ chatting = "stream"
    BY <1>3 DEF StreamEnds
  <2>2. chunks = Text
    BY <2>1, TextIsTextOf DEF StreamInv
  <2>3. Done' = Done
    BY DEF Done
  <2> QED  BY <2>1, <2>2, <2>3 DEF StreamInv
<1>4. CASE StreamFails \/ UNCHANGED streamVars
  BY <1>4 DEF StreamFails, streamVars, StreamInv, Done
<1> QED  BY <1>1, <1>2, <1>3, <1>4, BlockStartsKeeps, DeltaKeeps DEF StreamStep

LEMMA StreamPromise == StreamInv => ChunksAreTheAnswer
<1> SUFFICES ASSUME StreamInv, chatting # "ok"
             PROVE  Done \notin Range(chunks)
  BY DEF StreamInv, ChunksAreTheAnswer
<1>1. chunks \in Seq(Pieces)
  BY DEF StreamInv
<1>2. \A i \in DOMAIN chunks : chunks[i] \in Pieces
  BY <1>1
<1>3. Done \notin Pieces
  BY StreamBounds DEF Done, Pieces
<1> QED  BY <1>2, <1>3 DEF Range

-----------------------------------------------------------------------------
(* The knowledge graph.  A loop that picks some of the blocks lists them   *)
(* in their order, each once.                                              *)
Lists(s, S) ==
    /\ s \in Seq(S)
    /\ \A i \in S : \E k \in DOMAIN s : s[k] = i
    /\ \A j, k \in DOMAIN s : j < k => s[j] < s[k]

Picks(f, n, S) ==
    f = [i \in 0..n |-> IF i = 0 THEN <<>> ELSE
                        IF i \in S THEN Append(f[i - 1], i) ELSE f[i - 1]]

UpTo(S, i) == {j \in S : j <= i}

LEMMA PicksExists ==
    ASSUME NEW S, NEW N \in Nat
    PROVE  \E f : Picks(f, N, S)
<1> DEFINE Bad == {n \in Nat : ~\E f : Picks(f, n, S)}
<1>1. Bad = {}
  <2> SUFFICES ASSUME Bad # {}
               PROVE  FALSE
    OBVIOUS
  <2>1. PICK n \in Bad : \A m \in Bad : n <= m
    <3>1. Bad \subseteq Nat
      OBVIOUS
    <3> HIDE DEF Bad
    <3> QED  BY <3>1, SmallestNumber
  <2>2. n # 0
    <3>1. Picks([k \in 0..0 |-> <<>>], 0, S)
      BY DEF Picks
    <3> QED  BY <3>1
  <2>3. PICK m \in Nat : n = m + 1
    <3>1. n - 1 \in Nat /\ n = (n - 1) + 1
      BY <2>2
    <3> QED  BY <3>1
  <2>4. PICK f : Picks(f, m, S)
    <3>1. m \notin Bad
      BY <2>1, <2>3
    <3> QED  BY <3>1
  <2> DEFINE g == [k \in 0..n |-> IF k = 0 THEN <<>> ELSE
                                  IF k \in S THEN Append(f[k - 1], k) ELSE f[k - 1]]
  <2>5. \A k \in 0..m : g[k] = f[k]
    <3>1. \A k \in 0..m : f[k] = IF k = 0 THEN <<>> ELSE
                                 IF k \in S THEN Append(f[k - 1], k) ELSE f[k - 1]
      BY <2>4 DEF Picks
    <3>2. \A k \in 0..m : k \in 0..n
      BY <2>3
    <3> QED  BY <3>1, <3>2
  <2>6. \A k \in 0..n : k # 0 => k - 1 \in 0..m
    BY <2>3
  <2>7. Picks(g, n, S)
    BY <2>5, <2>6 DEF Picks
  <2> QED  BY <2>7
<1> QED  BY <1>1

LEMMA OneMoreListed ==
    ASSUME NEW S, S \subseteq Nat, NEW i \in Nat, NEW s, Lists(s, UpTo(S, i))
    PROVE  /\ i + 1 \notin S => Lists(s, UpTo(S, i + 1))
           /\ i + 1 \in S => Lists(Append(s, i + 1), UpTo(S, i + 1))
<1>1. CASE i + 1 \notin S
  <2>1. \A j \in S : j <= i + 1 <=> j <= i
    BY <1>1
  <2>2. UpTo(S, i + 1) = UpTo(S, i)
    BY <2>1 DEF UpTo
  <2> QED  BY <1>1, <2>2
<1>2. CASE i + 1 \in S
  <2>1. \A j \in S : j <= i + 1 <=> j <= i \/ j = i + 1
    OBVIOUS
  <2>2. UpTo(S, i + 1) = UpTo(S, i) \cup {i + 1}
    BY <1>2, <2>1 DEF UpTo
  <2>3. PICK t : t = Append(s, i + 1)
    OBVIOUS
  <2>4. s \in Seq(UpTo(S, i))
    BY DEF Lists
  <2>5. /\ t \in Seq(UpTo(S, i + 1))
        /\ Len(s) \in Nat /\ DOMAIN s = 1..Len(s) /\ DOMAIN t = 1..(Len(s) + 1)
        /\ t[Len(s) + 1] = i + 1 /\ \A k \in 1..Len(s) : t[k] = s[k]
    BY <2>2, <2>3, <2>4
  <2>6. \A j \in UpTo(S, i + 1) : \E k \in DOMAIN t : t[k] = j
    BY <2>2, <2>5 DEF Lists
  <2>7. ASSUME NEW j \in DOMAIN t, NEW k \in DOMAIN t, j < k
        PROVE  t[j] < t[k]
    <3>1. j \in 1..Len(s) /\ t[j] = s[j]
      BY <2>5, <2>7
    <3>2. CASE k = Len(s) + 1
      <4>1. s[j] \in UpTo(S, i)
        BY <2>4, <3>1
      <4>2. s[j] \in Nat /\ s[j] <= i
        BY <4>1 DEF UpTo
      <4>3. t[j] = s[j] /\ t[k] = i + 1
        BY <2>5, <3>1, <3>2
      <4> QED  BY <4>2, <4>3
    <3>3. CASE k \in 1..Len(s)
      BY <2>5, <2>7, <3>1, <3>3 DEF Lists
    <3> QED  BY <2>5, <3>2, <3>3
  <2>8. Lists(t, UpTo(S, i + 1))
    BY <2>5, <2>6, <2>7 DEF Lists
  <2> QED  BY <1>2, <2>3, <2>8
<1> QED  BY <1>1, <1>2

LEMMA InOrderLists ==
    ASSUME NEW n \in Nat, NEW S, S \subseteq 1..n
    PROVE  Lists(InOrder(n, S), S)
<1> DEFINE f == CHOOSE f : Picks(f, n, S)
           Bad == {i \in 0..n : ~Lists(f[i], UpTo(S, i))}
<1>1. Picks(f, n, S)
  BY PicksExists
<1>2. InOrder(n, S) = f[n]
  <2>1. ASSUME NEW g
        PROVE  g = [i \in 0..n |-> IF i = 0 THEN <<>> ELSE
                                   IF i \in S THEN Append(g[i - 1], i) ELSE g[i - 1]]
               <=> Picks(g, n, S)
    BY DEF Picks
  <2>2. (CHOOSE g : g = [i \in 0..n |-> IF i = 0 THEN <<>> ELSE
                                   IF i \in S THEN Append(g[i - 1], i) ELSE g[i - 1]])
        = (CHOOSE g : Picks(g, n, S))
    BY <2>1, Zenon
  <2>3. InOrder(n, S)
        = (CHOOSE g : g = [i \in 0..n |-> IF i = 0 THEN <<>> ELSE
                                   IF i \in S THEN Append(g[i - 1], i) ELSE g[i - 1]])[n]
    BY DEF InOrder
  <2> QED  BY <2>2, <2>3
<1> HIDE DEF f
<1>3. \A i \in 0..n : f[i] = IF i = 0 THEN <<>> ELSE
                             IF i \in S THEN Append(f[i - 1], i) ELSE f[i - 1]
  BY <1>1 DEF Picks
<1>4. Bad = {}
  <2> SUFFICES ASSUME Bad # {}
               PROVE  FALSE
    OBVIOUS
  <2>1. PICK i \in Bad : \A m \in Bad : i <= m
    <3>1. Bad \subseteq Nat
      OBVIOUS
    <3> HIDE DEF Bad
    <3> QED  BY <3>1, SmallestNumber
  <2>2. i # 0
    <3>1. f[0] = <<>>
      BY <1>3
    <3>2. UpTo(S, 0) = {}
      <4>1. \A j \in S : ~(j <= 0)
        OBVIOUS
      <4> QED  BY <4>1 DEF UpTo
    <3>3. Lists(<<>>, {})
      BY DEF Lists
    <3> QED  BY <3>1, <3>2, <3>3
  <2>3. PICK m \in Nat : i = m + 1 /\ m \in 0..n /\ i \in 0..n
    <3>1. i - 1 \in Nat /\ i = (i - 1) + 1 /\ i - 1 \in 0..n
      BY <2>2
    <3> QED  BY <3>1
  <2>4. Lists(f[m], UpTo(S, m))
    BY <2>1, <2>3
  <2>5. f[i] = IF m + 1 \in S THEN Append(f[m], m + 1) ELSE f[m]
    BY <1>3, <2>2, <2>3
  <2>6. ~Lists(f[i], UpTo(S, m + 1))
    BY <2>3
  <2>7. S \subseteq Nat
    OBVIOUS
  <2> HIDE DEF Bad
  <2> QED  BY <2>4, <2>5, <2>6, <2>7, OneMoreListed
<1>5. UpTo(S, n) = S
  <2>1. \A j \in S : j <= n
    OBVIOUS
  <2> QED  BY <2>1 DEF UpTo
<1>6. Lists(f[n], UpTo(S, n))
  BY <1>4
<1> QED  BY <1>2, <1>5, <1>6

(* Hits are shown in groups, one for each page: no header comes twice, an  *)
(* item stands below the header of its page with no other between, a page  *)
(* that has its header has all of its items, in order, and the others are  *)
(* yet to come.                                                            *)
HitLines(bs) ==
    {Header(bs[b]) : b \in DOMAIN bs} \cup {Item(b, 0) : b \in DOMAIN bs}

Under(bs, ls, k) ==
    \E h \in 1..(k - 1) :
        ls[h] = Header(bs[ls[k].of]) /\ \A g \in (h + 1)..k : ~ls[g].header

Grouped(bs, ls, td) ==
    /\ ls \in Seq(HitLines(bs)) /\ td \in Seq(HitLines(bs))
    /\ \A k \in DOMAIN td : td[k].header
    /\ \A j, k \in DOMAIN td : td[j] = td[k] => j = k
    /\ \A j \in DOMAIN ls, k \in DOMAIN td : ls[j] # td[k]
    /\ \A j, k \in DOMAIN ls : ls[j].header /\ ls[j] = ls[k] => j = k
    /\ \A b \in DOMAIN bs : \/ \E k \in DOMAIN td : td[k] = Header(bs[b])
                            \/ \E k \in DOMAIN ls : ls[k] = Header(bs[b])
    /\ ls # <<>> => ls[1] = Header(bs[1])
    /\ ls = <<>> => td # <<>> /\ td[1] = Header(bs[1])
    /\ \A k \in DOMAIN ls : ~ls[k].header => Under(bs, ls, k)
    /\ \A k \in DOMAIN ls, b \in DOMAIN bs :
          ls[k] = Header(bs[b]) => \E l \in DOMAIN ls : ls[l] = Item(b, 0)
    /\ \A j, k \in DOMAIN ls :
          j < k /\ ~ls[j].header /\ ~ls[k].header /\ bs[ls[j].of] = bs[ls[k].of]
          => ls[j].of < ls[k].of

LEMMA LineFacts ==
    /\ \A p : Header(p).header /\ Header(p).of = p
    /\ \A b, d : ~Item(b, d).header /\ Item(b, d).of = b /\ Item(b, d).depth = d
    /\ \A p, q : Header(p) = Header(q) => p = q
    /\ \A p, b, d : Header(p) # Item(b, d)
  BY DEF Header, Item

LEMMA ItemsFacts ==
    ASSUME NEW S, NEW bs \in Seq(S), NEW d
    PROVE  /\ Items(bs, d) \in Seq({Item(b, d) : b \in S})
           /\ Len(Items(bs, d)) = Len(bs) /\ DOMAIN Items(bs, d) = 1..Len(bs)
           /\ \A k \in 1..Len(bs) : Items(bs, d)[k] = Item(bs[k], d)
<1>1. DOMAIN bs = 1..Len(bs) /\ Len(bs) \in Nat /\ \A k \in 1..Len(bs) : bs[k] \in S
  OBVIOUS
<1>2. Items(bs, d) = [k \in 1..Len(bs) |-> Item(bs[k], d)]
  BY <1>1 DEF Items
<1>3. \A k \in 1..Len(bs) : Item(bs[k], d) \in {Item(b, d) : b \in S}
  BY <1>1
<1> QED  BY <1>1, <1>2, <1>3

LEMMA GroupShown ==
    ASSUME NEW T, NEW bs \in Seq(T), NEW ls, NEW td, Grouped(bs, ls, td), td # <<>>,
           NEW hits, Lists(hits, {i \in DOMAIN bs : bs[i] = Head(td).of})
    PROVE  Grouped(bs, ls \o <<Head(td)>> \o Items(hits, 0), Tail(td))
<1> DEFINE On == {i \in DOMAIN bs : bs[i] = Head(td).of}
           N == Len(ls)
<1>1. PICK page : page = Head(td)
  OBVIOUS
<1>2. PICK ns : ns = ls \o <<page>> \o Items(hits, 0)
  OBVIOUS
<1>3. PICK ts : ts = Tail(td)
  OBVIOUS
<1>4. /\ ls \in Seq(HitLines(bs)) /\ td \in Seq(HitLines(bs)) /\ N \in Nat
      /\ DOMAIN ls = 1..N
  BY DEF Grouped
<1>5. page \in HitLines(bs) /\ page = td[1] /\ 1 \in DOMAIN td /\ page.header
  BY <1>1, <1>4 DEF Grouped
<1>6. PICK b0 \in DOMAIN bs : page = Header(bs[b0]) /\ page.of = bs[b0]
  BY <1>5, LineFacts DEF HitLines
<1>7. /\ ts \in Seq(HitLines(bs)) /\ \A k \in DOMAIN ts : k + 1 \in DOMAIN td /\ ts[k] = td[k + 1]
      /\ \A k \in DOMAIN td : k = 1 \/ (k - 1 \in DOMAIN ts /\ ts[k - 1] = td[k])
      /\ \A k \in DOMAIN ts : k \in Nat /\ k >= 1
      /\ \A k \in DOMAIN td : k \in Nat
  BY <1>3, <1>4
<1>8. /\ \A k \in DOMAIN hits : hits[k] \in DOMAIN bs /\ bs[hits[k]] = page.of
      /\ \A i \in DOMAIN bs : bs[i] = page.of => \E k \in DOMAIN hits : hits[k] = i
      /\ \A j, k \in DOMAIN hits : j < k => hits[j] < hits[k]
      /\ hits \in Seq(DOMAIN bs) /\ Len(hits) \in Nat /\ DOMAIN hits = 1..Len(hits)
  <2>1. hits \in Seq(On)
    BY DEF Lists
  <2>2. \A k \in DOMAIN hits : hits[k] \in On
    BY <2>1
  <2> QED  BY <1>1, <2>1, <2>2 DEF Lists
<1>9. PICK M \in Nat : M = Len(hits)
  BY <1>8
<1>10. /\ ns \in Seq(HitLines(bs)) /\ Len(ns) = N + 1 + M /\ DOMAIN ns = 1..(N + 1 + M)
       /\ \A k \in 1..N : ns[k] = ls[k]
       /\ ns[N + 1] = page
       /\ \A k \in 1..M : ns[N + 1 + k] = Item(hits[k], 0)
  <2>1. PICK is : is = Items(hits, 0)
    OBVIOUS
  <2>2. /\ is \in Seq(HitLines(bs)) /\ Len(is) = M /\ \A k \in 1..M : is[k] = Item(hits[k], 0)
        /\ DOMAIN is = 1..M
    <3>1. {Item(b, 0) : b \in DOMAIN bs} \subseteq HitLines(bs)
      BY DEF HitLines
    <3>2. is \in Seq({Item(b, 0) : b \in DOMAIN bs})
      BY <1>8, <2>1, ItemsFacts
    <3>3. is \in Seq(HitLines(bs))
      BY <3>1, <3>2
    <3>4. /\ Len(is) = Len(hits) /\ DOMAIN is = 1..Len(hits)
          /\ \A k \in 1..Len(hits) : is[k] = Item(hits[k], 0)
      <4>1. DOMAIN is = 1..Len(hits) /\ \A k \in 1..Len(hits) : is[k] = Item(hits[k], 0)
        BY <1>8, <2>1 DEF Items
      <4> QED  BY <1>8, <3>3, <4>1
    <3> QED  BY <1>9, <3>3, <3>4
  <2>3. PICK ms : ms = ls \o <<page>>
    OBVIOUS
  <2>4. ms \in Seq(HitLines(bs)) /\ Len(ms) = N + 1 /\ ms[N + 1] = page
        /\ \A k \in 1..N : ms[k] = ls[k]
    BY <1>4, <1>5, <2>3
  <2>5. ns = ms \o is
    BY <1>2, <2>1, <2>3
  <2>6. /\ ns \in Seq(HitLines(bs)) /\ Len(ns) = Len(ms) + Len(is)
        /\ \A k \in 1..(Len(ms) + Len(is)) :
              ns[k] = IF k <= Len(ms) THEN ms[k] ELSE is[k - Len(ms)]
    BY <2>2, <2>4, <2>5, ConcatProperties
  <2>7. Len(ns) = N + 1 + M /\ DOMAIN ns = 1..(N + 1 + M)
    BY <1>4, <2>2, <2>4, <2>6
  <2>8. ASSUME NEW k \in 1..(N + 1)
        PROVE  ns[k] = ms[k]
    BY <1>4, <2>2, <2>4, <2>6
  <2>9. ASSUME NEW k \in 1..M
        PROVE  ns[N + 1 + k] = is[k]
    <3>1. /\ N + 1 + k \in 1..(N + 1 + M) /\ ~(N + 1 + k <= N + 1)
          /\ (N + 1 + k) - (N + 1) = k
      BY <1>4
    <3> QED  BY <2>2, <2>4, <2>6, <3>1
  <2> QED  BY <1>4, <2>2, <2>4, <2>6, <2>7, <2>8, <2>9
<1>11. \A k \in DOMAIN ns : \/ k \in 1..N /\ ns[k] = ls[k]
                            \/ k = N + 1 /\ ns[k] = page
                            \/ \E m \in 1..M : k = N + 1 + m /\ ns[k] = Item(hits[m], 0)
  <2> SUFFICES ASSUME NEW k \in DOMAIN ns, ~(k \in 1..N), k # N + 1
               PROVE  \E m \in 1..M : k = N + 1 + m /\ ns[k] = Item(hits[m], 0)
    BY <1>10
  <2>1. k - (N + 1) \in 1..M /\ k = N + 1 + (k - (N + 1))
    BY <1>4, <1>10
  <2> QED  BY <1>10, <2>1
<1> HIDE DEF On, N
<1>12. /\ \A k \in DOMAIN ts : ts[k].header
       /\ \A j, k \in DOMAIN ts : ts[j] = ts[k] => j = k
  <2>1. ASSUME NEW j \in DOMAIN ts, NEW k \in DOMAIN ts, ts[j] = ts[k]
        PROVE  j = k
    <3>1. j + 1 = k + 1
      BY <1>7, <2>1 DEF Grouped
    <3> QED  BY <1>7, <3>1
  <2> QED  BY <1>7, <2>1 DEF Grouped
<1>13. \A j \in DOMAIN ls : ls[j] # page
  BY <1>5 DEF Grouped
<1>14. \A j \in DOMAIN ns, k \in DOMAIN ts : ns[j] # ts[k]
  <2> SUFFICES ASSUME NEW j \in DOMAIN ns, NEW k \in DOMAIN ts
               PROVE  ns[j] # ts[k]
    OBVIOUS
  <2>1. ts[k] = td[k + 1] /\ k + 1 \in DOMAIN td /\ k + 1 # 1
    BY <1>7
  <2>2. td[k + 1] # td[1]
    BY <1>5, <2>1 DEF Grouped
  <2>3. td[k + 1].header
    BY <2>1 DEF Grouped
  <2>4. CASE j \in 1..N /\ ns[j] = ls[j]
    BY <1>4, <2>1, <2>4 DEF Grouped
  <2>5. CASE ns[j] = page
    BY <1>5, <2>1, <2>2, <2>5
  <2>6. CASE \E m \in 1..M : ns[j] = Item(hits[m], 0)
    BY <2>1, <2>3, <2>6, LineFacts
  <2> QED  BY <1>11, <2>4, <2>5, <2>6
<1>15. \A j, k \in DOMAIN ns : ns[j].header /\ ns[j] = ns[k] => j = k
  <2>1. \A j \in DOMAIN ns : ns[j].header => \/ j \in DOMAIN ls /\ ns[j] = ls[j]
                                             \/ j = N + 1 /\ ns[j] = page
    BY <1>4, <1>11, LineFacts
  <2> QED  BY <1>13, <2>1 DEF Grouped
<1>16. \A b \in DOMAIN bs : \/ \E k \in DOMAIN ts : ts[k] = Header(bs[b])
                            \/ \E k \in DOMAIN ns : ns[k] = Header(bs[b])
  <2> SUFFICES ASSUME NEW b \in DOMAIN bs
               PROVE  \/ \E k \in DOMAIN ts : ts[k] = Header(bs[b])
                      \/ \E k \in DOMAIN ns : ns[k] = Header(bs[b])
    OBVIOUS
  <2>1. N + 1 \in DOMAIN ns /\ \A k \in DOMAIN ls : k \in DOMAIN ns /\ ns[k] = ls[k]
    BY <1>4, <1>10
  <2>2. CASE \E k \in DOMAIN ls : ls[k] = Header(bs[b])
    BY <2>1, <2>2
  <2>3. ASSUME NEW k \in DOMAIN td, td[k] = Header(bs[b])
        PROVE  \/ \E l \in DOMAIN ts : ts[l] = Header(bs[b])
               \/ \E l \in DOMAIN ns : ns[l] = Header(bs[b])
    <3>1. CASE k = 1
      BY <1>5, <2>1, <1>10, <2>3, <3>1
    <3>2. CASE k # 1
      BY <1>7, <2>3, <3>2
    <3> QED  BY <3>1, <3>2
  <2>4. \/ \E k \in DOMAIN td : td[k] = Header(bs[b])
        \/ \E k \in DOMAIN ls : ls[k] = Header(bs[b])
    BY DEF Grouped
  <2> QED  BY <2>2, <2>3, <2>4
<1>17. ns # <<>> /\ ns[1] = Header(bs[1])
  <2>1. CASE ls = <<>>
    <3>1. N = 0 /\ td[1] = Header(bs[1])
      BY <2>1 DEF Grouped, N
    <3> QED  BY <1>5, <1>10, <3>1
  <2>2. CASE ls # <<>>
    <3>1. 1 \in 1..N /\ ls[1] = Header(bs[1])
      BY <1>4, <2>2 DEF Grouped, N
    <3> QED  BY <1>4, <1>10, <3>1
  <2> QED  BY <2>1, <2>2
<1>18. \A k \in DOMAIN ns : ~ns[k].header => Under(bs, ns, k)
  <2> SUFFICES ASSUME NEW k \in DOMAIN ns, ~ns[k].header
               PROVE  Under(bs, ns, k)
    OBVIOUS
  <2>1. CASE k \in 1..N /\ ns[k] = ls[k]
    <3>1. Under(bs, ls, k)
      BY <1>4, <2>1 DEF Grouped
    <3>2. PICK h \in 1..(k - 1) :
             ls[h] = Header(bs[ls[k].of]) /\ \A g \in (h + 1)..k : ~ls[g].header
      BY <3>1 DEF Under
    <3>3. h \in 1..N /\ \A g \in (h + 1)..k : g \in 1..N
      BY <1>4, <2>1, <3>2
    <3>4. ns[h] = Header(bs[ns[k].of]) /\ \A g \in (h + 1)..k : ~ns[g].header
      BY <1>10, <2>1, <3>2, <3>3
    <3> QED  BY <3>2, <3>4 DEF Under
  <2>2. ASSUME NEW m \in 1..M, k = N + 1 + m, ns[k] = Item(hits[m], 0)
        PROVE  Under(bs, ns, k)
    <3>1. ns[N + 1] = Header(bs[ns[k].of])
      BY <1>6, <1>8, <1>9, <1>10, <2>2, LineFacts
    <3>2. ASSUME NEW g \in (N + 2)..k
          PROVE  ~ns[g].header
      <4>1. g - (N + 1) \in 1..M /\ g = N + 1 + (g - (N + 1))
        BY <1>4, <2>2
      <4> QED  BY <1>10, <4>1, LineFacts
    <3>3. N + 1 \in 1..(k - 1) /\ (N + 1) + 1 = N + 2
      BY <1>4, <2>2
    <3> QED  BY <3>1, <3>2, <3>3 DEF Under
  <2> QED  BY <1>5, <1>11, <2>1, <2>2
<1>19. \A k \in DOMAIN ns, b \in DOMAIN bs :
          ns[k] = Header(bs[b]) => \E l \in DOMAIN ns : ns[l] = Item(b, 0)
  <2> SUFFICES ASSUME NEW k \in DOMAIN ns, NEW b \in DOMAIN bs, ns[k] = Header(bs[b])
               PROVE  \E l \in DOMAIN ns : ns[l] = Item(b, 0)
    OBVIOUS
  <2>1. CASE k \in 1..N /\ ns[k] = ls[k]
    <3>1. \A i \in DOMAIN ls, a \in DOMAIN bs :
             ls[i] = Header(bs[a]) => \E l \in DOMAIN ls : ls[l] = Item(a, 0)
      BY DEF Grouped
    <3>2. k \in DOMAIN ls /\ ls[k] = Header(bs[b])
      BY <1>4, <2>1
    <3>3. PICK l \in DOMAIN ls : ls[l] = Item(b, 0)
      BY <3>1, <3>2
    <3>4. l \in DOMAIN ns /\ ns[l] = ls[l]
      BY <1>4, <1>10
    <3> QED  BY <3>3, <3>4
  <2>2. CASE ns[k] = page
    <3>1. bs[b] = page.of
      BY <1>6, <2>2, LineFacts
    <3>2. PICK m \in DOMAIN hits : hits[m] = b
      BY <1>8, <3>1
    <3>3. m \in 1..M /\ N + 1 + m \in DOMAIN ns
      BY <1>4, <1>8, <1>9, <1>10
    <3> QED  BY <1>10, <3>2, <3>3
  <2>3. ns[k].header
    BY LineFacts
  <2> QED  BY <1>11, <2>1, <2>2, <2>3, LineFacts
<1>20. ASSUME NEW j \in DOMAIN ns, NEW k \in DOMAIN ns, j < k, ~ns[j].header, ~ns[k].header,
              bs[ns[j].of] = bs[ns[k].of]
       PROVE  ns[j].of < ns[k].of
  <2>1. CASE j \in 1..N /\ ns[j] = ls[j] /\ k \in 1..N /\ ns[k] = ls[k]
    BY <1>4, <1>20, <2>1 DEF Grouped
  <2>2. ASSUME NEW m \in 1..M, ns[k] = Item(hits[m], 0), k = N + 1 + m,
               NEW n \in 1..M, ns[j] = Item(hits[n], 0), j = N + 1 + n
        PROVE  ns[j].of < ns[k].of
    <3>1. n < m
      BY <1>4, <1>20, <2>2
    <3> QED  BY <1>8, <1>9, <2>2, <3>1, LineFacts
  <2>3. ASSUME NEW m \in 1..M, ns[k] = Item(hits[m], 0), j \in 1..N, ns[j] = ls[j]
        PROVE  FALSE
    <3>1. bs[ns[j].of] = page.of
      BY <1>8, <1>9, <1>20, <2>3, LineFacts
    <3>2. Under(bs, ls, j)
      BY <1>4, <1>20, <2>3 DEF Grouped
    <3>3. PICK h \in 1..(j - 1) : ls[h] = Header(bs[ls[j].of])
      BY <3>2 DEF Under
    <3>4. h \in DOMAIN ls
      BY <1>4, <2>3
    <3> QED  BY <1>6, <1>13, <2>3, <3>1, <3>3, <3>4
  <2>4. j \in 1..N => k \in 1..N \/ \E m \in 1..M : ns[k] = Item(hits[m], 0)
    BY <1>5, <1>11, <1>20
  <2>5. ~(j \in 1..N) => \E n \in 1..M : j = N + 1 + n /\ ns[j] = Item(hits[n], 0)
    BY <1>5, <1>11, <1>20
  <2>6. ~(j \in 1..N) => \E m \in 1..M : k = N + 1 + m /\ ns[k] = Item(hits[m], 0)
    <3>1. ~(j \in 1..N) => ~(k \in 1..N)
      BY <1>4, <1>10, <1>20
    <3> QED  BY <1>5, <1>11, <1>20, <3>1
  <2> QED  BY <1>10, <2>1, <2>2, <2>3, <2>4, <2>5, <2>6
<1>21. Grouped(bs, ns, ts)
  BY <1>7, <1>10, <1>12, <1>14, <1>15, <1>16, <1>17, <1>18, <1>19, <1>20 DEF Grouped
<1> QED  BY <1>1, <1>2, <1>3, <1>21

LEMMA GroupsAtFirst ==
    ASSUME NEW T, NEW bs \in Seq(T), bs # <<>>
    PROVE  Grouped(bs, <<>>, [k \in DOMAIN FirstHits(bs) |-> Header(bs[FirstHits(bs)[k]])])
<1> DEFINE S == {i \in DOMAIN bs : \A j \in 1..(i - 1) : bs[j] # bs[i]}
<1>1. PICK fs : fs = FirstHits(bs)
  OBVIOUS
<1>2. PICK td : td = [k \in DOMAIN fs |-> Header(bs[fs[k]])]
  OBVIOUS
<1>3. Len(bs) \in Nat /\ DOMAIN bs = 1..Len(bs) /\ S \subseteq 1..Len(bs)
  OBVIOUS
<1>4. Lists(fs, S)
  <2>1. fs = InOrder(Len(bs), S)
    BY <1>1 DEF FirstHits
  <2> HIDE DEF S
  <2> QED  BY <1>3, <2>1, InOrderLists
<1>5. /\ \A k \in DOMAIN fs : fs[k] \in S
      /\ \A i \in S : \E k \in DOMAIN fs : fs[k] = i
      /\ \A j, k \in DOMAIN fs : j < k => fs[j] < fs[k]
      /\ DOMAIN fs = 1..Len(fs) /\ Len(fs) \in Nat
  <2> HIDE DEF S
  <2> QED  BY <1>4 DEF Lists
<1>6. /\ td \in Seq(HitLines(bs)) /\ DOMAIN td = DOMAIN fs
      /\ \A k \in DOMAIN fs : td[k] = Header(bs[fs[k]])
  <2>1. \A k \in 1..Len(fs) : td[k] \in HitLines(bs)
    BY <1>2, <1>5 DEF HitLines
  <2> QED  BY <1>2, <1>5, <2>1
<1>7. \A i, j \in S : bs[i] = bs[j] => i = j
  <2> SUFFICES ASSUME NEW i \in S, NEW j \in S, bs[i] = bs[j], i < j
               PROVE  FALSE
    BY <1>3
  <2>1. i \in 1..(j - 1)
    BY <1>3
  <2> QED  BY <2>1
<1>8. \A b \in DOMAIN bs : \E i \in S : bs[i] = bs[b]
  <2> SUFFICES ASSUME NEW b \in DOMAIN bs
               PROVE  \E i \in S : bs[i] = bs[b]
    OBVIOUS
  <2> DEFINE Same == {i \in DOMAIN bs : bs[i] = bs[b]}
  <2>1. Same \subseteq Nat /\ Same # {}
    BY <1>3
  <2>2. PICK i \in Same : \A m \in Same : i <= m
    <3> HIDE DEF Same
    <3> QED  BY <2>1, SmallestNumber
  <2>3. ASSUME NEW j \in 1..(i - 1), bs[j] = bs[i]
        PROVE  FALSE
    <3>1. j \in Same
      BY <1>3, <2>3
    <3>2. ~(i <= j) /\ i \in Nat
      BY <1>3, <2>3
    <3> QED  BY <2>2, <3>1, <3>2
  <2> QED  BY <2>3
<1>9. 1 \in S /\ \A i \in S : i \in Nat
  BY <1>3
<1> HIDE DEF S
<1>10. 1 \in DOMAIN td /\ td[1] = Header(bs[1])
  <2>1. PICK k \in DOMAIN fs : fs[k] = 1
    BY <1>5, <1>9
  <2>2. k = 1
    <3>1. 1 \in DOMAIN fs /\ k \in Nat /\ k >= 1
      BY <1>5
    <3>2. fs[1] \in 1..Len(bs)
      BY <1>3, <1>5, <3>1
    <3>3. ~(fs[1] < fs[k])
      BY <2>1, <3>2
    <3> QED  BY <1>5, <3>1, <3>3
  <2> QED  BY <1>6, <2>1, <2>2
<1>11. \A j, k \in DOMAIN td : td[j] = td[k] => j = k
  <2> SUFFICES ASSUME NEW j \in DOMAIN td, NEW k \in DOMAIN td, td[j] = td[k]
               PROVE  j = k
    OBVIOUS
  <2>1. fs[j] = fs[k] /\ fs[j] \in Nat
    <3>1. Header(bs[fs[j]]) = Header(bs[fs[k]]) /\ fs[j] \in S /\ fs[k] \in S
      BY <1>5, <1>6
    <3>2. bs[fs[j]] = bs[fs[k]]
      BY <3>1, LineFacts
    <3>3. fs[j] = fs[k]
      BY <1>7, <3>1, <3>2
    <3>4. fs[j] \in Nat
      BY <1>9, <3>1
    <3> QED  BY <3>3, <3>4
  <2>2. ~(fs[j] < fs[k]) /\ ~(fs[k] < fs[j])
    BY <2>1
  <2> QED  BY <1>5, <1>6, <2>2
<1>12. \A b \in DOMAIN bs : \E k \in DOMAIN td : td[k] = Header(bs[b])
  <2> SUFFICES ASSUME NEW b \in DOMAIN bs
               PROVE  \E k \in DOMAIN td : td[k] = Header(bs[b])
    OBVIOUS
  <2>1. PICK i \in S : bs[i] = bs[b]
    BY <1>8
  <2>2. PICK k \in DOMAIN fs : fs[k] = i
    BY <1>5
  <2> QED  BY <1>6, <2>1, <2>2
<1>13. \A k \in DOMAIN td : td[k].header
  BY <1>6, LineFacts
<1>14. <<>> \in Seq(HitLines(bs)) /\ DOMAIN <<>> = {} /\ td # <<>>
  BY <1>10
<1>15. Grouped(bs, <<>>, td)
  BY <1>6, <1>10, <1>11, <1>12, <1>13, <1>14 DEF Grouped
<1> QED  BY <1>1, <1>2, <1>15

LEMMA HitsPromise ==
    ASSUME NEW T, blocks \in Seq(T), Grouped(blocks, lines, <<>>)
    PROVE  EveryHitOnce
<1> DEFINE At(b) == {k \in DOMAIN lines : lines[k] = Item(b, 0)}
           Heads == {k \in DOMAIN lines : lines[k].header}
           HeadOf(k) == Max({h \in Heads : h < k})
<1>1. lines \in Seq(HitLines(blocks)) /\ DOMAIN lines \subseteq Nat /\ DOMAIN lines = 1..Len(lines)
  BY DEF Grouped
<1>2. SUFFICES ASSUME lines # <<>>
               PROVE  /\ lines[1] = Header(blocks[1])
                      /\ \A h, g \in Heads : lines[h] = lines[g] => h = g
                      /\ \A b \in DOMAIN blocks : \E k \in At(b) :
                            At(b) = {k} /\ lines[HeadOf(k)] = Header(blocks[b])
                      /\ \A b, c \in DOMAIN blocks : b < c /\ blocks[b] = blocks[c] =>
                            \A k \in At(b), l \in At(c) : k < l
  BY DEF EveryHitOnce, Shown
<1>3. lines[1] = Header(blocks[1])
  BY <1>2 DEF Grouped
<1>4. \A h, g \in Heads : lines[h] = lines[g] => h = g
  BY DEF Grouped
<1>5. ASSUME NEW b \in DOMAIN blocks, NEW c \in DOMAIN blocks, blocks[b] = blocks[c],
             NEW k \in At(b), NEW l \in At(c), k < l
      PROVE  b < c
  <2>1. ~lines[k].header /\ ~lines[l].header /\ lines[k].of = b /\ lines[l].of = c
    BY LineFacts
  <2> QED  BY <1>5, <2>1 DEF Grouped
<1>6. \A b, c \in DOMAIN blocks : b < c /\ blocks[b] = blocks[c] =>
         \A k \in At(b), l \in At(c) : k < l
  <2> SUFFICES ASSUME NEW b \in DOMAIN blocks, NEW c \in DOMAIN blocks, b < c,
                      blocks[b] = blocks[c], NEW k \in At(b), NEW l \in At(c)
               PROVE  k < l
    OBVIOUS
  <2>1. b \in Nat /\ c \in Nat /\ k \in Nat /\ l \in Nat
    BY <1>1
  <2>2. ~(l < k)
    <3>1. ~(c < b)
      BY <2>1
    <3> HIDE DEF At
    <3> QED  BY <1>5, <3>1
  <2>3. k # l
    <3>1. lines[k].of = b /\ lines[l].of = c
      BY LineFacts
    <3> QED  BY <2>1, <3>1
  <2> QED  BY <2>1, <2>2, <2>3
<1>7. ASSUME NEW b \in DOMAIN blocks
      PROVE  \E k \in At(b) : At(b) = {k} /\ lines[HeadOf(k)] = Header(blocks[b])
  <2>1. PICK k : k \in At(b)
    <3>1. \E k \in DOMAIN lines : lines[k] = Header(blocks[b])
      BY DEF Grouped
    <3>2. \E k \in DOMAIN lines : lines[k] = Item(b, 0)
      BY <3>1 DEF Grouped
    <3> QED  BY <3>2
  <2>2. At(b) = {k}
    <3>1. ASSUME NEW l \in At(b)
          PROVE  l = k
      <4>1. l \in Nat /\ k \in Nat /\ b \in Nat
        BY <1>1, <2>1
      <4>2. ~(l < k) /\ ~(k < l)
        <5>1. ~(b < b)
          BY <4>1
        <5> HIDE DEF At
        <5> QED  BY <1>5, <2>1, <3>1, <5>1
      <4> QED  BY <4>1, <4>2
    <3> HIDE DEF At
    <3> QED  BY <2>1, <3>1
  <2>3. k \in DOMAIN lines /\ k \in Nat /\ ~lines[k].header /\ lines[k].of = b
    BY <1>1, <2>1, LineFacts
  <2>4. PICK h \in 1..(k - 1) :
           lines[h] = Header(blocks[b]) /\ \A g \in (h + 1)..k : ~lines[g].header
    BY <2>3 DEF Grouped, Under
  <2>5. HeadOf(k) = h
    <3> DEFINE Above == {g \in Heads : g < k}
    <3>1. h \in Above /\ Above \subseteq Nat
      BY <1>1, <2>3, <2>4, LineFacts
    <3>2. \A g \in Above : g <= h
      <4> SUFFICES ASSUME NEW g \in Above, ~(g <= h)
                   PROVE  FALSE
        OBVIOUS
      <4>1. g \in (h + 1)..k
        BY <1>1, <2>3, <2>4
      <4> QED  BY <2>4, <4>1
    <3> HIDE DEF Above
    <3>3. Max(Above) = h
      BY <3>1, <3>2, MaxIs
    <3> QED  BY <3>3 DEF Above
  <2> QED  BY <2>1, <2>2, <2>4, <2>5
<1> QED  BY <1>3, <1>4, <1>6, <1>7

-----------------------------------------------------------------------------
(* The tree of a page.  The way to a block is its ancestors from a root    *)
(* down to itself.  There is at most one, and no block is twice on it.     *)
Way(bs, p, b) ==
    /\ p \in Seq(DOMAIN bs) /\ p # <<>> /\ p[Len(p)] = b
    /\ bs[p[1]] \notin DOMAIN bs
    /\ \A k \in 2..Len(p) : bs[p[k]] = p[k - 1]

LEMMA WayFacts ==
    ASSUME NEW bs, NEW p, NEW b, Way(bs, p, b)
    PROVE  /\ Len(p) \in Nat /\ Len(p) >= 1 /\ DOMAIN p = 1..Len(p)
           /\ \A k \in 1..Len(p) : p[k] \in DOMAIN bs
           /\ \A k \in Nat : 1 <= k /\ k < Len(p) => bs[p[k + 1]] = p[k]
           /\ b \in DOMAIN bs
<1>1. p \in Seq(DOMAIN bs) /\ p # <<>> /\ p[Len(p)] = b
  BY DEF Way
<1>2. /\ Len(p) \in Nat /\ Len(p) >= 1 /\ DOMAIN p = 1..Len(p)
      /\ \A k \in 1..Len(p) : p[k] \in DOMAIN bs
  BY <1>1
<1>3. ASSUME NEW k \in Nat, 1 <= k, k < Len(p)
      PROVE  bs[p[k + 1]] = p[k]
  <2>1. k + 1 \in 2..Len(p) /\ (k + 1) - 1 = k
    BY <1>2, <1>3
  <2> QED  BY <2>1 DEF Way
<1>4. Len(p) \in 1..Len(p)
  BY <1>2
<1> QED  BY <1>1, <1>2, <1>3, <1>4

LEMMA WaysMeet ==
    ASSUME NEW bs, NEW b, NEW p, Way(bs, p, b), NEW q, Way(bs, q, b),
           NEW i \in Nat, i < Len(p), i < Len(q)
    PROVE  p[Len(p) - i] = q[Len(q) - i]
<1> DEFINE Bad == {k \in Nat : k < Len(p) /\ k < Len(q) /\ p[Len(p) - k] # q[Len(q) - k]}
<1>1. Bad = {}
  <2> SUFFICES ASSUME Bad # {}
               PROVE  FALSE
    OBVIOUS
  <2>1. PICK n \in Bad : \A m \in Bad : n <= m
    <3>1. Bad \subseteq Nat
      OBVIOUS
    <3> HIDE DEF Bad
    <3> QED  BY <3>1, SmallestNumber
  <2>2. Len(p) \in Nat /\ Len(q) \in Nat
    BY WayFacts
  <2>3. n \in Nat /\ n < Len(p) /\ n < Len(q) /\ p[Len(p) - n] # q[Len(q) - n]
    OBVIOUS
  <2>4. n # 0
    <3>1. Len(p) - 0 = Len(p) /\ Len(q) - 0 = Len(q)
      BY <2>2
    <3>2. p[Len(p)] = q[Len(q)]
      BY DEF Way
    <3> QED  BY <2>3, <3>1, <3>2
  <2>5. n - 1 \in Nat /\ n - 1 < Len(p) /\ n - 1 < Len(q) /\ ~(n <= n - 1)
    BY <2>2, <2>3, <2>4
  <2>6. p[Len(p) - (n - 1)] = q[Len(q) - (n - 1)]
    BY <2>1, <2>5
  <2>7. /\ Len(p) - n \in Nat /\ 1 <= Len(p) - n /\ Len(p) - n < Len(p)
        /\ (Len(p) - n) + 1 = Len(p) - (n - 1)
        /\ Len(q) - n \in Nat /\ 1 <= Len(q) - n /\ Len(q) - n < Len(q)
        /\ (Len(q) - n) + 1 = Len(q) - (n - 1)
    BY <2>2, <2>3, <2>4
  <2>8. bs[p[Len(p) - (n - 1)]] = p[Len(p) - n] /\ bs[q[Len(q) - (n - 1)]] = q[Len(q) - n]
    <3>1. bs[p[(Len(p) - n) + 1]] = p[Len(p) - n]
      BY <2>7, WayFacts
    <3>2. bs[q[(Len(q) - n) + 1]] = q[Len(q) - n]
      BY <2>7, WayFacts
    <3> QED  BY <2>7, <3>1, <3>2
  <2> QED  BY <2>3, <2>6, <2>8
<1> QED  BY <1>1

LEMMA NotShorter ==
    ASSUME NEW bs, NEW b, NEW p, Way(bs, p, b), NEW q, Way(bs, q, b)
    PROVE  ~(Len(p) < Len(q))
<1> SUFFICES ASSUME Len(p) < Len(q)
             PROVE  FALSE
  OBVIOUS
<1>1. Len(p) \in Nat /\ Len(q) \in Nat /\ Len(p) >= 1
  BY WayFacts
<1> DEFINE d == Len(q) - Len(p)
<1>2. d \in Nat /\ Len(q) = Len(p) + d /\ d >= 1
  BY <1>1
<1> HIDE DEF d
<1>3. /\ Len(p) - 1 \in Nat /\ Len(p) - 1 < Len(p) /\ Len(p) - 1 < Len(q)
      /\ Len(p) - (Len(p) - 1) = 1 /\ Len(q) - (Len(p) - 1) = d + 1
  BY <1>1, <1>2
<1>4. p[1] = q[d + 1]
  <2>1. p[Len(p) - (Len(p) - 1)] = q[Len(q) - (Len(p) - 1)]
    BY <1>3, WaysMeet
  <2> QED  BY <1>3, <2>1
<1>5. bs[q[d + 1]] = q[d] /\ q[d] \in DOMAIN bs
  <2>1. d < Len(q) /\ d \in 1..Len(q)
    BY <1>1, <1>2
  <2> QED  BY <1>2, <2>1, WayFacts
<1> QED  BY <1>4, <1>5 DEF Way

LEMMA OneWay ==
    ASSUME NEW bs, NEW b, NEW p, Way(bs, p, b), NEW q, Way(bs, q, b)
    PROVE  p = q
<1>1. Len(p) \in Nat /\ Len(q) \in Nat /\ DOMAIN p = 1..Len(p) /\ DOMAIN q = 1..Len(q)
  BY WayFacts
<1>2. Len(p) = Len(q)
  <2>1. ~(Len(p) < Len(q)) /\ ~(Len(q) < Len(p))
    BY NotShorter
  <2>2. \A m, n \in Nat : ~(m < n) /\ ~(n < m) => m = n
    OBVIOUS
  <2> QED  BY <1>1, <2>1, <2>2
<1>3. ASSUME NEW k \in 1..Len(p)
      PROVE  p[k] = q[k]
  <2>1. /\ Len(p) - k \in Nat /\ Len(p) - k < Len(p) /\ Len(p) - k < Len(q)
        /\ Len(p) - (Len(p) - k) = k /\ Len(q) - (Len(p) - k) = k
    BY <1>1, <1>2
  <2>2. p[Len(p) - (Len(p) - k)] = q[Len(q) - (Len(p) - k)]
    BY <2>1, WaysMeet
  <2> QED  BY <2>1, <2>2
<1>4. p \in Seq(DOMAIN bs) /\ q \in Seq(DOMAIN bs)
  BY DEF Way
<1> QED  BY <1>1, <1>2, <1>3, <1>4

LEMMA NoBlockTwice ==
    ASSUME NEW bs, NEW b, NEW p, Way(bs, p, b)
    PROVE  \A i, j \in 1..Len(p) : p[i] = p[j] => i = j
<1> DEFINE Bad == {i \in Nat : i \in 1..Len(p) /\ \E j \in 1..Len(p) : i < j /\ p[i] = p[j]}
<1>1. Len(p) \in Nat
  BY WayFacts
<1>2. Bad = {}
  <2> SUFFICES ASSUME Bad # {}
               PROVE  FALSE
    OBVIOUS
  <2>1. PICK n \in Bad : \A m \in Bad : n <= m
    <3>1. Bad \subseteq Nat
      OBVIOUS
    <3> HIDE DEF Bad
    <3> QED  BY <3>1, SmallestNumber
  <2>2. n \in 1..Len(p)
    OBVIOUS
  <2>3. PICK j \in 1..Len(p) : n < j /\ p[n] = p[j]
    OBVIOUS
  <2>4. /\ j - 1 \in Nat /\ 1 <= j - 1 /\ j - 1 < Len(p) /\ (j - 1) + 1 = j
        /\ j - 1 \in 1..Len(p)
    BY <1>1, <2>2, <2>3
  <2>5. bs[p[j]] = p[j - 1] /\ p[j - 1] \in DOMAIN bs
    <3>1. bs[p[(j - 1) + 1]] = p[j - 1]
      BY <2>4, WayFacts
    <3> QED  BY <2>4, <3>1, WayFacts
  <2>6. n # 1
    BY <2>3, <2>5 DEF Way
  <2>7. /\ n - 1 \in Nat /\ 1 <= n - 1 /\ n - 1 < Len(p) /\ (n - 1) + 1 = n
        /\ n - 1 \in 1..Len(p) /\ n - 1 < j - 1 /\ ~(n <= n - 1)
    BY <1>1, <2>2, <2>3, <2>6
  <2>8. bs[p[n]] = p[n - 1]
    <3>1. bs[p[(n - 1) + 1]] = p[n - 1]
      BY <2>7, WayFacts
    <3> QED  BY <2>7, <3>1
  <2>9. n - 1 \in Bad
    BY <2>3, <2>4, <2>5, <2>7, <2>8
  <2> QED  BY <2>1, <2>7, <2>9
<1>3. ASSUME NEW i \in 1..Len(p), NEW j \in 1..Len(p), p[i] = p[j], i # j
      PROVE  FALSE
  <2>1. i < j \/ j < i
    BY <1>3
  <2> QED  BY <1>2, <1>3, <2>1
<1> QED  BY <1>3

LEMMA NumbersUpTo ==
    ASSUME NEW n \in Nat
    PROVE  IsFiniteSet(1..n) /\ Cardinality(1..n) = n
<1>1. /\ IsFiniteSet(1..n)
      /\ Cardinality(1..n) = IF 1 > n THEN 0 ELSE n - 1 + 1
  BY FS_Interval
<1> QED  BY <1>1

LEMMA WayBound ==
    ASSUME NEW T, NEW bs \in Seq(T), NEW b, NEW p, Way(bs, p, b)
    PROVE  Len(p) \in 1..Len(bs)
<1>1. Len(p) \in Nat /\ Len(p) >= 1 /\ Len(bs) \in Nat /\ DOMAIN bs = 1..Len(bs)
  BY WayFacts
<1>2. p \in [1..Len(p) -> 1..Len(bs)]
  BY <1>1 DEF Way
<1>3. /\ IsFiniteSet(1..Len(p)) /\ Cardinality(1..Len(p)) = Len(p)
      /\ IsFiniteSet(1..Len(bs)) /\ Cardinality(1..Len(bs)) = Len(bs)
  BY <1>1, NumbersUpTo
<1>4. ASSUME Len(bs) < Len(p)
      PROVE  FALSE
  <2>1. \E i, j \in 1..Len(p) : i # j /\ p[i] = p[j]
    BY <1>2, <1>3, <1>4, FS_PigeonHole
  <2> QED  BY <2>1, NoBlockTwice
<1> QED  BY <1>1, <1>4

LEMMA OneStepOn ==
    ASSUME NEW bs, NEW h, NEW p, Way(bs, p, h), NEW c \in DOMAIN bs, bs[c] = h
    PROVE  Way(bs, Append(p, c), c)
<1>1. p \in Seq(DOMAIN bs) /\ Len(p) \in Nat /\ Len(p) >= 1 /\ p[Len(p)] = h
  BY WayFacts DEF Way
<1>2. PICK q : q = Append(p, c)
  OBVIOUS
<1>3. /\ q \in Seq(DOMAIN bs) /\ q # <<>> /\ Len(q) = Len(p) + 1 /\ q[Len(p) + 1] = c
      /\ \A k \in 1..Len(p) : q[k] = p[k]
  BY <1>1, <1>2
<1>4. bs[q[1]] \notin DOMAIN bs
  BY <1>1, <1>3 DEF Way
<1>5. ASSUME NEW k \in 2..Len(q)
      PROVE  bs[q[k]] = q[k - 1]
  <2>1. CASE k \in 2..Len(p)
    BY <1>1, <1>3, <2>1 DEF Way
  <2>2. CASE k = Len(p) + 1
    BY <1>1, <1>3, <2>2
  <2> QED  BY <1>1, <1>3, <2>1, <2>2
<1> QED  BY <1>2, <1>3, <1>4, <1>5 DEF Way

LEMMA RootWay ==
    ASSUME NEW bs, NEW r \in DOMAIN bs, bs[r] \notin DOMAIN bs
    PROVE  Way(bs, <<r>>, r)
<1>1. <<r>> \in Seq(DOMAIN bs) /\ Len(<<r>>) = 1 /\ <<r>>[1] = r /\ <<r>> # <<>>
  OBVIOUS
<1> QED  BY <1>1 DEF Way

WayTo(bs, b) == CHOOSE p : Way(bs, p, b)

LEMMA WayToIs ==
    ASSUME NEW bs, NEW b, NEW p, Way(bs, p, b)
    PROVE  WayTo(bs, b) = p
<1>1. Way(bs, WayTo(bs, b), b)
  BY DEF WayTo
<1> QED  BY <1>1, OneWay

(* A way comes before those it is the beginning of, and of two that part   *)
(* the one with the smaller block does.                                    *)
Starts(p, q) == Len(p) < Len(q) /\ \A i \in 1..Len(p) : p[i] = q[i]

Apart(p, q) ==
    \E k \in Nat : /\ 1 <= k /\ k <= Len(p) /\ k <= Len(q)
                   /\ p[k] < q[k] /\ \A i \in 1..(k - 1) : p[i] = q[i]

LEMMA OrderOfWays ==
    ASSUME NEW p \in Seq(Nat), NEW q \in Seq(Nat), NEW c \in Nat
    PROVE  /\ Starts(p, Append(p, c))
           /\ Starts(p, q) => Starts(p, Append(q, c))
           /\ Apart(p, q) => Apart(p, Append(q, c)) /\ Apart(Append(p, c), q)
<1>1. /\ Len(p) \in Nat /\ Len(Append(p, c)) = Len(p) + 1
      /\ \A k \in 1..Len(p) : Append(p, c)[k] = p[k]
      /\ Len(q) \in Nat /\ Len(Append(q, c)) = Len(q) + 1
      /\ \A k \in 1..Len(q) : Append(q, c)[k] = q[k]
  OBVIOUS
<1>2. Starts(p, Append(p, c))
  BY <1>1 DEF Starts
<1>3. Starts(p, q) => Starts(p, Append(q, c))
  BY <1>1 DEF Starts
<1>4. ASSUME Apart(p, q)
      PROVE  Apart(p, Append(q, c)) /\ Apart(Append(p, c), q)
  <2>1. PICK k \in Nat : /\ 1 <= k /\ k <= Len(p) /\ k <= Len(q)
                         /\ p[k] < q[k] /\ \A i \in 1..(k - 1) : p[i] = q[i]
    BY <1>4 DEF Apart
  <2>2. \A i \in 1..k : i \in 1..Len(p) /\ i \in 1..Len(q)
    BY <1>1, <2>1
  <2>3. \A i \in 1..k : Append(p, c)[i] = p[i] /\ Append(q, c)[i] = q[i]
    BY <1>1, <2>2
  <2>4. k \in 1..k /\ \A i \in 1..(k - 1) : i \in 1..k
    BY <2>1
  <2>5. k <= Len(Append(p, c)) /\ k <= Len(Append(q, c))
    BY <1>1, <2>1
  <2>6. Apart(p, Append(q, c))
    BY <2>1, <2>3, <2>4, <2>5 DEF Apart
  <2>7. Apart(Append(p, c), q)
    BY <2>1, <2>3, <2>4, <2>5 DEF Apart
  <2> QED  BY <2>6, <2>7
<1> QED  BY <1>2, <1>3, <1>4

LEMMA SiblingsApart ==
    ASSUME NEW p \in Seq(Nat), NEW c \in Nat, NEW d \in Nat, c < d
    PROVE  Apart(Append(p, c), Append(p, d))
<1>1. /\ Len(p) + 1 \in Nat /\ 1 <= Len(p) + 1 /\ Len(Append(p, c)) = Len(p) + 1
      /\ Len(Append(p, d)) = Len(p) + 1
      /\ Append(p, c)[Len(p) + 1] = c /\ Append(p, d)[Len(p) + 1] = d
      /\ \A i \in 1..Len(p) : Append(p, c)[i] = Append(p, d)[i]
      /\ (Len(p) + 1) - 1 = Len(p)
  OBVIOUS
<1> QED  BY <1>1 DEF Apart

(* What writeNode has written and what is left to write of the trees of    *)
(* the first roots: in document order, each line as deep as its block, and *)
(* of every block either the line or an ancestor that is yet to come.      *)
NodeLines(bs) == {Item(b, d) : b \in DOMAIN bs, d \in Nat}

Reached(bs, first, l) ==
    /\ Way(bs, WayTo(bs, l.of), l.of)
    /\ Len(WayTo(bs, l.of)) = l.depth + 1
    /\ WayTo(bs, l.of)[1] \in first

Ahead(bs, l, m) ==
    Starts(WayTo(bs, l.of), WayTo(bs, m.of)) \/ Apart(WayTo(bs, l.of), WayTo(bs, m.of))

Covered(bs, ls, td, b, p) ==
    \/ \E k \in DOMAIN ls : ls[k].of = b
    \/ \E i \in DOMAIN p, k \in DOMAIN td : td[k].of = p[i]

Walk(bs, first, ls, td) ==
    /\ ls \in Seq(NodeLines(bs)) /\ td \in Seq(NodeLines(bs))
    /\ \A k \in DOMAIN ls : Reached(bs, first, ls[k])
    /\ \A k \in DOMAIN td : Reached(bs, first, td[k])
    /\ \A j, k \in DOMAIN ls : j < k => Ahead(bs, ls[j], ls[k])
    /\ \A j \in DOMAIN ls, k \in DOMAIN td : Ahead(bs, ls[j], td[k])
    /\ \A j, k \in DOMAIN td : j < k => Apart(WayTo(bs, td[j].of), WayTo(bs, td[k].of))
    /\ \A b, p : Way(bs, p, b) /\ p[1] \in first => Covered(bs, ls, td, b, p)

LEMMA NodeFacts ==
    ASSUME NEW bs, NEW l \in NodeLines(bs)
    PROVE  /\ l.of \in DOMAIN bs /\ l.depth \in Nat /\ l = Item(l.of, l.depth) /\ ~l.header
<1>1. PICK b \in DOMAIN bs, d \in Nat : l = Item(b, d)
  BY DEF NodeLines
<1> QED  BY <1>1, LineFacts

LEMMA NodeWritten ==
    ASSUME NEW T, NEW bs \in Seq(T), NEW first, NEW ls, NEW td,
           Walk(bs, first, ls, td), td # <<>>,
           NEW cs, Lists(cs, {c \in DOMAIN bs : bs[c] = Head(td).of})
    PROVE  Walk(bs, first, Append(ls, Head(td)),
                Items(cs, Head(td).depth + 1) \o Tail(td))
<1> DEFINE On == {c \in DOMAIN bs : bs[c] = Head(td).of}
           way(l) == WayTo(bs, l.of)
<1>1. PICK h : h = Head(td)
  OBVIOUS
<1>2. PICK ns : ns = Append(ls, h)
  OBVIOUS
<1>3. PICK is : is = Items(cs, h.depth + 1)
  OBVIOUS
<1>4. PICK ts : ts = Tail(td)
  OBVIOUS
<1>5. PICK nt : nt = is \o ts
  OBVIOUS
<1>6. /\ ls \in Seq(NodeLines(bs)) /\ td \in Seq(NodeLines(bs)) /\ Len(ls) \in Nat
      /\ DOMAIN ls = 1..Len(ls) /\ DOMAIN td = 1..Len(td) /\ Len(td) \in Nat
  BY DEF Walk
<1>7. /\ h = td[1] /\ 1 \in DOMAIN td /\ h \in NodeLines(bs)
      /\ Reached(bs, first, h) /\ h.of \in DOMAIN bs /\ h.depth \in Nat
  <2>1. h = td[1] /\ 1 \in DOMAIN td /\ h \in NodeLines(bs)
    BY <1>1, <1>6
  <2> QED  BY <2>1, NodeFacts DEF Walk
<1>8. /\ \A k \in DOMAIN cs : cs[k] \in DOMAIN bs /\ bs[cs[k]] = h.of /\ k \in Nat
      /\ \A c \in DOMAIN bs : bs[c] = h.of => \E k \in DOMAIN cs : cs[k] = c
      /\ \A j, k \in DOMAIN cs : j < k => cs[j] < cs[k]
      /\ cs \in Seq(DOMAIN bs) /\ Len(cs) \in Nat /\ DOMAIN cs = 1..Len(cs)
  <2>1. cs \in Seq(On)
    BY DEF Lists
  <2>2. \A k \in DOMAIN cs : cs[k] \in On
    BY <2>1
  <2> QED  BY <1>1, <2>1, <2>2 DEF Lists
<1>9. /\ is \in Seq(NodeLines(bs)) /\ Len(is) = Len(cs)
      /\ \A k \in DOMAIN cs : is[k] = Item(cs[k], h.depth + 1)
  <2>1. DOMAIN is = 1..Len(cs) /\ \A k \in DOMAIN cs : is[k] = Item(cs[k], h.depth + 1)
    BY <1>3, <1>8 DEF Items
  <2>2. \A k \in 1..Len(cs) : is[k] \in NodeLines(bs)
    BY <1>7, <1>8, <2>1 DEF NodeLines
  <2>3. is \in Seq(NodeLines(bs))
    <3>1. is = [k \in 1..Len(cs) |-> is[k]]
      BY <1>3, <1>8 DEF Items
    <3> QED  BY <1>8, <2>2, <3>1
  <2> QED  BY <1>8, <2>1, <2>3
<1>10. /\ ts \in Seq(NodeLines(bs)) /\ Len(ts) = Len(td) - 1
       /\ \A k \in 1..(Len(td) - 1) : ts[k] = td[k + 1]
  BY <1>4, <1>6, <1>7
<1>11. /\ nt \in Seq(NodeLines(bs)) /\ Len(nt) = Len(is) + Len(ts)
       /\ \A k \in 1..(Len(is) + Len(ts)) :
              nt[k] = IF k <= Len(is) THEN is[k] ELSE ts[k - Len(is)]
  <2>1. is \in Seq(NodeLines(bs)) /\ ts \in Seq(NodeLines(bs))
    BY <1>9, <1>10
  <2> QED  BY <1>5, <2>1, ConcatProperties
<1>12. /\ \A k \in DOMAIN cs : k \in DOMAIN nt /\ nt[k] = Item(cs[k], h.depth + 1)
       /\ \A m \in DOMAIN td : m # 1 => /\ m + Len(cs) - 1 \in DOMAIN nt
                                        /\ nt[m + Len(cs) - 1] = td[m]
  <2>1. DOMAIN nt = 1..(Len(is) + Len(ts))
    BY <1>11
  <2>2. ASSUME NEW k \in DOMAIN cs
        PROVE  k \in DOMAIN nt /\ nt[k] = Item(cs[k], h.depth + 1)
    <3>1. k \in 1..(Len(is) + Len(ts)) /\ k <= Len(is)
      BY <1>6, <1>7, <1>8, <1>9, <1>10
    <3> QED  BY <1>9, <1>11, <2>1, <3>1
  <2>3. ASSUME NEW m \in DOMAIN td, m # 1
        PROVE  m + Len(cs) - 1 \in DOMAIN nt /\ nt[m + Len(cs) - 1] = td[m]
    <3>1. /\ m + Len(cs) - 1 \in 1..(Len(is) + Len(ts)) /\ ~(m + Len(cs) - 1 <= Len(is))
          /\ (m + Len(cs) - 1) - Len(is) = m - 1
          /\ m - 1 \in 1..(Len(td) - 1) /\ (m - 1) + 1 = m
      <4>1. m \in Nat /\ m >= 2 /\ m <= Len(td) /\ Len(cs) \in Nat /\ Len(td) \in Nat
        BY <1>6, <1>8, <2>3
      <4>2. Len(is) = Len(cs) /\ Len(ts) = Len(td) - 1
        BY <1>9, <1>10
      <4> QED  BY <4>1, <4>2
    <3>2. nt[m + Len(cs) - 1] = ts[m - 1] /\ ts[m - 1] = td[m]
      BY <1>10, <1>11, <3>1
    <3> QED  BY <2>1, <3>1, <3>2
  <2> QED  BY <2>2, <2>3
<1>13. \A k \in DOMAIN nt :
          \/ k \in DOMAIN cs /\ nt[k] = Item(cs[k], h.depth + 1)
          \/ \E m \in DOMAIN td : m # 1 /\ k = m + Len(cs) - 1 /\ nt[k] = td[m]
  <2> SUFFICES ASSUME NEW k \in DOMAIN nt, k \notin DOMAIN cs
               PROVE  \E m \in DOMAIN td : m # 1 /\ k = m + Len(cs) - 1 /\ nt[k] = td[m]
    BY <1>12
  <2>1. k \in Nat /\ k <= Len(cs) + (Len(td) - 1) /\ ~(k <= Len(cs))
    <3>1. DOMAIN nt = 1..(Len(cs) + (Len(td) - 1))
      BY <1>9, <1>10, <1>11
    <3> QED  BY <1>6, <1>7, <1>8, <3>1
  <2>2. k - Len(cs) + 1 \in 1..Len(td) /\ k - Len(cs) + 1 # 1
        /\ k = (k - Len(cs) + 1) + Len(cs) - 1
    BY <1>6, <1>8, <2>1
  <2> QED  BY <1>6, <1>12, <2>2
<1>14. /\ ns \in Seq(NodeLines(bs)) /\ DOMAIN ns = 1..(Len(ls) + 1)
       /\ \A k \in DOMAIN ls : k \in DOMAIN ns /\ ns[k] = ls[k]
       /\ Len(ls) + 1 \in DOMAIN ns /\ ns[Len(ls) + 1] = h
       /\ \A k \in DOMAIN ns : k \in DOMAIN ls \/ k = Len(ls) + 1
  BY <1>2, <1>6, <1>7
<1> HIDE DEF On
<1>15. PICK p : p = way(h) /\ Way(bs, p, h.of) /\ Len(p) = h.depth + 1 /\ p[1] \in first
  BY <1>7 DEF Reached
<1>16. p \in Seq(Nat) /\ Len(p) \in Nat /\ Len(p) >= 1
  <2>1. p \in Seq(DOMAIN bs) /\ DOMAIN bs \subseteq Nat
    BY <1>15 DEF Way
  <2> QED  BY <1>15, <2>1, WayFacts
<1>17. \A k \in DOMAIN cs :
          /\ nt[k].of = cs[k] /\ nt[k].depth = h.depth + 1 /\ cs[k] \in Nat
          /\ way(nt[k]) = Append(p, cs[k]) /\ Way(bs, Append(p, cs[k]), cs[k])
  <2> SUFFICES ASSUME NEW k \in DOMAIN cs
               PROVE  /\ nt[k].of = cs[k] /\ nt[k].depth = h.depth + 1 /\ cs[k] \in Nat
                      /\ way(nt[k]) = Append(p, cs[k]) /\ Way(bs, Append(p, cs[k]), cs[k])
    OBVIOUS
  <2>1. nt[k].of = cs[k] /\ nt[k].depth = h.depth + 1
    BY <1>12, LineFacts
  <2>2. Way(bs, Append(p, cs[k]), cs[k])
    BY <1>8, <1>15, OneStepOn
  <2>3. cs[k] \in Nat
    BY <1>8
  <2> QED  BY <2>1, <2>2, <2>3, WayToIs
<1>18. \A k \in DOMAIN td : way(td[k]) \in Seq(Nat)
  <2> SUFFICES ASSUME NEW k \in DOMAIN td
               PROVE  way(td[k]) \in Seq(Nat)
    OBVIOUS
  <2>1. Way(bs, way(td[k]), td[k].of)
    BY DEF Walk, Reached
  <2>2. way(td[k]) \in Seq(DOMAIN bs) /\ DOMAIN bs \subseteq Nat
    BY <2>1 DEF Way
  <2> QED  BY <2>2
<1>19. \A k \in DOMAIN ls : way(ls[k]) \in Seq(Nat)
  <2> SUFFICES ASSUME NEW k \in DOMAIN ls
               PROVE  way(ls[k]) \in Seq(Nat)
    OBVIOUS
  <2>1. Way(bs, way(ls[k]), ls[k].of)
    BY DEF Walk, Reached
  <2>2. way(ls[k]) \in Seq(DOMAIN bs) /\ DOMAIN bs \subseteq Nat
    BY <2>1 DEF Way
  <2> QED  BY <2>2
<1>20. \A k \in DOMAIN ns : Reached(bs, first, ns[k])
  BY <1>7, <1>14 DEF Walk
<1>21. \A k \in DOMAIN nt : Reached(bs, first, nt[k])
  <2>1. ASSUME NEW k \in DOMAIN cs
        PROVE  Reached(bs, first, nt[k])
    <3>1. PICK q : q = Append(p, cs[k])
      OBVIOUS
    <3>2. Len(q) = (h.depth + 1) + 1 /\ q[1] = p[1]
      BY <1>15, <1>16, <3>1
    <3> QED  BY <1>15, <1>17, <3>1, <3>2 DEF Reached
  <2> QED  BY <1>13, <2>1 DEF Walk
<1>22. \A j, k \in DOMAIN ns : j < k => Ahead(bs, ns[j], ns[k])
  <2> SUFFICES ASSUME NEW j \in DOMAIN ns, NEW k \in DOMAIN ns, j < k
               PROVE  Ahead(bs, ns[j], ns[k])
    OBVIOUS
  <2>1. j \in DOMAIN ls
    BY <1>6, <1>14
  <2> QED  BY <1>7, <1>14, <2>1 DEF Walk
<1>23. \A j \in DOMAIN ns, k \in DOMAIN nt : Ahead(bs, ns[j], nt[k])
  <2>1. ASSUME NEW j \in DOMAIN ls, NEW k \in DOMAIN cs
        PROVE  Ahead(bs, ls[j], nt[k])
    <3>1. Ahead(bs, ls[j], h)
      BY <1>7 DEF Walk
    <3>2. Starts(way(ls[j]), p) \/ Apart(way(ls[j]), p)
      BY <1>15, <3>1 DEF Ahead
    <3>3. Starts(way(ls[j]), Append(p, cs[k])) \/ Apart(way(ls[j]), Append(p, cs[k]))
      BY <1>16, <1>17, <1>19, <3>2, OrderOfWays
    <3> QED  BY <1>17, <3>3 DEF Ahead
  <2>2. ASSUME NEW k \in DOMAIN cs
        PROVE  Ahead(bs, h, nt[k])
    <3>1. Starts(p, Append(p, cs[k]))
      BY <1>16, <1>17, OrderOfWays
    <3> QED  BY <1>15, <1>17, <3>1 DEF Ahead
  <2>3. ASSUME NEW m \in DOMAIN td, m # 1
        PROVE  Ahead(bs, h, td[m])
    <3>1. 1 < m
      BY <1>6, <2>3
    <3>2. Apart(way(td[1]), way(td[m]))
      BY <1>7, <3>1 DEF Walk
    <3> QED  BY <1>7, <3>2 DEF Ahead
  <2>4. \A j \in DOMAIN ls, m \in DOMAIN td : Ahead(bs, ls[j], td[m])
    BY DEF Walk
  <2> QED  BY <1>13, <1>14, <2>1, <2>2, <2>3, <2>4
<1>24. ASSUME NEW j \in DOMAIN nt, NEW k \in DOMAIN nt, j < k
       PROVE  Apart(way(nt[j]), way(nt[k]))
  <2>1. CASE j \in DOMAIN cs /\ k \in DOMAIN cs
    <3>1. cs[j] < cs[k]
      BY <1>8, <1>24, <2>1
    <3> QED  BY <1>16, <1>17, <2>1, <3>1, SiblingsApart
  <2>2. ASSUME j \in DOMAIN cs, NEW m \in DOMAIN td, m # 1, nt[k] = td[m]
        PROVE  Apart(way(nt[j]), way(nt[k]))
    <3>1. 1 < m
      BY <1>6, <2>2
    <3>2. Apart(p, way(td[m]))
      BY <1>7, <1>15, <3>1 DEF Walk
    <3>3. Apart(Append(p, cs[j]), way(td[m]))
      BY <1>16, <1>17, <1>18, <2>2, <3>2, OrderOfWays
    <3> QED  BY <1>17, <2>2, <3>3
  <2>3. ASSUME NEW n \in DOMAIN td, j = n + Len(cs) - 1, nt[j] = td[n],
               NEW m \in DOMAIN td, k = m + Len(cs) - 1, nt[k] = td[m]
        PROVE  Apart(way(nt[j]), way(nt[k]))
    <3>1. n < m
      BY <1>6, <1>8, <1>24, <2>3
    <3> QED  BY <2>3, <3>1 DEF Walk
  <2>4. ASSUME j \notin DOMAIN cs, k \in DOMAIN cs
        PROVE  FALSE
    <3>1. j \in Nat /\ j >= 1
      BY <1>11
    <3> QED  BY <1>8, <1>24, <2>4, <3>1
  <2> QED  BY <1>13, <2>1, <2>2, <2>3, <2>4
<1>25. ASSUME NEW b, NEW q, Way(bs, q, b), q[1] \in first
       PROVE  Covered(bs, ns, nt, b, q)
  <2>1. Covered(bs, ls, td, b, q)
    BY <1>25 DEF Walk
  <2>2. CASE \E k \in DOMAIN ls : ls[k].of = b
    BY <1>14, <2>2 DEF Covered
  <2>3. ASSUME NEW i \in DOMAIN q, NEW m \in DOMAIN td, m # 1, td[m].of = q[i]
        PROVE  Covered(bs, ns, nt, b, q)
    BY <1>12, <2>3 DEF Covered
  <2>4. ASSUME NEW i \in DOMAIN q, h.of = q[i]
        PROVE  Covered(bs, ns, nt, b, q)
    <3>1. Len(q) \in Nat /\ DOMAIN q = 1..Len(q)
      BY <1>25, WayFacts
    <3>2. CASE i = Len(q)
      <4>1. h.of = b
        BY <1>25, <2>4, <3>2 DEF Way
      <4> QED  BY <1>14, <4>1 DEF Covered
    <3>3. CASE i # Len(q)
      <4>1. i \in Nat /\ 1 <= i /\ i < Len(q) /\ i + 1 \in DOMAIN q /\ i + 1 \in 1..Len(q)
        BY <3>1, <3>3
      <4>2. bs[q[i + 1]] = h.of /\ q[i + 1] \in DOMAIN bs
        BY <1>25, <2>4, <4>1, WayFacts
      <4>3. PICK k \in DOMAIN cs : cs[k] = q[i + 1]
        BY <1>8, <4>2
      <4>4. k \in DOMAIN nt /\ nt[k].of = q[i + 1]
        BY <1>12, <1>17, <4>3
      <4> QED  BY <4>1, <4>4 DEF Covered
    <3> QED  BY <3>2, <3>3
  <2> QED  BY <1>7, <2>1, <2>2, <2>3, <2>4 DEF Covered
<1>26. Walk(bs, first, ns, nt)
  BY <1>11, <1>14, <1>20, <1>21, <1>22, <1>23, <1>24, <1>25 DEF Walk
<1> QED  BY <1>1, <1>2, <1>3, <1>4, <1>5, <1>26

(* The first roots are the ones that so many others do not precede.        *)
RootsOf(bs) == {i \in DOMAIN bs : bs[i] \notin DOMAIN bs}
FirstRoots(bs, n) ==
    {r \in RootsOf(bs) : Cardinality({s \in RootsOf(bs) : s < r}) < n}

LEMMA CountBefore ==
    ASSUME NEW S, S \subseteq Nat, NEW s, Lists(s, S), NEW k \in DOMAIN s
    PROVE  Cardinality({x \in S : x < s[k]}) = k - 1
<1> DEFINE Less == {x \in S : x < s[k]}
           f == [i \in 1..(k - 1) |-> s[i]]
<1>1. /\ Len(s) \in Nat /\ DOMAIN s = 1..Len(s) /\ k \in Nat /\ k - 1 \in Nat
      /\ \A i \in DOMAIN s : s[i] \in S /\ s[i] \in Nat
      /\ \A i \in 1..(k - 1) : i \in DOMAIN s /\ i < k
      /\ \A i \in DOMAIN s : i \in Nat
      /\ \A i \in DOMAIN s : i < k => i \in 1..(k - 1)
  <2>1. s \in Seq(S)
    BY DEF Lists
  <2>2. \A i \in DOMAIN s : s[i] \in S
    BY <2>1
  <2>3. /\ Len(s) \in Nat /\ DOMAIN s = 1..Len(s) /\ k \in 1..Len(s)
        /\ \A i \in DOMAIN s : i \in Nat /\ i >= 1
    BY <2>1
  <2>4. k \in Nat /\ k - 1 \in Nat /\ \A i \in DOMAIN s : i < k => i \in 1..(k - 1)
    BY <2>3
  <2>5. \A i \in 1..(k - 1) : i \in DOMAIN s /\ i < k
    BY <2>3
  <2> QED  BY <2>2, <2>3, <2>4, <2>5
<1>2. \A i, j \in DOMAIN s : i < j => s[i] < s[j]
  BY DEF Lists
<1>3. f \in [1..(k - 1) -> Less]
  BY <1>1, <1>2
<1>4. ASSUME NEW i \in 1..(k - 1), NEW j \in 1..(k - 1), f[i] = f[j]
      PROVE  i = j
  <2>1. s[i] = s[j] /\ i \in DOMAIN s /\ j \in DOMAIN s
    BY <1>1, <1>4
  <2>2. ~(i < j) /\ ~(j < i)
    BY <1>1, <1>2, <2>1
  <2> QED  BY <2>2
<1>5. ASSUME NEW x \in Less
      PROVE  \E i \in 1..(k - 1) : f[i] = x
  <2>1. PICK i \in DOMAIN s : s[i] = x
    BY DEF Lists
  <2>2. x < s[k] /\ x \in Nat /\ s[k] \in Nat
    BY <1>1, <1>5
  <2>3. i < k
    <3>1. ~(k < i)
      BY <1>1, <1>2, <2>1, <2>2
    <3>2. k # i
      BY <2>1, <2>2
    <3> QED  BY <1>1, <3>1, <3>2
  <2> QED  BY <1>1, <2>1, <2>3
<1>6. ExistsBijection(1..(k - 1), Less)
  <2>1. f \in Bijection(1..(k - 1), Less)
    <3> HIDE DEF f, Less
    <3> QED  BY <1>3, <1>4, <1>5 DEF Bijection, Injection, Surjection, IsInjective
  <2> QED  BY <2>1 DEF ExistsBijection
<1> HIDE DEF Less
<1>7. Cardinality(Less) = k - 1
  BY <1>1, <1>6, FS_CountingElements
<1> QED  BY <1>7 DEF Less

LEMMA RootsShownAre ==
    ASSUME NEW T, NEW bs \in Seq(T), limit \in Nat
    PROVE  Lists(RootsShown(bs), FirstRoots(bs, limit))
<1> DEFINE all == Roots(bs)
           n == IF limit < Len(all) THEN limit ELSE Len(all)
<1>1. Len(bs) \in Nat /\ DOMAIN bs = 1..Len(bs) /\ RootsOf(bs) \subseteq 1..Len(bs)
      /\ RootsOf(bs) \subseteq Nat
  BY DEF RootsOf
<1>2. Lists(all, RootsOf(bs))
  <2>1. Roots(bs) = InOrder(Len(bs), RootsOf(bs))
    BY DEF Roots, RootsOf, Known
  <2> QED  BY <1>1, <2>1, InOrderLists
<1>3. RootsShown(bs) = SubSeq(all, 1, n)
  BY DEF RootsShown
<1> HIDE DEF all
<1>4. /\ all \in Seq(RootsOf(bs)) /\ Len(all) \in Nat /\ DOMAIN all = 1..Len(all)
      /\ \A k \in DOMAIN all : all[k] \in RootsOf(bs)
      /\ \A i \in RootsOf(bs) : \E k \in DOMAIN all : all[k] = i
      /\ \A j, k \in DOMAIN all : j < k => all[j] < all[k]
  BY <1>2 DEF Lists
<1>5. n \in Nat /\ n <= Len(all) /\ \A k \in 1..Len(all) : k <= n <=> k <= limit
  BY <1>4
<1>6. \A k \in DOMAIN all : all[k] \in FirstRoots(bs, limit) <=> k <= n
  <2> SUFFICES ASSUME NEW k \in DOMAIN all
               PROVE  all[k] \in FirstRoots(bs, limit) <=> k <= n
    OBVIOUS
  <2>1. Cardinality({x \in RootsOf(bs) : x < all[k]}) = k - 1
    <3>1. PICK S : S = RootsOf(bs)
      OBVIOUS
    <3>2. S \subseteq Nat /\ Lists(all, S)
      BY <1>1, <1>2, <3>1
    <3>3. Cardinality({x \in S : x < all[k]}) = k - 1
      BY <3>2, CountBefore
    <3> QED  BY <3>1, <3>3
  <2>2. all[k] \in FirstRoots(bs, limit) <=> k - 1 < limit
    BY <1>4, <2>1 DEF FirstRoots
  <2>3. k \in Nat /\ (k - 1 < limit <=> k <= limit)
    BY <1>4
  <2> QED  BY <1>4, <1>5, <2>2, <2>3
<1> HIDE DEF n
<1>7. PICK rs : rs = SubSeq(all, 1, n)
  OBVIOUS
<1>8. /\ Len(rs) = n /\ DOMAIN rs = 1..n /\ \A k \in 1..n : rs[k] = all[k]
      /\ \A k \in 1..n : k \in DOMAIN all /\ k <= n
      /\ rs \in Seq(RootsOf(bs))
  BY <1>4, <1>5, <1>7
<1>9. rs \in Seq(FirstRoots(bs, limit))
  <2>1. \A k \in 1..n : rs[k] \in FirstRoots(bs, limit)
    BY <1>6, <1>8
  <2> QED  BY <1>5, <1>8, <2>1
<1>10. ASSUME NEW i \in FirstRoots(bs, limit)
       PROVE  \E k \in DOMAIN rs : rs[k] = i
  <2>1. PICK k \in DOMAIN all : all[k] = i
    BY <1>4 DEF FirstRoots
  <2>2. k \in 1..n
    BY <1>4, <1>5, <1>6, <2>1
  <2> QED  BY <1>8, <2>1, <2>2
<1>11. \A j, k \in DOMAIN rs : j < k => rs[j] < rs[k]
  BY <1>4, <1>8
<1> QED  BY <1>3, <1>7, <1>9, <1>10, <1>11 DEF Lists

LEMMA WalkAtFirst ==
    ASSUME NEW T, NEW bs \in Seq(T), limit \in Nat
    PROVE  Walk(bs, FirstRoots(bs, limit), <<>>, Items(RootsShown(bs), 0))
<1>1. PICK first : first = FirstRoots(bs, limit)
  OBVIOUS
<1>2. PICK rs : rs = RootsShown(bs)
  OBVIOUS
<1>3. PICK td : td = Items(rs, 0)
  OBVIOUS
<1>4. Lists(rs, first)
  BY <1>1, <1>2, RootsShownAre
<1>5. /\ rs \in Seq(first) /\ Len(rs) \in Nat /\ DOMAIN rs = 1..Len(rs)
      /\ \A k \in DOMAIN rs : rs[k] \in first
      /\ \A i \in first : \E k \in DOMAIN rs : rs[k] = i
      /\ \A j, k \in DOMAIN rs : j < k => rs[j] < rs[k]
  BY <1>4 DEF Lists
<1>6. \A r \in first : r \in DOMAIN bs /\ bs[r] \notin DOMAIN bs /\ r \in Nat
  BY <1>1 DEF FirstRoots, RootsOf
<1>7. /\ DOMAIN td = 1..Len(rs) /\ td = [k \in 1..Len(rs) |-> Item(rs[k], 0)]
      /\ \A k \in DOMAIN rs : td[k] = Item(rs[k], 0) /\ td[k].of = rs[k] /\ td[k].depth = 0
  BY <1>3, <1>5, LineFacts DEF Items
<1>8. td \in Seq(NodeLines(bs))
  <2>1. \A k \in 1..Len(rs) : td[k] \in NodeLines(bs)
    BY <1>5, <1>6, <1>7 DEF NodeLines
  <2> QED  BY <1>5, <1>7, <2>1
<1>9. ASSUME NEW k \in DOMAIN rs
      PROVE  WayTo(bs, td[k].of) = <<rs[k]>> /\ Way(bs, <<rs[k]>>, rs[k])
  BY <1>5, <1>6, <1>7, RootWay, WayToIs
<1>10. \A k \in DOMAIN td : Reached(bs, first, td[k])
  <2> SUFFICES ASSUME NEW k \in DOMAIN rs
               PROVE  Reached(bs, first, td[k])
    BY <1>5, <1>7
  <2>1. Len(<<rs[k]>>) = 0 + 1 /\ <<rs[k]>>[1] = rs[k]
    OBVIOUS
  <2> QED  BY <1>5, <1>7, <1>9, <2>1 DEF Reached
<1>11. \A j, k \in DOMAIN td : j < k => Apart(WayTo(bs, td[j].of), WayTo(bs, td[k].of))
  <2> SUFFICES ASSUME NEW j \in DOMAIN rs, NEW k \in DOMAIN rs, j < k
               PROVE  Apart(WayTo(bs, td[j].of), WayTo(bs, td[k].of))
    BY <1>5, <1>7
  <2>1. rs[j] < rs[k]
    BY <1>5
  <2>2. /\ Len(<<rs[j]>>) = 1 /\ Len(<<rs[k]>>) = 1
        /\ <<rs[j]>>[1] = rs[j] /\ <<rs[k]>>[1] = rs[k] /\ 1..(1 - 1) = {}
    OBVIOUS
  <2>3. Apart(<<rs[j]>>, <<rs[k]>>)
    BY <2>1, <2>2 DEF Apart
  <2> QED  BY <1>9, <2>3
<1>12. ASSUME NEW b, NEW p, Way(bs, p, b), p[1] \in first
       PROVE  Covered(bs, <<>>, td, b, p)
  <2>1. PICK k \in DOMAIN rs : rs[k] = p[1]
    BY <1>5, <1>12
  <2>2. 1 \in DOMAIN p
    BY <1>12, WayFacts
  <2> QED  BY <1>5, <1>7, <2>1, <2>2 DEF Covered
<1>13. Walk(bs, first, <<>>, td)
  <2>1. <<>> \in Seq(NodeLines(bs)) /\ DOMAIN <<>> = {}
    OBVIOUS
  <2> QED  BY <1>8, <1>10, <1>11, <1>12, <2>1 DEF Walk
<1> QED  BY <1>1, <1>2, <1>3, <1>13

LEMMA AheadIsBefore ==
    ASSUME NEW p \in Seq(Nat), NEW q \in Seq(Nat), Starts(p, q) \/ Apart(p, q)
    PROVE  Before(p, q)
<1>1. /\ Len(p) \in Nat /\ DOMAIN p = 1..Len(p) /\ \A i \in DOMAIN p : p[i] \in Nat
      /\ Len(q) \in Nat /\ DOMAIN q = 1..Len(q) /\ \A i \in DOMAIN q : q[i] \in Nat
  OBVIOUS
<1>2. ASSUME NEW n \in Nat, n <= Len(p), n <= Len(q), \A i \in 1..n : p[i] = q[i]
      PROVE  SubSeq(p, 1, n) = SubSeq(q, 1, n)
  <2>1. PICK s, t : s = SubSeq(p, 1, n) /\ t = SubSeq(q, 1, n)
    OBVIOUS
  <2>2. \A i \in 1..n : i \in DOMAIN p /\ i \in DOMAIN q
    BY <1>1, <1>2
  <2>3. s \in Seq(Nat) /\ Len(s) = n /\ \A i \in 1..n : s[i] = p[i]
    BY <1>1, <1>2, <2>1, <2>2
  <2>4. t \in Seq(Nat) /\ Len(t) = n /\ \A i \in 1..n : t[i] = q[i]
    BY <1>1, <1>2, <2>1, <2>2
  <2>5. s = t
    <3>1. DOMAIN s = 1..n /\ DOMAIN t = 1..n
      BY <1>2, <2>3, <2>4
    <3>2. \A i \in 1..n : s[i] = t[i]
      BY <1>2, <2>3, <2>4
    <3>3. s = [i \in 1..n |-> s[i]] /\ t = [i \in 1..n |-> t[i]]
      BY <2>3, <2>4, <3>1
    <3> QED  BY <3>2, <3>3
  <2> QED  BY <2>1, <2>5
<1>3. CASE Starts(p, q)
  <2>1. Len(p) < Len(q) /\ \A i \in 1..Len(p) : p[i] = q[i]
    BY <1>3 DEF Starts
  <2>2. Len(p) <= Len(q) /\ p # q
    BY <1>1, <2>1
  <2>3. SubSeq(p, 1, Len(p)) = SubSeq(q, 1, Len(p))
    BY <1>1, <1>2, <2>1, <2>2
  <2> QED  BY <2>2, <2>3 DEF Before, IsStrictPrefix, IsPrefix
<1>4. CASE Apart(p, q)
  <2>1. PICK k \in Nat : /\ 1 <= k /\ k <= Len(p) /\ k <= Len(q)
                         /\ p[k] < q[k] /\ \A i \in 1..(k - 1) : p[i] = q[i]
    BY <1>4 DEF Apart
  <2>2. k - 1 \in Nat /\ k - 1 <= Len(p) /\ k - 1 <= Len(q) /\ k \in DOMAIN p \cap DOMAIN q
    BY <1>1, <2>1
  <2>3. SubSeq(p, 1, k - 1) = SubSeq(q, 1, k - 1)
    BY <1>2, <2>1, <2>2
  <2> QED  BY <2>1, <2>2, <2>3 DEF Before
<1> QED  BY <1>3, <1>4

LEMMA PathsAreWays ==
    ASSUME NEW T, blocks \in Seq(T), NEW b, NEW p
    PROVE  p \in Paths /\ IsPath(p, b) <=> Way(blocks, p, b)
<1> DEFINE D == DOMAIN blocks
<1>1. ASSUME p \in Paths, IsPath(p, b)
      PROVE  Way(blocks, p, b)
  <2>1. PICK n \in 1..Len(blocks) : p \in [1..n -> D]
    BY <1>1 DEF Paths
  <2>2. n \in Nat
    OBVIOUS
  <2>3. p \in Seq(D)
    <3> HIDE DEF D
    <3> QED  BY <2>1, <2>2
  <2> QED  BY <1>1, <2>3 DEF IsPath, Way, Last
<1>2. ASSUME Way(blocks, p, b)
      PROVE  p \in Paths /\ IsPath(p, b)
  <2>1. Len(p) \in 1..Len(blocks)
    BY <1>2, WayBound
  <2>2. p \in Seq(D)
    BY <1>2 DEF Way
  <2>3. p \in [1..Len(p) -> D]
    <3> HIDE DEF D
    <3> QED  BY <2>2
  <2>4. p \in Paths
    BY <2>1, <2>3 DEF Paths
  <2>5. IsPath(p, b)
    BY <1>2, <2>2 DEF IsPath, Way, Last
  <2> QED  BY <2>4, <2>5
<1> QED  BY <1>1, <1>2

LEMMA PathIsWayTo ==
    ASSUME NEW T, blocks \in Seq(T), NEW b, NEW p, Way(blocks, p, b)
    PROVE  Path(b) = p
<1>1. p \in Paths /\ IsPath(p, b)
  BY PathsAreWays
<1>2. Path(b) \in Paths /\ IsPath(Path(b), b)
  BY <1>1 DEF Path
<1>3. Way(blocks, Path(b), b)
  BY <1>2, PathsAreWays
<1> QED  BY <1>3, OneWay

LEMMA TreePromise ==
    ASSUME NEW T, blocks \in Seq(T), Walk(blocks, FirstRoots(blocks, limit), lines, <<>>)
    PROVE  PageShowsTree
<1> DEFINE roots == {i \in DOMAIN blocks : blocks[i] \notin DOMAIN blocks}
           first == {r \in roots : Cardinality({s \in roots : s < r}) < limit}
<1>1. first = FirstRoots(blocks, limit)
  BY DEF FirstRoots, RootsOf
<1> HIDE DEF first, roots
<1>2. /\ lines \in Seq(NodeLines(blocks)) /\ Len(lines) \in Nat /\ DOMAIN lines = 1..Len(lines)
      /\ \A k \in DOMAIN lines : lines[k] \in NodeLines(blocks)
  BY DEF Walk
<1>3. ASSUME NEW k \in DOMAIN lines
      PROVE  /\ Way(blocks, Path(lines[k].of), lines[k].of)
             /\ Path(lines[k].of) = WayTo(blocks, lines[k].of)
             /\ Path(lines[k].of) \in Seq(Nat)
             /\ Len(Path(lines[k].of)) = lines[k].depth + 1
             /\ Path(lines[k].of)[1] \in first
  <2>1. Reached(blocks, first, lines[k])
    BY <1>1 DEF Walk
  <2>2. Path(lines[k].of) = WayTo(blocks, lines[k].of)
    BY <2>1, PathIsWayTo DEF Reached
  <2>3. Way(blocks, Path(lines[k].of), lines[k].of)
    BY <2>1, <2>2 DEF Reached
  <2>4. Path(lines[k].of) \in Seq(DOMAIN blocks) /\ DOMAIN blocks \subseteq Nat
    BY <2>3 DEF Way
  <2> QED  BY <2>1, <2>2, <2>3, <2>4 DEF Reached
<1>4. ASSUME NEW b \in DOMAIN blocks
      PROVE  Shows(b) <=> \E p \in Paths : IsPath(p, b) /\ Head(p) \in first
  <2>1. ASSUME Shows(b)
        PROVE  \E p \in Paths : IsPath(p, b) /\ Head(p) \in first
    <3>1. PICK k \in DOMAIN lines : lines[k].of = b
      BY <2>1 DEF Shows
    <3>2. Path(b) \in Paths /\ IsPath(Path(b), b)
      BY <1>3, <3>1, PathsAreWays
    <3>3. Head(Path(b)) = Path(b)[1]
      BY <1>3, <3>1 DEF Way
    <3> QED  BY <1>3, <3>1, <3>2, <3>3
  <2>2. ASSUME NEW p \in Paths, IsPath(p, b), Head(p) \in first
        PROVE  Shows(b)
    <3>1. Way(blocks, p, b)
      BY <2>2, PathsAreWays
    <3>2. p[1] \in first
      <4>1. Head(p) = p[1]
        BY <3>1 DEF Way
      <4> QED  BY <2>2, <4>1
    <3>3. Covered(blocks, lines, <<>>, b, p)
      BY <1>1, <3>1, <3>2 DEF Walk
    <3>4. PICK k \in DOMAIN lines : lines[k].of = b
      BY <3>3 DEF Covered
    <3> QED  BY <1>2, <3>4, NodeFacts DEF Shows
  <2> QED  BY <2>1, <2>2
<1>5. \A k \in DOMAIN lines : lines[k].depth + 1 = Len(Path(lines[k].of))
  BY <1>3
<1>6. ASSUME NEW k \in 2..Len(lines)
      PROVE  Before(Path(lines[k - 1].of), Path(lines[k].of))
  <2>1. k - 1 \in DOMAIN lines /\ k \in DOMAIN lines /\ k - 1 < k
    BY <1>2
  <2>2. Ahead(blocks, lines[k - 1], lines[k])
    BY <2>1 DEF Walk
  <2> QED  BY <1>3, <2>1, <2>2, AheadIsBefore DEF Ahead
<1> QED  BY <1>4, <1>5, <1>6 DEF PageShowsTree, first, roots

Writing(m) == mode = m /\ (stage = "show" \/ (stage = "over" /\ lines # <<>>))

GraphInv ==
    /\ limit \in Nat
    /\ stage \in {"idle", "page", "list"} => lines = <<>>
    /\ stage = "over" /\ lines # <<>> => todo = <<>>
    /\ Writing("search") => blocks \in Seq(Pages) /\ Grouped(blocks, lines, todo)
    /\ Writing("page") =>
          blocks \in Seq(Nat) /\ Walk(blocks, FirstRoots(blocks, limit), lines, todo)

LEMMA GraphAtFirst == GraphInit => GraphInv
  BY DEF GraphInit, GraphInv, Writing

LEMMA SearchHitsKeeps ==
    ASSUME GraphInv, NEW hits \in Answers(Pages), SearchHits(hits)
    PROVE  GraphInv'
<1>1. /\ hits \in Seq(Pages) /\ blocks' = hits /\ lines' = <<>> /\ limit' \in Nat
      /\ mode' = "search" /\ stage' = IF hits = <<>> THEN "over" ELSE "show"
  <2>1. PICK n \in 0..MaxBlocks : hits \in [1..n -> Pages]
    BY DEF Answers
  <2>2. n \in Nat
    BY GraphBounds
  <2>3. hits \in Seq(Pages)
    BY <2>1, <2>2
  <2> QED  BY <2>3 DEF SearchHits, GraphInv
<1>2. CASE hits = <<>>
  BY <1>1, <1>2 DEF GraphInv, Writing
<1>3. CASE hits # <<>>
  <2>1. todo' = [k \in DOMAIN FirstHits(hits) |-> Header(hits[FirstHits(hits)[k]])]
    BY DEF SearchHits
  <2>2. Grouped(hits, <<>>, todo')
    BY <1>1, <1>3, <2>1, GroupsAtFirst
  <2> QED  BY <1>1, <1>3, <2>2 DEF GraphInv, Writing
<1> QED  BY <1>2, <1>3

LEMMA ShowHitsKeeps ==
    ASSUME GraphInv, ShowHits
    PROVE  GraphInv'
<1>1. /\ blocks \in Seq(Pages) /\ Grouped(blocks, lines, todo) /\ todo # <<>>
      /\ limit \in Nat /\ mode = "search" /\ stage = "show"
      /\ UNCHANGED <<stage, mode, limit, blocks>>
      /\ lines' = lines \o <<Head(todo)>> \o Items(HitsOn(Head(todo).of), 0)
      /\ todo' = Tail(todo)
  <2>1. /\ stage = "show" /\ mode = "search" /\ todo # <<>>
        /\ UNCHANGED <<stage, mode, limit, blocks>>
        /\ lines' = lines \o <<Head(todo)>> \o Items(HitsOn(Head(todo).of), 0)
        /\ todo' = Tail(todo)
    BY DEF ShowHits
  <2>2. Writing("search")
    <3>1. stage = "show" /\ mode = "search"
      BY DEF ShowHits
    <3> QED  BY <3>1 DEF Writing
  <2>3. blocks \in Seq(Pages) /\ Grouped(blocks, lines, todo) /\ limit \in Nat
    BY <2>2 DEF GraphInv
  <2> QED  BY <2>1, <2>3
<1> DEFINE On == {i \in DOMAIN blocks : blocks[i] = Head(todo).of}
<1>2. Lists(HitsOn(Head(todo).of), On)
  <2>1. Len(blocks) \in Nat /\ On \subseteq 1..Len(blocks)
    BY <1>1
  <2>2. HitsOn(Head(todo).of) = InOrder(Len(blocks), On)
    BY DEF HitsOn
  <2> HIDE DEF On
  <2> QED  BY <2>1, <2>2, InOrderLists
<1>3. Grouped(blocks, lines', todo')
  BY <1>1, <1>2, GroupShown
<1> QED  BY <1>1, <1>3 DEF GraphInv, Writing

LEMMA GetBlockTreeKeeps ==
    ASSUME GraphInv, NEW n \in 0..MaxBlocks, NEW parents \in [1..n -> 0..(n + 1)],
           GetBlockTree(parents)
    PROVE  GraphInv'
<1>1. /\ parents \in Seq(Nat) /\ blocks' = parents /\ lines' = <<>> /\ lines = <<>>
      /\ limit \in Nat /\ limit' = limit /\ mode' = "page" /\ stage' = "show"
      /\ todo' = Items(RootsShown(parents), 0)
  <2>1. n \in Nat /\ \A m \in 0..(n + 1) : m \in Nat
    BY GraphBounds
  <2>2. parents \in Seq(Nat)
    BY <2>1
  <2> QED  BY <2>2 DEF GetBlockTree, GraphInv
<1>2. Walk(parents, FirstRoots(parents, limit), <<>>, todo')
  BY <1>1, WalkAtFirst
<1> QED  BY <1>1, <1>2 DEF GraphInv, Writing

LEMMA WriteNodeKeeps ==
    ASSUME GraphInv, WriteNode
    PROVE  GraphInv'
<1>1. /\ blocks \in Seq(Nat) /\ Walk(blocks, FirstRoots(blocks, limit), lines, todo)
      /\ todo # <<>> /\ limit \in Nat /\ mode = "page" /\ stage = "show"
      /\ UNCHANGED <<stage, mode, limit, blocks>>
      /\ lines' = Append(lines, Head(todo))
      /\ todo' = Items(Children(Head(todo).of), Head(todo).depth + 1) \o Tail(todo)
  <2>1. /\ stage = "show" /\ mode = "page" /\ todo # <<>>
        /\ UNCHANGED <<stage, mode, limit, blocks>>
        /\ lines' = Append(lines, Head(todo))
        /\ todo' = Items(Children(Head(todo).of), Head(todo).depth + 1) \o Tail(todo)
    BY DEF WriteNode
  <2>2. Writing("page")
    <3>1. stage = "show" /\ mode = "page"
      BY DEF WriteNode
    <3> QED  BY <3>1 DEF Writing
  <2>3. /\ blocks \in Seq(Nat) /\ limit \in Nat
        /\ Walk(blocks, FirstRoots(blocks, limit), lines, todo)
    BY <2>2 DEF GraphInv
  <2> QED  BY <2>1, <2>3
<1> DEFINE On == {c \in DOMAIN blocks : blocks[c] = Head(todo).of}
<1>2. Head(todo).of \in DOMAIN blocks
  <2>1. todo \in Seq(NodeLines(blocks))
    BY <1>1 DEF Walk
  <2>2. Head(todo) \in NodeLines(blocks)
    BY <1>1, <2>1
  <2> QED  BY <2>2, NodeFacts
<1>3. Lists(Children(Head(todo).of), On)
  <2>1. Len(blocks) \in Nat /\ On \subseteq 1..Len(blocks)
    BY <1>1
  <2>2. {i \in DOMAIN blocks : Known(blocks, i) /\ blocks[i] = Head(todo).of} = On
    BY <1>2 DEF Known
  <2>3. Children(Head(todo).of) = InOrder(Len(blocks), On)
    <3> HIDE DEF On
    <3> QED  BY <2>2 DEF Children
  <2> HIDE DEF On
  <2> QED  BY <2>1, <2>3, InOrderLists
<1>4. Walk(blocks, FirstRoots(blocks, limit), lines', todo')
  BY <1>1, <1>3, NodeWritten
<1> QED  BY <1>1, <1>4 DEF GraphInv, Writing

LEMMA GraphNext ==
    ASSUME GraphInv, GraphStep \/ UNCHANGED graphVars
    PROVE  GraphInv'
<1>1. ASSUME NEW m \in {"search", "traverse", "page", "related"}, NEW asked \in Asked,
             NEW inPage \in BOOLEAN, GraphExecute(m, asked, inPage)
      PROVE  GraphInv'
  <2>1. limit' \in Nat
    BY <1>1, GraphBounds DEF GraphExecute, Limit
  <2>2. lines' = <<>> /\ stage' \in {"list", "page"}
    BY <1>1 DEF GraphExecute, GraphInv
  <2> QED  BY <2>1, <2>2 DEF GraphInv, Writing
<1>2. CASE GetPage \/ ListFails
  BY <1>2 DEF GetPage, ListFails, GraphInv, Writing
<1>3. ASSUME NEW pages \in Answers(Pages), ListPages(pages)
      PROVE  GraphInv'
  <2>1. /\ limit' \in Nat /\ lines' = <<>> /\ stage' \in {"over", "show"}
        /\ mode' \in {"traverse", "related"}
    BY <1>3 DEF ListPages, GraphInv
  <2> QED  BY <2>1 DEF GraphInv, Writing
<1>4. ASSUME NEW snippets \in {0, 1}, ShowPages(snippets)
      PROVE  GraphInv'
  <2>1. limit' \in Nat /\ stage' = "show" /\ mode' \in {"traverse", "related"}
    BY <1>4 DEF ShowPages, GraphInv
  <2> QED  BY <2>1 DEF GraphInv, Writing
<1>5. CASE TextEnds
  <2>1. /\ stage' = "over" /\ stage = "show" /\ todo' = <<>>
        /\ UNCHANGED <<mode, limit, blocks, lines, todo>>
    BY <1>5 DEF TextEnds
  <2> QED  BY <2>1 DEF GraphInv, Writing
<1>6. CASE UNCHANGED graphVars
  BY <1>6 DEF graphVars, GraphInv, Writing
<1> QED  BY <1>1, <1>2, <1>3, <1>4, <1>5, <1>6, SearchHitsKeeps, ShowHitsKeeps,
            GetBlockTreeKeeps, WriteNodeKeeps DEF GraphStep

LEMMA SearchPromise == GraphInv => EveryHitOnce
<1> SUFFICES ASSUME GraphInv, Shown("search")
             PROVE  EveryHitOnce
  BY DEF EveryHitOnce
<1>1. blocks \in Seq(Pages) /\ Grouped(blocks, lines, <<>>)
  BY DEF Shown, GraphInv, Writing
<1> QED  BY <1>1, HitsPromise

LEMMA PagePromise == GraphInv => PageShowsTree
<1> SUFFICES ASSUME GraphInv, Shown("page")
             PROVE  PageShowsTree
  BY DEF PageShowsTree
<1>1. blocks \in Seq(Nat) /\ Walk(blocks, FirstRoots(blocks, limit), lines, <<>>)
  BY DEF Shown, GraphInv, Writing
<1> QED  BY <1>1, TreePromise

-----------------------------------------------------------------------------
OutsideInv == RegistryInv /\ ExecInv /\ StreamInv /\ GraphInv

LEMMA OutsideNext == OutsideInv /\ [Next]_vars => OutsideInv'
<1> SUFFICES ASSUME OutsideInv, [Next]_vars
             PROVE  OutsideInv'
  OBVIOUS
<1>1. RegistryStep \/ UNCHANGED registryVars
  BY DEF Next, Command, Model, Graph, Providing, vars
<1>2. ExecStep \/ UNCHANGED execVars
  BY DEF Next, Command, Model, Graph, Providing, vars
<1>3. StreamStep \/ UNCHANGED streamVars
  BY DEF Next, Command, Model, Graph, Providing, vars
<1>4. RegistryInv'
  BY <1>1, RegistryNext DEF OutsideInv
<1>5. ExecInv'
  BY <1>2, ExecNext DEF OutsideInv
<1>6. StreamInv'
  BY <1>3, StreamNext DEF OutsideInv
<1>7. GraphInv'
  <2>1. GraphStep \/ UNCHANGED graphVars
    BY DEF Next, Command, Model, Graph, Providing, vars
  <2> QED  BY <2>1, GraphNext DEF OutsideInv
<1> QED  BY <1>4, <1>5, <1>6, <1>7 DEF OutsideInv

(* A provider is closed as often as it is replaced; a command's exit code  *)
(* is set when no process holds its output any more; what was passed on of *)
(* an answer is its text so far; what is shown of a knowledge graph and    *)
(* what is yet to be shown of it make up all of it, in order               *)
(* (src/providers/registry.go, src/tools/core/exec.go,                     *)
(* src/providers/anthropic.go, src/tools/core/knowledge_graph.go).         *)
THEOREM Invariance == Spec => []OutsideInv
<1>1. Init => OutsideInv
  BY RegistryAtFirst, ExecAtFirst, StreamAtFirst, GraphAtFirst DEF Init, OutsideInv
<1> QED  BY <1>1, OutsideNext, PTL DEF Spec

(* Until Close, a provider that somebody has got is closed when Register   *)
(* replaces it, and not otherwise, and once (src/providers/registry.go,    *)
(* Register).                                                              *)
THEOREM ProvidersStayOpen == Spec => []UsedUntilReplaced
<1>1. OutsideInv => UsedUntilReplaced
  BY RegistryPromise DEF OutsideInv
<1> QED  BY <1>1, Invariance, PTL

(* A result of Execute has all of the output, of the shell and of what it  *)
(* started, and an exit code that tells a kill (src/tools/core/exec.go).   *)
THEOREM ResultsAreWhole == Spec => []ResultIsWhole
<1>1. OutsideInv => ResultIsWhole
  BY ExecPromise DEF OutsideInv
<1> QED  BY <1>1, Invariance, PTL

(* The chunks that onChunk gets, put together, are the content that        *)
(* ChatStream returns; the last chunk comes with a whole answer only       *)
(* (src/providers/anthropic.go, ChatStream).                               *)
THEOREM ChunksMakeTheAnswer == Spec => []ChunksAreTheAnswer
<1>1. OutsideInv => ChunksAreTheAnswer
  BY StreamPromise DEF OutsideInv
<1> QED  BY <1>1, Invariance, PTL

(* Every hit of a search is shown once, below the header of its page, for  *)
(* answers of any length (src/tools/core/knowledge_graph.go, execSearch).  *)
THEOREM HitsAreShown == Spec => []EveryHitOnce
<1>1. OutsideInv => EveryHitOnce
  BY SearchPromise DEF OutsideInv
<1> QED  BY <1>1, Invariance, PTL

(* A page is shown as its tree, for any number of blocks with any parents, *)
(* missing ones and cycles included (src/tools/core/knowledge_graph.go,    *)
(* execPage).                                                              *)
THEOREM PagesAreTrees == Spec => []PageShowsTree
<1>1. OutsideInv => PageShowsTree
  BY PagePromise DEF OutsideInv
<1> QED  BY <1>1, Invariance, PTL
=============================================================================
