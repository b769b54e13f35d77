-------------------------- MODULE LiteStoresProofs --------------------------
(***************************************************************************)
(* The stores of the Lite edition, for any number of clients, tenants,     *)
(* skills, artifacts, tools and credentials.  The stores have no state in  *)
(* common, so each has an inductive invariant of its own, which the steps  *)
(* of the others leave alone; a crash establishes most of it anew.         *)
(***************************************************************************)
EXTENDS LiteStores, SequenceTheorems, TLAPS

-----------------------------------------------------------------------------
(* LiteToolRegistry.  The map by name and what the clients believe are     *)
(* inverse to each other, as long as ids stand for one tool each.          *)

Paired(map, names) ==
    /\ \A n \in DOMAIN map : map[n] \in DOMAIN names /\ names[map[n]] = n
    /\ \A id \in DOMAIN names : names[id] \in DOMAIN map /\ map[names[id]] = id

ToolInv ==
    /\ DOMAIN tools = Tenants /\ DOMAIN called = Tenants
    /\ tools = [t \in Tenants |-> tools[t]]
    /\ called = [t \in Tenants |-> called[t]]
    /\ \A t \in Tenants \ ambiguous : Paired(tools[t], called[t])

(* What Call makes of the names of a tenant's tools.                       *)
Renaming(names, id, n) ==
    [i \in {id} \cup {j \in DOMAIN names : names[j] # n} |-> IF i = id THEN n ELSE names[i]]

(* A tool that takes a name puts the tool that had it out, in both.        *)
LEMMA PairedWith ==
    ASSUME NEW map, NEW names, NEW n, NEW id, Paired(map, names),
           \A m \in DOMAIN map : map[m] = id => m = n
    PROVE  Paired(With(map, n, id), Renaming(names, id, n))
<1> DEFINE g == With(map, n, id)
           h == Renaming(names, id, n)
<1>1. /\ DOMAIN g = DOMAIN map \cup {n} /\ g[n] = id
      /\ \A m \in DOMAIN map : m # n => g[m] = map[m]
  BY DEF With
<1>2. /\ DOMAIN h = {id} \cup {j \in DOMAIN names : names[j] # n} /\ h[id] = n
      /\ \A j \in DOMAIN names : names[j] # n /\ j # id => h[j] = names[j]
  BY DEF Renaming
<1> HIDE DEF g, h
<1>3. ASSUME NEW m \in DOMAIN g
      PROVE  g[m] \in DOMAIN h /\ h[g[m]] = m
  BY <1>1, <1>2 DEF Paired
<1>4. ASSUME NEW i \in DOMAIN h
      PROVE  h[i] \in DOMAIN g /\ g[h[i]] = i
  BY <1>1, <1>2 DEF Paired
<1> QED  BY <1>3, <1>4 DEF Paired, g, h

LEMMA PairedWithout ==
    ASSUME NEW map, NEW names, NEW n \in DOMAIN map, Paired(map, names)
    PROVE  Paired(Without(map, n), Without(names, map[n]))
<1> DEFINE g == Without(map, n)
           h == Without(names, map[n])
<1>1. /\ DOMAIN g = DOMAIN map \ {n}
      /\ \A m \in DOMAIN map \ {n} : g[m] = map[m]
  BY DEF Without
<1>2. /\ DOMAIN h = DOMAIN names \ {map[n]}
      /\ \A j \in DOMAIN names \ {map[n]} : h[j] = names[j]
  BY DEF Without
<1> HIDE DEF g, h
<1> QED  BY <1>1, <1>2 DEF Paired, g, h

(* An UpdateTool is the removal of the tool under its old name and its     *)
(* return under the new one.                                               *)
LEMMA RenamingAfterWithout ==
    ASSUME NEW names, NEW id, NEW n
    PROVE  Renaming(Without(names, id), id, n) = Renaming(names, id, n)
  BY DEF Renaming, Without

LEMMA ToolStepKeeps == ASSUME ToolInv, ToolStep PROVE ToolInv'
<1>1. ASSUME NEW n \in ToolNames, AddGlobalTool(n)
      PROVE  ToolInv'
  BY <1>1 DEF ToolInv, AddGlobalTool
<1>2. ASSUME NEW t \in Tenants, NEW map, NEW names,
             tools' = [tools EXCEPT ![t] = map], called' = [called EXCEPT ![t] = names],
             ambiguous \subseteq ambiguous',
             t \notin ambiguous' => Paired(map, names)
      PROVE  ToolInv'
  <2>1. /\ DOMAIN tools' = Tenants /\ DOMAIN called' = Tenants
        /\ tools' = [u \in Tenants |-> tools'[u]]
        /\ called' = [u \in Tenants |-> called'[u]]
        /\ tools'[t] = map /\ called'[t] = names
        /\ \A u \in Tenants \ {t} : tools'[u] = tools[u] /\ called'[u] = called[u]
    BY <1>2 DEF ToolInv
  <2>2. ASSUME NEW u \in Tenants \ ambiguous'
        PROVE  Paired(tools'[u], called'[u])
    <3>1. CASE u = t
      BY <1>2, <2>1, <3>1
    <3>2. CASE u # t
      <4>1. Paired(tools[u], called[u])
        BY <1>2 DEF ToolInv
      <4> QED  BY <2>1, <3>2, <4>1
    <3> QED  BY <3>1, <3>2
  <2> QED  BY <2>1, <2>2 DEF ToolInv
<1>3. ASSUME NEW t \in Tenants, NEW id, NEW n, Call(t, id, n)
      PROVE  called' = [called EXCEPT ![t] = Renaming(called[t], id, n)]
  BY <1>3 DEF Call, Renaming, ToolInv
<1>4. ASSUME NEW t \in Tenants, NEW id \in 1..MaxIds, NEW n \in ToolNames,
             RegisterTool(t, n, id)
      PROVE  ToolInv'
  <2>1. /\ tools' = [tools EXCEPT ![t] = With(tools[t], n, id)]
        /\ called' = [called EXCEPT ![t] = Renaming(called[t], id, n)]
    BY <1>3, <1>4 DEF RegisterTool, ToolInv
  <2>2. /\ ambiguous \subseteq ambiguous'
        /\ t \notin ambiguous' => \A m \in DOMAIN tools[t] : tools[t][m] = id => m = n
    BY <1>4 DEF RegisterTool
  <2>3. ASSUME t \notin ambiguous'
        PROVE  Paired(With(tools[t], n, id), Renaming(called[t], id, n))
    BY <2>2, <2>3, PairedWith DEF ToolInv
  <2> QED  BY <2>1, <2>2, <2>3, <1>2
<1>5. ASSUME NEW t \in Tenants, NEW id \in 1..MaxIds, NEW n \in ToolNames,
             UpdateTool(t, id, n)
      PROVE  ToolInv'
  <2>1. PICK old \in DOMAIN tools[t] :
          /\ tools[t][old] = id
          /\ tools' = [tools EXCEPT ![t] = With(Without(tools[t], old), n, id)]
    BY <1>5 DEF UpdateTool, Renamed, ToolInv
  <2>2. /\ called' = [called EXCEPT ![t] = Renaming(called[t], id, n)]
        /\ ambiguous' = ambiguous
    BY <1>3, <1>5 DEF UpdateTool
  <2>3. ASSUME t \notin ambiguous
        PROVE  Paired(With(Without(tools[t], old), n, id), Renaming(called[t], id, n))
    <3>1. Paired(tools[t], called[t])
      BY <2>3 DEF ToolInv
    <3>2. Paired(Without(tools[t], old), Without(called[t], id))
      BY <2>1, <3>1, PairedWithout
    <3>3. \A m \in DOMAIN Without(tools[t], old) : Without(tools[t], old)[m] # id
      BY <2>1, <3>1 DEF Paired, Without
    <3>4. Paired(With(Without(tools[t], old), n, id),
                 Renaming(Without(called[t], id), id, n))
      BY <3>2, <3>3, PairedWith
    <3> QED  BY <3>4, RenamingAfterWithout
  <2> QED  BY <2>1, <2>2, <2>3, <1>2
<1>6. ASSUME NEW t \in Tenants, NEW id \in 1..MaxIds, DeleteTool(t, id)
      PROVE  ToolInv'
  <2>1. PICK old \in DOMAIN tools[t] :
          /\ tools[t][old] = id
          /\ tools' = [tools EXCEPT ![t] = Without(tools[t], old)]
    BY <1>6 DEF DeleteTool, ToolInv
  <2>2. /\ called' = [called EXCEPT ![t] = Without(called[t], id)]
        /\ ambiguous' = ambiguous
    BY <1>6 DEF DeleteTool, ToolInv
  <2>3. ASSUME t \notin ambiguous
        PROVE  Paired(Without(tools[t], old), Without(called[t], id))
    BY <2>1, <2>3, PairedWithout DEF ToolInv
  <2> QED  BY <2>1, <2>2, <2>3, <1>2
<1> QED  BY <1>1, <1>4, <1>5, <1>6 DEF ToolStep

(* A registry without tools, at the start and after a crash.               *)
LEMMA NoToolsYet ==
    /\ ToolsInit => ToolInv
    /\ ToolsCrash => ToolInv'
<1>1. DOMAIN <<>> = {}
  OBVIOUS
<1>2. Paired(<<>>, <<>>)
  BY <1>1 DEF Paired
<1> QED  BY <1>2 DEF ToolsInit, ToolsCrash, ToolInv

LEMMA ToolsResolve == ToolInv => ToolsHaveTheirNames
<1> SUFFICES ASSUME ToolInv, NEW t \in Tenants \ ambiguous, NEW n \in ToolNames
             PROVE  LET named == {id \in DOMAIN called[t] : called[t][id] = n} IN
                    IF named # {} THEN named = {Resolved(t, n)}
                    ELSE Resolved(t, n) = IF n \in globals THEN GlobalTool ELSE NoTool
  BY DEF ToolsHaveTheirNames
<1> DEFINE named == {id \in DOMAIN called[t] : called[t][id] = n}
<1>1. Paired(tools[t], called[t])
  BY DEF ToolInv
<1>2. CASE n \in DOMAIN tools[t]
  <2>1. named = {tools[t][n]}
    BY <1>1, <1>2 DEF Paired
  <2> QED  BY <1>2, <2>1 DEF Resolved
<1>3. CASE n \notin DOMAIN tools[t]
  <2>1. named = {}
    BY <1>1, <1>3 DEF Paired
  <2> QED  BY <1>3, <2>1 DEF Resolved
<1> QED  BY <1>2, <1>3

-----------------------------------------------------------------------------
(* LiteSecretStore.  Nobody holds a map that the store refers to, or is    *)
(* about to: the copies made outside the lock are out of reach.            *)

Calls ==
    {NoCall} \cup [at : {"insert"}, name : Secrets, map : Nat, content : Nat]
             \cup [at : {"copy"}, map : Nat]

SecretTypes ==
    /\ maps \in Seq(Nat)
    /\ writes \in Nat
    /\ holds \in [Clients -> 0..Len(maps)]
    /\ secretOp \in [Clients -> Calls]
    /\ DOMAIN meant = DOMAIN stored

(* The maps that are the store's own: stored, to be stored, being copied.  *)
Kept ==
    {stored[n] : n \in DOMAIN stored}
    \cup {secretOp[c].map : c \in {d \in Clients : secretOp[d] # NoCall}}

SecretInv ==
    /\ SecretTypes
    /\ Kept \subseteq DOMAIN maps
    /\ \A c \in Clients : holds[c] \notin Kept
    /\ \A n \in DOMAIN stored : maps[stored[n]] = meant[n]
    /\ \A c \in Clients : secretOp[c].at = "insert" =>
          maps[secretOp[c].map] = secretOp[c].content

(* A map that is made takes the next place and leaves the others alone.    *)
LEMMA NewMapFacts ==
    ASSUME SecretTypes, NEW content_ \in Nat, NewMap(content_)
    PROVE  /\ maps' \in Seq(Nat) /\ Len(maps') = Len(maps) + 1 /\ Len(maps) \in Nat
           /\ DOMAIN maps = 1..Len(maps) /\ DOMAIN maps' = 1..(Len(maps) + 1)
           /\ \A r \in DOMAIN maps : maps'[r] = maps[r]
           /\ maps'[Len(maps')] = content_
  BY DEF SecretTypes, NewMap

(* A client that gets hold of a new map, with no map added to the store's. *)
LEMMA HoldsNewMap ==
    ASSUME SecretInv, NEW c \in Clients, NEW content_ \in Nat,
           NewMap(content_), Hold(c, Len(maps')), writes' \in Nat,
           secretOp' \in [Clients -> Calls],
           \A d \in Clients : secretOp'[d] = NoCall \/ secretOp'[d] = secretOp[d],
           UNCHANGED <<stored, meant>>
    PROVE  SecretInv'
<1>1. /\ maps' \in Seq(Nat) /\ Len(maps') = Len(maps) + 1 /\ Len(maps) \in Nat
      /\ DOMAIN maps = 1..Len(maps) /\ DOMAIN maps' = 1..(Len(maps) + 1)
      /\ \A r \in DOMAIN maps : maps'[r] = maps[r]
  BY NewMapFacts DEF SecretInv
<1>2. /\ holds' \in [Clients -> 0..Len(maps')]
      /\ holds'[c] = Len(maps')
      /\ \A d \in Clients \ {c} : holds'[d] = holds[d]
  BY <1>1 DEF SecretInv, SecretTypes, Hold
<1>3. SecretTypes'
  BY <1>1, <1>2 DEF SecretInv, SecretTypes
<1>4. Kept' \subseteq Kept
  <2>1. ASSUME NEW d \in Clients, secretOp'[d] # NoCall
        PROVE  secretOp'[d].map \in Kept
    <3>1. secretOp'[d] = secretOp[d] /\ secretOp[d] # NoCall
      BY <2>1
    <3> QED  BY <3>1 DEF Kept
  <2>2. stored' = stored
    OBVIOUS
  <2> QED  BY <2>1, <2>2 DEF Kept
<1>5. Kept' \subseteq DOMAIN maps' /\ \A d \in Clients : holds'[d] \notin Kept'
  <2>1. Kept \subseteq 1..Len(maps) /\ \A d \in Clients : holds[d] \notin Kept
    BY <1>1 DEF SecretInv
  <2>2. Len(maps') \notin Kept /\ 1..Len(maps) \subseteq 1..(Len(maps) + 1)
    BY <1>1, <2>1
  <2>3. ASSUME NEW d \in Clients
        PROVE  holds'[d] \notin Kept
    BY <1>2, <2>1, <2>2
  <2> QED  BY <1>1, <1>4, <2>1, <2>2, <2>3
<1>6. \A n \in DOMAIN stored' : maps'[stored'[n]] = meant'[n]
  BY <1>1 DEF SecretInv, Kept
<1>7. ASSUME NEW d \in Clients, secretOp'[d].at = "insert"
      PROVE  maps'[secretOp'[d].map] = secretOp'[d].content
  <2>1. secretOp[d] # NoCall /\ secretOp'[d] = secretOp[d]
    BY <1>7 DEF NoCall
  <2> QED  BY <1>1, <1>7, <2>1 DEF SecretInv, Kept
<1> QED  BY <1>3, <1>5, <1>6, <1>7 DEF SecretInv

LEMMA SecretStepKeeps == ASSUME SecretInv, NEW c \in Clients, SecretStep(c) PROVE SecretInv'
<1>1. CASE CallerWrites(c)
  <2>1. writes \in Nat /\ writes' = writes + 1 /\ UNCHANGED <<stored, secretOp, meant>>
    BY <1>1 DEF SecretInv, SecretTypes, CallerWrites
  <2>2. CASE NewMap(writes') /\ Hold(c, Len(maps'))
    BY <2>1, <2>2, HoldsNewMap DEF SecretInv, SecretTypes
  <2>3. CASE holds[c] # 0 /\ maps' = [maps EXCEPT ![holds[c]] = writes'] /\ UNCHANGED holds
    <3>1. holds[c] \in DOMAIN maps /\ holds[c] \notin Kept
      BY <2>3 DEF SecretInv, SecretTypes
    <3>2. /\ maps' \in Seq(Nat) /\ Len(maps') = Len(maps) /\ DOMAIN maps' = DOMAIN maps
          /\ \A r \in Kept : maps'[r] = maps[r]
      BY <2>1, <2>3, <3>1 DEF SecretInv, SecretTypes
    <3>3. Kept' = Kept
      BY <2>1 DEF Kept
    <3>4. ASSUME NEW d \in Clients, secretOp'[d].at = "insert"
          PROVE  maps'[secretOp'[d].map] = secretOp'[d].content
      <4>1. secretOp[d] # NoCall
        BY <2>1, <3>4 DEF NoCall
      <4> QED  BY <2>1, <3>2, <3>4, <4>1 DEF SecretInv, Kept
    <3>5. \A n \in DOMAIN stored' : maps'[stored'[n]] = meant'[n]
      BY <2>1, <3>2 DEF SecretInv, Kept
    <3>6. SecretTypes'
      BY <2>1, <2>3, <3>2 DEF SecretInv, SecretTypes
    <3> QED  BY <2>3, <3>2, <3>3, <3>4, <3>5, <3>6 DEF SecretInv
  <2> QED  BY <1>1, <2>2, <2>3 DEF CallerWrites
<1>2. ASSUME NEW n \in Secrets, StoreCopies(c, n)
      PROVE  SecretInv'
  <2> DEFINE op == [at |-> "insert", name |-> n, map |-> Len(maps'),
                    content |-> maps[holds[c]]]
  <2>1. /\ holds[c] \in DOMAIN maps /\ maps[holds[c]] \in Nat
        /\ NewMap(maps[holds[c]])
        /\ secretOp' = [secretOp EXCEPT ![c] = op] /\ secretOp[c] = NoCall
        /\ UNCHANGED <<stored, holds, writes, meant>>
    BY <1>2 DEF SecretInv, SecretTypes, StoreCopies, Between
  <2>2. /\ maps' \in Seq(Nat) /\ Len(maps') = Len(maps) + 1 /\ Len(maps) \in Nat
        /\ DOMAIN maps = 1..Len(maps) /\ DOMAIN maps' = 1..(Len(maps) + 1)
        /\ \A r \in DOMAIN maps : maps'[r] = maps[r]
        /\ maps'[Len(maps')] = maps[holds[c]]
    BY <2>1, NewMapFacts DEF SecretInv
  <2>3. op \in Calls
    BY <2>1, <2>2 DEF Calls
  <2>4. /\ op.at = "insert" /\ op.map = Len(maps') /\ op.content = maps[holds[c]]
        /\ op # NoCall
    BY DEF NoCall
  <2> HIDE DEF op
  <2>5. /\ secretOp' \in [Clients -> Calls] /\ secretOp'[c] = op
        /\ \A d \in Clients \ {c} : secretOp'[d] = secretOp[d]
    BY <2>1, <2>3 DEF SecretInv, SecretTypes
  <2>6. Kept' \subseteq Kept \cup {Len(maps')}
    BY <2>1, <2>4, <2>5 DEF Kept
  <2>7. Kept' \subseteq DOMAIN maps' /\ \A d \in Clients : holds'[d] \notin Kept'
    BY <2>1, <2>2, <2>6 DEF SecretInv, SecretTypes
  <2>8. \A m \in DOMAIN stored' : maps'[stored'[m]] = meant'[m]
    BY <2>1, <2>2 DEF SecretInv, Kept
  <2>9. ASSUME NEW d \in Clients, secretOp'[d].at = "insert"
        PROVE  maps'[secretOp'[d].map] = secretOp'[d].content
    <3>1. CASE d = c
      BY <3>1, <2>2, <2>4, <2>5
    <3>2. CASE d # c
      <4>1. secretOp'[d] = secretOp[d]
        BY <2>5, <3>2
      <4>2. secretOp[d] # NoCall
        BY <2>9, <4>1 DEF NoCall
      <4> QED  BY <2>2, <2>9, <4>1, <4>2 DEF SecretInv, Kept
    <3> QED  BY <3>1, <3>2
  <2>10. SecretTypes'
    BY <2>1, <2>2, <2>5 DEF SecretInv, SecretTypes
  <2> QED  BY <2>7, <2>8, <2>9, <2>10 DEF SecretInv
<1>3. CASE StoreInserts(c)
  <2> DEFINE op == secretOp[c]
  <2>1. /\ op.at = "insert" /\ op # NoCall /\ op \in Calls
        /\ stored' = With(stored, op.name, op.map)
        /\ meant' = With(meant, op.name, op.content)
        /\ secretOp' = [secretOp EXCEPT ![c] = NoCall]
        /\ UNCHANGED <<maps, holds, writes>>
    BY <1>3 DEF StoreInserts, NoCall, SecretInv, SecretTypes
  <2>2. op.map \in Kept /\ maps[op.map] = op.content
    BY <2>1 DEF Kept, SecretInv
  <2> HIDE DEF op
  <2>3. /\ secretOp' \in [Clients -> Calls] /\ secretOp'[c] = NoCall
        /\ \A d \in Clients \ {c} : secretOp'[d] = secretOp[d]
    BY <2>1 DEF SecretInv, SecretTypes, Calls
  <2>4. /\ DOMAIN stored' = DOMAIN stored \cup {op.name} /\ stored'[op.name] = op.map
        /\ DOMAIN meant' = DOMAIN meant \cup {op.name} /\ meant'[op.name] = op.content
        /\ \A n \in DOMAIN stored : n # op.name => stored'[n] = stored[n]
        /\ \A n \in DOMAIN meant : n # op.name => meant'[n] = meant[n]
    BY <2>1 DEF With
  <2>5. Kept' \subseteq Kept
    BY <2>2, <2>3, <2>4 DEF Kept
  <2>6. Kept' \subseteq DOMAIN maps' /\ \A d \in Clients : holds'[d] \notin Kept'
    BY <2>1, <2>5 DEF SecretInv
  <2>7. \A n \in DOMAIN stored' : maps'[stored'[n]] = meant'[n]
    BY <2>1, <2>2, <2>4 DEF SecretInv, SecretTypes
  <2>8. ASSUME NEW d \in Clients, secretOp'[d].at = "insert"
        PROVE  maps'[secretOp'[d].map] = secretOp'[d].content
    <3>1. d # c
      BY <2>3, <2>8 DEF NoCall
    <3> QED  BY <2>1, <2>3, <2>8, <3>1 DEF SecretInv
  <2>9. SecretTypes'
    BY <2>1, <2>3, <2>4 DEF SecretInv, SecretTypes
  <2> QED  BY <2>6, <2>7, <2>8, <2>9 DEF SecretInv
<1>4. ASSUME NEW n \in Secrets, GetLooksUp(c, n)
      PROVE  SecretInv'
  <2>1. secretOp[c] = NoCall /\ UNCHANGED <<stored, writes, meant>>
    BY <1>4 DEF GetLooksUp, Between
  <2>2. CASE /\ n \in DOMAIN stored
             /\ secretOp' = [secretOp EXCEPT ![c] = [at |-> "copy", map |-> stored[n]]]
             /\ UNCHANGED <<maps, holds>>
    <3> DEFINE op == [at |-> "copy", map |-> stored[n]]
    <3>1. stored[n] \in Kept /\ stored[n] \in Nat
      BY <2>2 DEF Kept, SecretInv, SecretTypes
    <3>2. op \in Calls /\ op.at = "copy" /\ op.map = stored[n]
      BY <3>1 DEF Calls
    <3> HIDE DEF op
    <3>3. /\ secretOp' \in [Clients -> Calls] /\ secretOp'[c] = op
          /\ \A d \in Clients \ {c} : secretOp'[d] = secretOp[d]
      BY <2>2, <3>2 DEF SecretInv, SecretTypes, op
    <3>4. Kept' \subseteq Kept
      BY <2>1, <3>1, <3>2, <3>3 DEF Kept
    <3>5. ASSUME NEW d \in Clients, secretOp'[d].at = "insert"
          PROVE  maps'[secretOp'[d].map] = secretOp'[d].content
      <4>1. d # c
        BY <3>2, <3>3, <3>5
      <4> QED  BY <2>2, <3>3, <3>5, <4>1 DEF SecretInv
    <3>6. SecretTypes'
      BY <2>1, <2>2, <3>3 DEF SecretInv, SecretTypes
    <3> QED  BY <2>1, <2>2, <3>4, <3>5, <3>6 DEF SecretInv
  <2>3. CASE NewMap(0) /\ Hold(c, Len(maps')) /\ UNCHANGED secretOp
    BY <2>1, <2>3, HoldsNewMap DEF SecretInv, SecretTypes
  <2> QED  BY <1>4, <2>2, <2>3 DEF GetLooksUp
<1>5. CASE GetCopies(c)
  <2>1. /\ secretOp[c].at = "copy" /\ secretOp[c] # NoCall
        /\ NewMap(maps[secretOp[c].map]) /\ Hold(c, Len(maps'))
        /\ secretOp' = [secretOp EXCEPT ![c] = NoCall]
        /\ UNCHANGED <<stored, writes, meant>>
    BY <1>5 DEF GetCopies, ReturnsCopy, NoCall
  <2>2. secretOp[c].map \in DOMAIN maps
    BY <2>1 DEF SecretInv, Kept
  <2>3. maps[secretOp[c].map] \in Nat
    BY <2>2 DEF SecretInv, SecretTypes
  <2>4. /\ secretOp' \in [Clients -> Calls]
        /\ \A d \in Clients : secretOp'[d] = NoCall \/ secretOp'[d] = secretOp[d]
    BY <2>1 DEF SecretInv, SecretTypes, Calls
  <2> QED  BY <2>1, <2>3, <2>4, HoldsNewMap DEF SecretInv, SecretTypes
<1> QED  BY <1>1, <1>2, <1>3, <1>4, <1>5 DEF SecretStep

(* A store without credentials, at the start and after a crash.            *)
LEMMA NoSecretsYet ==
    /\ SecretsInit => SecretInv
    /\ SecretInv /\ SecretsCrash => SecretInv'
<1>1. /\ DOMAIN <<>> = {} /\ <<>> \in Seq(Nat) /\ 0 \in 0..Len(<<>>)
      /\ NoCall \in Calls /\ NoCall.at = "idle"
  BY DEF Calls, NoCall
<1>2. SecretsInit => SecretInv
  <2> SUFFICES ASSUME SecretsInit
               PROVE  SecretInv
    OBVIOUS
  <2>1. Kept = {}
    BY <1>1 DEF SecretsInit, Kept
  <2> QED  BY <1>1, <2>1 DEF SecretsInit, SecretInv, SecretTypes
<1>3. SecretInv /\ SecretsCrash => SecretInv'
  <2> SUFFICES ASSUME SecretInv, SecretsCrash
               PROVE  SecretInv'
    OBVIOUS
  <2>1. Kept' = {}
    BY <1>1 DEF SecretsCrash, Kept
  <2> QED  BY <1>1, <2>1 DEF SecretsCrash, SecretInv, SecretTypes
<1> QED  BY <1>2, <1>3

LEMMA SecretsPrivate == SecretInv => CredentialsArePrivate
<1> SUFFICES ASSUME SecretInv
             PROVE  CredentialsArePrivate
  OBVIOUS
<1>1. ASSUME NEW c \in Clients, NEW d \in Clients, secretOp[c].at = "copy"
      PROVE  holds[d] # secretOp[c].map
  <2>1. secretOp[c] # NoCall
    BY <1>1 DEF NoCall
  <2> QED  BY <2>1 DEF SecretInv, Kept
<1> QED  BY <1>1 DEF SecretInv, CredentialsArePrivate

-----------------------------------------------------------------------------
(* LiteSkillStore.  The files of a skill are touched by its one Upload,    *)
(* before it is in the map, and by the one Delete that took it out; a      *)
(* Resolve that has found a skill holds the read lock until it has read.   *)

Resolves ==
    [at : {"lookup"}, todo : SUBSET Skills]
    \cup [at : {"read"}, id : Skills, todo : SUBSET Skills]

SkillTypes ==
    /\ used \subseteq Skills
    /\ DOMAIN skills \subseteq used
    /\ disk \in [Skills -> {"nothing", "directory", "torn", "whole"}]
    /\ skillOp \in [Clients -> {Idle} \cup Uploads \cup Deletes \cup Resolves]

Uploading(c, s) == skillOp[c] \in Uploads /\ skillOp[c].id = s
Removing(c, s) == skillOp[c].at = "removeAll" /\ skillOp[c].id = s

(* Who may touch the files of s: one Upload, before s is in the map, or    *)
(* Deletes that have taken it out.                                         *)
FilesOwned ==
    /\ \A c \in Clients, s \in Skills : Uploading(c, s) \/ Removing(c, s) =>
          s \in used \ DOMAIN skills
    /\ \A c, d \in Clients, s \in Skills : Uploading(c, s) =>
          ~Removing(d, s) /\ (c # d => ~Uploading(d, s))

(* What is in the map is on the disk, and stays there while it is read.    *)
FilesWhole ==
    /\ \A s \in DOMAIN skills : disk[s] = "whole"
    /\ \A c \in Clients : At(c, "insert") => disk[skillOp[c].id] = "whole"
    /\ \A c \in Clients : At(c, "read") => skillOp[c].id \in DOMAIN skills

(* OrphansOnly with the Deletes that have got past the lock only: the      *)
(* others may still find that there is nothing to delete.  An orphan has   *)
(* had its one Upload.                                                     *)
FilesAccounted ==
    /\ \A s \in Skills : disk[s] # "nothing" =>
          \/ s \in DOMAIN skills \cup orphans
          \/ \E c \in Clients : Uploading(c, s) \/ Removing(c, s)
    /\ orphans \subseteq used \ DOMAIN skills
    /\ \A c \in Clients, s \in Skills : Uploading(c, s) => s \notin orphans

SkillInv == SkillTypes /\ FilesOwned /\ FilesWhole /\ FilesAccounted

(* What a client's call becomes.                                           *)
LEMMA SkillMove ==
    ASSUME SkillTypes, NEW c \in Clients,
           NEW op \in {Idle} \cup Uploads \cup Deletes \cup Resolves, Goto(c, op)
    PROVE  /\ skillOp' \in [Clients -> {Idle} \cup Uploads \cup Deletes \cup Resolves]
           /\ skillOp'[c] = op
           /\ \A d \in Clients \ {c} : skillOp'[d] = skillOp[d]
  BY DEF SkillTypes, Goto

(* A call that touches no file begins, goes on or ends.                    *)
LEMMA QuietMove ==
    ASSUME SkillInv, NEW c \in Clients,
           NEW op \in {Idle} \cup Deletes \cup Resolves, Goto(c, op),
           op.at # "removeAll",
           op.at = "read" => op.id \in DOMAIN skills,
           \/ UNCHANGED orphans /\ skillOp[c] \notin Uploads /\ ~At(c, "removeAll")
           \/ /\ orphans' = orphans \cup {skillOp[c].id}
              /\ Uploading(c, skillOp[c].id) \/ Removing(c, skillOp[c].id),
           UNCHANGED <<skills, disk, used>>
    PROVE  SkillInv'
<1>1. /\ skillOp' \in [Clients -> {Idle} \cup Uploads \cup Deletes \cup Resolves]
      /\ skillOp'[c] = op
      /\ \A d \in Clients \ {c} : skillOp'[d] = skillOp[d]
  BY SkillMove DEF SkillInv
<1>2. op \notin Uploads /\ op.at # "insert"
  BY DEF Idle, Uploads, Deletes, Resolves
<1>3. \A d \in Clients, s \in Skills :
         /\ Uploading(d, s)' => Uploading(d, s)
         /\ Removing(d, s)' => Removing(d, s)
  BY <1>1, <1>2 DEF Uploading, Removing
<1>4. SkillTypes' /\ FilesOwned'
  BY <1>1, <1>3 DEF SkillInv, SkillTypes, FilesOwned
<1>5. FilesWhole'
  BY <1>1, <1>2 DEF SkillInv, FilesWhole, At
<1>6. FilesAccounted'
  <2>1. CASE UNCHANGED orphans /\ skillOp[c] \notin Uploads /\ ~At(c, "removeAll")
    <3>1. \A d \in Clients, s \in Skills : Uploading(d, s) \/ Removing(d, s) => d # c
      BY <2>1 DEF Uploading, Removing, At
    <3>2. \A d \in Clients, s \in Skills : d # c =>
             (Uploading(d, s)' <=> Uploading(d, s)) /\ (Removing(d, s)' <=> Removing(d, s))
      BY <1>1 DEF Uploading, Removing
    <3> QED  BY <1>3, <2>1, <3>1, <3>2 DEF SkillInv, FilesAccounted
  <2>2. CASE /\ orphans' = orphans \cup {skillOp[c].id}
             /\ Uploading(c, skillOp[c].id) \/ Removing(c, skillOp[c].id)
    <3> DEFINE o == skillOp[c].id
    <3>1. o \in Skills
      BY <2>2 DEF Uploading, Removing, SkillInv, SkillTypes, Idle, Uploads, Deletes, Resolves
    <3>2. /\ o \in used \ DOMAIN skills
          /\ \A d \in Clients \ {c} : ~Uploading(d, o)
      BY <2>2, <3>1 DEF SkillInv, FilesOwned
    <3>3. \A s \in Skills : ~Uploading(c, s)'
      BY <1>1, <1>2 DEF Uploading
    <3>4. \A d \in Clients, s \in Skills : s # o => d # c \/ ~(Uploading(d, s) \/ Removing(d, s))
      BY DEF Uploading, Removing
    <3>5. \A d \in Clients, s \in Skills : d # c =>
             (Uploading(d, s)' <=> Uploading(d, s)) /\ (Removing(d, s)' <=> Removing(d, s))
      BY <1>1 DEF Uploading, Removing
    <3>6. orphans' = orphans \cup {o}
      BY <2>2
    <3> HIDE DEF o
    <3>7. ASSUME NEW d \in Clients, NEW s \in Skills, Uploading(d, s)'
          PROVE  s \notin orphans'
      <4>1. d # c /\ Uploading(d, s) /\ s # o
        BY <3>2, <3>3, <3>5, <3>7
      <4>2. s \notin orphans
        BY <4>1 DEF SkillInv, FilesAccounted
      <4> QED  BY <3>6, <4>1, <4>2
    <3>8. \A s \in Skills : disk[s] # "nothing" =>
             \/ s \in DOMAIN skills \cup orphans'
             \/ \E d \in Clients : Uploading(d, s)' \/ Removing(d, s)'
      BY <3>4, <3>5, <3>6 DEF SkillInv, FilesAccounted
    <3> QED  BY <3>2, <3>6, <3>7, <3>8 DEF SkillInv, FilesAccounted
  <2> QED  BY <2>1, <2>2
<1> QED  BY <1>4, <1>5, <1>6 DEF SkillInv

(* Upload draws an id that nobody uses.                                    *)
LEMMA UploadKeeps ==
    ASSUME SkillInv, NEW c \in Clients, At(c, "idle"), Upload(c)
    PROVE  SkillInv'
<1>1. PICK s \in Skills \ used, t \in Tenants :
        /\ used' = used \cup {s}
        /\ Goto(c, [at |-> "mkdir", id |-> s, tenant |-> t])
  BY DEF Upload
<1> DEFINE op == [at |-> "mkdir", id |-> s, tenant |-> t]
<1>2. op \in Uploads /\ op.at = "mkdir" /\ op.id = s
  BY DEF Uploads
<1> HIDE DEF op
<1>3. /\ skillOp' \in [Clients -> {Idle} \cup Uploads \cup Deletes \cup Resolves]
      /\ skillOp'[c] = op
      /\ \A d \in Clients \ {c} : skillOp'[d] = skillOp[d]
  BY <1>1, <1>2, SkillMove DEF SkillInv, op
<1>4. UNCHANGED <<skills, disk, orphans>>
  BY DEF Upload
<1>5. \A d \in Clients, r \in Skills :
         /\ Uploading(d, r)' <=> (IF d = c THEN r = s ELSE Uploading(d, r))
         /\ Removing(d, r)' => d # c /\ Removing(d, r)
         /\ Uploading(d, r) \/ Removing(d, r) => d # c /\ r # s
  BY <1>1, <1>2, <1>3 DEF Uploading, Removing, At, Uploads, SkillInv, FilesOwned
<1>6. SkillTypes' /\ FilesOwned'
  BY <1>1, <1>3, <1>4, <1>5 DEF SkillInv, SkillTypes, FilesOwned
<1>7. FilesWhole'
  BY <1>2, <1>3, <1>4 DEF SkillInv, FilesWhole, At
<1>8. FilesAccounted'
  BY <1>1, <1>3, <1>4, <1>5 DEF SkillInv, SkillTypes, FilesAccounted, Uploading, Removing
<1> QED  BY <1>6, <1>7, <1>8 DEF SkillInv

(* MkdirAll and the two halves of WriteFile touch the files of the skill   *)
(* that is being uploaded, which is in no map and in no other's hands.     *)
LEMMA UploadDiskKeeps ==
    ASSUME SkillInv, NEW c \in Clients, UploadDisk(c)
    PROVE  SkillInv'
<1> DEFINE s == skillOp[c].id
<1>1. PICK next \in {"create", "write", "insert"},
           left \in {"directory", "torn", "whole"} :
        /\ disk' = [disk EXCEPT ![s] = left]
        /\ Goto(c, [skillOp[c] EXCEPT !.at = next])
        /\ next = "insert" => left = "whole"
  BY DEF UploadDisk
<1>2. /\ skillOp[c] \in Uploads /\ s \in Skills /\ Uploading(c, s)
      /\ s \notin DOMAIN skills /\ UNCHANGED <<skills, used, orphans>>
  BY DEF UploadDisk, Uploads, Uploading, SkillInv, FilesOwned
<1> DEFINE op == [skillOp[c] EXCEPT !.at = next]
<1>3. op \in Uploads /\ op.at = next /\ op.id = s
  BY <1>2 DEF Uploads
<1> HIDE DEF op
<1>4. /\ skillOp' \in [Clients -> {Idle} \cup Uploads \cup Deletes \cup Resolves]
      /\ skillOp'[c] = op
      /\ \A d \in Clients \ {c} : skillOp'[d] = skillOp[d]
  BY <1>1, <1>3, SkillMove DEF SkillInv, op
<1>5. \A d \in Clients, r \in Skills :
         (Uploading(d, r)' <=> Uploading(d, r)) /\ (Removing(d, r)' => Removing(d, r))
  BY <1>2, <1>3, <1>4 DEF Uploading, Removing
<1>6. /\ disk' \in [Skills -> {"nothing", "directory", "torn", "whole"}]
      /\ disk'[s] = left /\ \A r \in Skills \ {s} : disk'[r] = disk[r]
  BY <1>1, <1>2 DEF SkillInv, SkillTypes
<1>7. SkillTypes' /\ FilesOwned'
  BY <1>2, <1>4, <1>5, <1>6 DEF SkillInv, SkillTypes, FilesOwned
<1>8. FilesWhole'
  <2>1. \A r \in DOMAIN skills : disk'[r] = "whole"
    BY <1>2, <1>6 DEF SkillInv, SkillTypes, FilesWhole
  <2>2. ASSUME NEW d \in Clients, At(d, "insert")'
        PROVE  disk'[skillOp'[d].id] = "whole"
    <3>1. CASE d = c
      BY <1>1, <1>3, <1>4, <1>6, <2>2, <3>1 DEF At
    <3>2. CASE d # c
      <4>1. skillOp'[d] = skillOp[d] /\ At(d, "insert") /\ skillOp[d] \in Uploads
        BY <1>4, <2>2, <3>2 DEF At, SkillInv, SkillTypes, Idle, Uploads, Deletes, Resolves
      <4>2. Uploading(d, skillOp[d].id) /\ skillOp[d].id \in Skills
        BY <4>1 DEF Uploading, Uploads
      <4>3. skillOp[d].id # s
        BY <1>2, <3>2, <4>2 DEF SkillInv, FilesOwned
      <4> QED  BY <1>6, <4>1, <4>2, <4>3 DEF SkillInv, FilesWhole
    <3> QED  BY <3>1, <3>2
  <2>3. ASSUME NEW d \in Clients, At(d, "read")'
        PROVE  skillOp'[d].id \in DOMAIN skills
    BY <1>1, <1>3, <1>4, <2>3 DEF At, SkillInv, FilesWhole
  <2> QED  BY <1>2, <2>1, <2>2, <2>3 DEF FilesWhole
<1>9. FilesAccounted'
  <2> SUFFICES ASSUME NEW r \in Skills, disk'[r] # "nothing"
               PROVE  \/ r \in DOMAIN skills' \cup orphans'
                      \/ \E d \in Clients : Uploading(d, r)' \/ Removing(d, r)'
    BY <1>2, <1>5 DEF SkillInv, FilesAccounted
  <2>1. CASE r = s
    BY <1>2, <1>5, <2>1
  <2>2. CASE r # s
    <3>1. r \in DOMAIN skills \cup orphans \/ \E d \in Clients : Uploading(d, r) \/ Removing(d, r)
      BY <1>2, <1>6, <2>2 DEF SkillInv, FilesAccounted
    <3>2. ASSUME NEW d \in Clients, Removing(d, r)
          PROVE  Removing(d, r)'
      <4>1. d # c
        BY <1>2, <3>2 DEF Removing, Uploads
      <4> QED  BY <1>4, <3>2, <4>1 DEF Removing
    <3> QED  BY <1>2, <1>5, <3>1, <3>2
  <2> QED  BY <2>1, <2>2
<1> QED  BY <1>7, <1>8, <1>9 DEF SkillInv

(* A skill enters the map when its files are whole.                        *)
LEMMA UploadInsertKeeps ==
    ASSUME SkillInv, NEW c \in Clients, UploadInsert(c)
    PROVE  SkillInv'
<1> DEFINE s == skillOp[c].id
<1>1. /\ At(c, "insert") /\ Goto(c, Idle)
      /\ skills' = With(skills, s, skillOp[c].tenant)
      /\ UNCHANGED <<disk, used, orphans>>
  BY DEF UploadInsert
<1>2. /\ skillOp[c] \in Uploads /\ s \in Skills /\ Uploading(c, s)
      /\ s \in used \ DOMAIN skills
  BY <1>1 DEF At, Uploading, SkillInv, SkillTypes, FilesOwned, Idle, Uploads, Deletes, Resolves
<1>3. /\ skillOp' \in [Clients -> {Idle} \cup Uploads \cup Deletes \cup Resolves]
      /\ skillOp'[c] = Idle
      /\ \A d \in Clients \ {c} : skillOp'[d] = skillOp[d]
  BY <1>1, SkillMove DEF SkillInv
<1>4. DOMAIN skills' = DOMAIN skills \cup {s}
  BY <1>1 DEF With
<1>5. \A d \in Clients, r \in Skills :
         /\ Uploading(d, r)' <=> Uploading(d, r) /\ d # c
         /\ Removing(d, r)' <=> Removing(d, r) /\ d # c
  BY <1>3 DEF Uploading, Removing, Idle, Uploads
<1>6. \A d \in Clients \ {c} : ~Uploading(d, s) /\ ~Removing(d, s)
  BY <1>2 DEF SkillInv, FilesOwned
<1>7. SkillTypes' /\ FilesOwned'
  BY <1>1, <1>2, <1>3, <1>4, <1>5, <1>6 DEF SkillInv, SkillTypes, FilesOwned
<1>8. FilesWhole'
  BY <1>1, <1>3, <1>4 DEF SkillInv, FilesWhole, At, Idle
<1>9. FilesAccounted'
  <2> SUFFICES ASSUME NEW r \in Skills, disk'[r] # "nothing"
               PROVE  \/ r \in DOMAIN skills' \cup orphans'
                      \/ \E d \in Clients : Uploading(d, r)' \/ Removing(d, r)'
    BY <1>1, <1>2, <1>4, <1>5 DEF SkillInv, FilesAccounted
  <2>1. CASE r = s
    BY <1>4, <2>1
  <2>2. CASE r # s
    <3>1. r \in DOMAIN skills \cup orphans \/ \E d \in Clients : Uploading(d, r) \/ Removing(d, r)
      BY <1>1 DEF SkillInv, FilesAccounted
    <3>2. ~Uploading(c, r) /\ ~Removing(c, r)
      BY <1>2, <2>2 DEF Uploading, Removing
    <3> QED  BY <1>1, <1>4, <1>5, <3>1, <3>2
  <2> QED  BY <2>1, <2>2
<1> QED  BY <1>7, <1>8, <1>9 DEF SkillInv

(* A skill leaves the map when nobody reads it, and no other call has it.  *)
LEMMA DeleteEntryKeeps ==
    ASSUME SkillInv, NEW c \in Clients, DeleteEntry(c)
    PROVE  SkillInv'
<1> DEFINE s == skillOp[c].id
<1>1. /\ At(c, "lock") /\ skillOp[c] \in Deletes /\ s \in Skills
      /\ skillOp[c] \notin Uploads /\ ~At(c, "removeAll")
      /\ \A d \in Clients : ~At(d, "read")
      /\ UNCHANGED <<disk, used, orphans>>
  BY DEF DeleteEntry, Unlocked, At, SkillInv, SkillTypes, Idle, Uploads, Deletes, Resolves
<1>2. CASE UNCHANGED skills /\ Goto(c, Idle)
  BY <1>1, <1>2, QuietMove DEF Idle
<1>3. CASE /\ s \in DOMAIN skills /\ skills' = Without(skills, s)
           /\ Goto(c, [skillOp[c] EXCEPT !.at = "removeAll"])
  <2> DEFINE op == [skillOp[c] EXCEPT !.at = "removeAll"]
  <2>1. op \in Deletes /\ op.at = "removeAll" /\ op.id = s /\ op \notin Uploads
    BY <1>1 DEF Deletes, Uploads
  <2> HIDE DEF op
  <2>2. /\ skillOp' \in [Clients -> {Idle} \cup Uploads \cup Deletes \cup Resolves]
        /\ skillOp'[c] = op
        /\ \A d \in Clients \ {c} : skillOp'[d] = skillOp[d]
    BY <1>3, <2>1, SkillMove DEF SkillInv, op
  <2>3. DOMAIN skills' = DOMAIN skills \ {s}
    BY <1>3 DEF Without
  <2>4. \A d \in Clients, r \in Skills :
           /\ Uploading(d, r)' <=> Uploading(d, r)
           /\ Removing(d, r)' <=> Removing(d, r) \/ (d = c /\ r = s)
    BY <1>1, <2>1, <2>2 DEF Uploading, Removing, At
  <2>5. s \in used /\ \A d \in Clients : ~Uploading(d, s)
    BY <1>1, <1>3 DEF SkillInv, SkillTypes, FilesOwned
  <2>6. SkillTypes' /\ FilesOwned'
    BY <1>1, <2>2, <2>3, <2>4, <2>5 DEF SkillInv, SkillTypes, FilesOwned
  <2>7. FilesWhole'
    BY <1>1, <2>1, <2>2, <2>3 DEF SkillInv, FilesWhole, At
  <2>8. FilesAccounted'
    BY <1>1, <2>3, <2>4 DEF SkillInv, FilesAccounted
  <2> QED  BY <2>6, <2>7, <2>8 DEF SkillInv
<1> QED  BY <1>2, <1>3 DEF DeleteEntry

(* RemoveAll, of a skill that is in no map; or it fails.                   *)
LEMMA DeleteFilesKeeps ==
    ASSUME SkillInv, NEW c \in Clients, DeleteFiles(c)
    PROVE  SkillInv'
<1> DEFINE s == skillOp[c].id
<1>1. /\ At(c, "removeAll") /\ Goto(c, Idle) /\ UNCHANGED <<skills, used>>
      /\ skillOp[c] \in Deletes /\ s \in Skills /\ Removing(c, s)
  BY DEF DeleteFiles, At, Removing, SkillInv, SkillTypes, Idle, Uploads, Deletes, Resolves
<1>2. CASE orphans' = orphans \cup {s} /\ UNCHANGED disk
  BY <1>1, <1>2, QuietMove DEF Idle
<1>3. CASE disk' = [disk EXCEPT ![s] = Removed] /\ UNCHANGED orphans
  <2>1. /\ skillOp' \in [Clients -> {Idle} \cup Uploads \cup Deletes \cup Resolves]
        /\ skillOp'[c] = Idle
        /\ \A d \in Clients \ {c} : skillOp'[d] = skillOp[d]
    BY <1>1, SkillMove DEF SkillInv
  <2>2. /\ disk' \in [Skills -> {"nothing", "directory", "torn", "whole"}]
        /\ disk'[s] = "nothing" /\ \A r \in Skills \ {s} : disk'[r] = disk[r]
    BY <1>1, <1>3 DEF SkillInv, SkillTypes, Removed
  <2>3. \A d \in Clients, r \in Skills :
           /\ Uploading(d, r)' <=> Uploading(d, r)
           /\ Removing(d, r)' <=> Removing(d, r) /\ d # c
    BY <1>1, <2>1 DEF Uploading, Removing, Idle, Uploads, Deletes
  <2>4. s \notin DOMAIN skills /\ \A d \in Clients : ~Uploading(d, s)
    BY <1>1 DEF SkillInv, FilesOwned
  <2>5. SkillTypes' /\ FilesOwned'
    BY <1>1, <2>1, <2>2, <2>3 DEF SkillInv, SkillTypes, FilesOwned
  <2>6. FilesWhole'
    <3>1. \A r \in DOMAIN skills : disk'[r] = "whole"
      BY <2>2, <2>4 DEF SkillInv, SkillTypes, FilesWhole
    <3>2. ASSUME NEW d \in Clients, At(d, "insert")'
          PROVE  disk'[skillOp'[d].id] = "whole"
      <4>1. d # c /\ At(d, "insert") /\ skillOp'[d] = skillOp[d]
        BY <2>1, <3>2 DEF At, Idle
      <4>2. skillOp[d] \in Uploads /\ skillOp[d].id \in Skills
        BY <4>1 DEF At, SkillInv, SkillTypes, Idle, Uploads, Deletes, Resolves
      <4>3. skillOp[d].id # s
        BY <2>4, <4>2 DEF Uploading
      <4> QED  BY <2>2, <4>1, <4>2, <4>3 DEF SkillInv, FilesWhole
    <3>3. \A d \in Clients : At(d, "read")' => skillOp'[d].id \in DOMAIN skills
      BY <2>1 DEF At, Idle, SkillInv, FilesWhole
    <3> QED  BY <1>1, <3>1, <3>2, <3>3 DEF FilesWhole
  <2>7. FilesAccounted'
    <3> SUFFICES ASSUME NEW r \in Skills, disk'[r] # "nothing"
                 PROVE  \/ r \in DOMAIN skills' \cup orphans'
                        \/ \E d \in Clients : Uploading(d, r)' \/ Removing(d, r)'
      BY <1>1, <1>3, <2>3 DEF SkillInv, FilesAccounted
    <3>1. r # s
      BY <2>2
    <3>2. r \in DOMAIN skills \cup orphans \/ \E d \in Clients : Uploading(d, r) \/ Removing(d, r)
      BY <1>3, <2>2, <3>1 DEF SkillInv, FilesAccounted
    <3>3. ~Removing(c, r)
      BY <3>1 DEF Removing
    <3> QED  BY <1>1, <1>3, <2>3, <3>2, <3>3
  <2> QED  BY <2>5, <2>6, <2>7 DEF SkillInv
<1> QED  BY <1>2, <1>3 DEF DeleteFiles

LEMMA SkillStepKeeps ==
    ASSUME SkillInv, NEW c \in Clients,
           (At(c, "idle") /\ SkillCall(c)) \/ SkillStep(c)
    PROVE  SkillInv'
<1>1. CASE At(c, "idle") /\ Upload(c)
  BY <1>1, UploadKeeps
<1>2. CASE At(c, "idle") /\ Resolve(c)
  <2>1. PICK refs \in SUBSET used : Goto(c, [at |-> "lookup", todo |-> refs])
    BY <1>2 DEF Resolve
  <2>2. [at |-> "lookup", todo |-> refs] \in Resolves
    BY DEF Resolves, SkillInv, SkillTypes
  <2>3. /\ skillOp[c] \notin Uploads /\ ~At(c, "removeAll")
        /\ UNCHANGED <<skills, disk, used, orphans>>
    BY <1>2 DEF At, Uploads, Resolve
  <2> QED  BY <2>1, <2>2, <2>3, QuietMove
<1>3. CASE At(c, "idle") /\ Delete(c)
  <2>1. PICK s \in used, t \in Tenants :
          Goto(c, [at |-> "lock", id |-> s, tenant |-> t])
    BY <1>3 DEF Delete
  <2>2. [at |-> "lock", id |-> s, tenant |-> t] \in Deletes
    BY DEF Deletes, SkillInv, SkillTypes
  <2>3. /\ skillOp[c] \notin Uploads /\ ~At(c, "removeAll")
        /\ UNCHANGED <<skills, disk, used, orphans>>
    BY <1>3 DEF At, Uploads, Delete
  <2> QED  BY <2>1, <2>2, <2>3, QuietMove
<1>4. CASE UploadFails(c)
  <2>1. Uploading(c, skillOp[c].id)
    BY <1>4 DEF UploadFails, Uploading
  <2> QED  BY <1>4, <2>1, QuietMove DEF UploadFails, Idle
<1>5. CASE ResolveLookup(c)
  <2>1. /\ At(c, "lookup") /\ skillOp[c].todo \subseteq Skills
        /\ skillOp[c] \notin Uploads /\ ~At(c, "removeAll")
        /\ UNCHANGED <<skills, disk, used, orphans>>
    BY <1>5 DEF ResolveLookup, At, SkillInv, SkillTypes, Idle, Uploads, Deletes, Resolves
  <2>2. PICK s \in skillOp[c].todo :
          Goto(c, IF s \in DOMAIN skills
                  THEN [at |-> "read", id |-> s, todo |-> skillOp[c].todo \ {s}]
                  ELSE Idle)
    BY <1>5 DEF ResolveLookup
  <2>3. CASE s \in DOMAIN skills
    <3>1. [at |-> "read", id |-> s, todo |-> skillOp[c].todo \ {s}] \in Resolves
      BY <2>1 DEF Resolves
    <3> QED  BY <2>1, <2>2, <2>3, <3>1, QuietMove
  <2>4. CASE s \notin DOMAIN skills
    BY <2>1, <2>2, <2>4, QuietMove DEF Idle
  <2> QED  BY <2>3, <2>4
<1>6. CASE ResolveRead(c)
  <2>1. /\ At(c, "read") /\ skillOp[c].todo \subseteq Skills
        /\ skillOp[c] \notin Uploads /\ ~At(c, "removeAll")
        /\ UNCHANGED <<skills, disk, used, orphans>>
    BY <1>6 DEF ResolveRead, At, SkillInv, SkillTypes, Idle, Uploads, Deletes, Resolves
  <2>2. disk[skillOp[c].id] = "whole"
    BY <2>1 DEF SkillInv, FilesWhole
  <2>3. Goto(c, IF skillOp[c].todo = {} THEN Idle
                ELSE [at |-> "lookup", todo |-> skillOp[c].todo])
    BY <1>6, <2>2 DEF ResolveRead
  <2>4. [at |-> "lookup", todo |-> skillOp[c].todo] \in Resolves
    BY <2>1 DEF Resolves
  <2>5. CASE skillOp[c].todo = {}
    BY <2>1, <2>3, <2>5, QuietMove DEF Idle
  <2>6. CASE skillOp[c].todo # {}
    BY <2>1, <2>3, <2>4, <2>6, QuietMove
  <2> QED  BY <2>5, <2>6
<1> QED  BY <1>1, <1>2, <1>3, <1>4, <1>5, <1>6, UploadDiskKeeps, UploadInsertKeeps,
            DeleteEntryKeeps, DeleteFilesKeeps DEF SkillCall, SkillStep

(* No calls and no map: the start, and what a crash leaves.                *)
LEMMA SkillsAtRest ==
    /\ SkillInit => SkillInv
    /\ SkillInv /\ SkillsCrash => SkillInv'
<1>1. Idle.at = "idle" /\ Idle \notin Uploads /\ DOMAIN <<>> = {}
  BY DEF Idle, Uploads
<1>2. SkillInit => SkillInv
  BY <1>1 DEF SkillInit, SkillInv, SkillTypes, FilesOwned, FilesWhole, FilesAccounted,
              Uploading, Removing, At
<1>3. ASSUME SkillInv, SkillsCrash
      PROVE  SkillInv'
  <2>1. \A c \in Clients, s \in Skills :
           /\ Uploading(c, s) \/ Removing(c, s) => s \in InHand
           /\ ~Uploading(c, s)' /\ ~Removing(c, s)'
    BY <1>1, <1>3 DEF SkillsCrash, Uploading, Removing, InHand, At
  <2>2. InHand \subseteq used
    <3>1. ASSUME NEW c \in Clients, skillOp[c] \in Uploads \/ At(c, "removeAll")
          PROVE  skillOp[c].id \in used
      <4>1. skillOp[c].id \in Skills
        BY <1>3, <3>1 DEF At, SkillInv, SkillTypes, Idle, Uploads, Deletes, Resolves
      <4> QED  BY <1>3, <3>1, <4>1 DEF At, Uploading, Removing, SkillInv, FilesOwned
    <3> QED  BY <3>1 DEF InHand
  <2>3. FilesAccounted'
    BY <1>1, <1>3, <2>1, <2>2 DEF SkillsCrash, SkillInv, SkillTypes, FilesAccounted
  <2>4. SkillTypes' /\ FilesOwned' /\ FilesWhole'
    BY <1>1, <1>3, <2>1 DEF SkillsCrash, SkillInv, SkillTypes, FilesOwned, FilesWhole, At
  <2> QED  BY <2>3, <2>4 DEF SkillInv
<1> QED  BY <1>2, <1>3

LEMMA SkillsPromise == SkillInv => PromptsAreThere /\ OrphansOnly
<1>1. SkillInv => PromptsAreThere
  BY DEF SkillInv, SkillTypes, PromptsAreThere, At, Idle, Uploads, Deletes, Resolves
<1>2. SkillInv => OrphansOnly
  <2>1. ASSUME SkillInv, NEW c \in Clients, NEW s \in Skills, Uploading(c, s) \/ Removing(c, s)
        PROVE  skillOp[c] \in Uploads \cup Deletes /\ skillOp[c].id = s
    BY <2>1 DEF Uploading, Removing, SkillInv, SkillTypes, Idle, Uploads, Deletes, Resolves
  <2> QED  BY <2>1 DEF SkillInv, FilesAccounted, OrphansOnly
<1> QED  BY <1>1, <1>2

-----------------------------------------------------------------------------
(* LiteArtifactStore.  The mutex leaves a file to one writer, which has    *)
(* filled it to its offset; while nobody writes, a file keeps what it has, *)
(* and what a quiet Get has read is the beginning of that.                 *)

Copies(n, put) == [i \in 1..n |-> put]

Locks == [at : {"lock"}, key : Keys, put : Nat, offset : {0}]
Writes == [at : {"copy"}, key : Keys, put : Nat, offset : 0..Chunks]
Reads == [at : {"get"}, key : Keys, got : Seq(Nat), quiet : BOOLEAN]

ArtifactTypes ==
    /\ content \in [Keys -> Seq(Nat) \cup {NoFile}]
    /\ puts \in Nat
    /\ latest \in [Keys -> Nat]
    /\ artOp \in [Clients -> {NotBusy} \cup Locks \cup Writes \cup Reads]

OneWriter ==
    /\ putting = {c \in Clients : artOp[c].at = "copy"}
    /\ \A c, d \in putting : c = d

WriterFills ==
    \A c \in putting :
        /\ content[artOp[c].key] = Copies(artOp[c].offset, artOp[c].put)
        /\ latest[artOp[c].key] = 0

LatestIsThere == \A k \in Keys : latest[k] # 0 => content[k] = Copies(Chunks, latest[k])

ReaderFollows ==
    \A c \in Clients : artOp[c].at = "get" =>
        LET op == artOp[c]  file == content[op.key] IN
        /\ file \in Seq(Nat)
        /\ op.quiet =>
              /\ \A d \in putting : artOp[d].key # op.key
              /\ Len(op.got) <= Len(file)
              /\ \A i \in 1..Len(op.got) : op.got[i] = file[i]

ArtifactInv ==
    ArtifactTypes /\ OneWriter /\ WriterFills /\ LatestIsThere /\ ReaderFollows /\ ~misread

LEMMA CopiesFacts ==
    ASSUME NEW n \in Nat, NEW put \in Nat
    PROVE  /\ Copies(n, put) \in Seq(Nat) /\ Len(Copies(n, put)) = n
           /\ Copies(0, put) = <<>>
           /\ Written(Copies(n, put), n, put) = Copies(n + 1, put)
  BY DEF Copies, Written

(* A call that goes on within its own state, or ends, without the mutex.   *)
LEMMA ArtifactMove ==
    ASSUME ArtifactInv, NEW c \in Clients, artOp[c].at # "copy",
           NEW op \in {NotBusy} \cup Locks \cup Reads,
           artOp' = [artOp EXCEPT ![c] = op], puts' \in Nat,
           UNCHANGED <<content, putting, latest>>, ~misread',
           op.at = "get" =>
              LET file == content[op.key] IN
              /\ file \in Seq(Nat)
              /\ op.quiet =>
                    /\ \A d \in putting : artOp[d].key # op.key
                    /\ Len(op.got) <= Len(file)
                    /\ \A i \in 1..Len(op.got) : op.got[i] = file[i]
    PROVE  ArtifactInv'
<1>1. /\ artOp' \in [Clients -> {NotBusy} \cup Locks \cup Writes \cup Reads]
      /\ artOp'[c] = op /\ op.at # "copy"
      /\ \A d \in Clients \ {c} : artOp'[d] = artOp[d]
  BY DEF ArtifactInv, ArtifactTypes, NotBusy, Locks, Reads
<1>2. /\ putting \subseteq Clients \ {c}
      /\ \A d \in putting : artOp'[d] = artOp[d]
  BY <1>1 DEF ArtifactInv, OneWriter
<1>3. ArtifactTypes' /\ OneWriter'
  BY <1>1, <1>2 DEF ArtifactInv, ArtifactTypes, OneWriter
<1>4. WriterFills' /\ LatestIsThere'
  BY <1>2 DEF ArtifactInv, WriterFills, LatestIsThere
<1>5. ReaderFollows'
  BY <1>1, <1>2 DEF ArtifactInv, ReaderFollows
<1> QED  BY <1>3, <1>4, <1>5 DEF ArtifactInv

LEMMA PutCreatesKeeps ==
    ASSUME ArtifactInv, NEW c \in Clients, PutCreates(c)
    PROVE  ArtifactInv'
<1> DEFINE k == artOp[c].key
<1>1. /\ artOp[c] \in Locks /\ k \in Keys /\ artOp[c].put \in Nat /\ artOp[c].offset = 0
      /\ putting = {} /\ putting' = {c} /\ UNCHANGED <<puts, misread>>
      /\ content' \in [Keys -> Seq(Nat) \cup {NoFile}] /\ content'[k] = <<>>
      /\ latest' \in [Keys -> Nat] /\ latest'[k] = 0
      /\ \A j \in Keys \ {k} : content'[j] = content[j] /\ latest'[j] = latest[j]
  BY DEF PutCreates, MutexFree, ArtifactInv, ArtifactTypes, NotBusy, Locks, Writes, Reads
<1>2. /\ artOp'[c] \in Writes /\ artOp'[c].at = "copy" /\ artOp'[c].key = k
      /\ artOp'[c].put = artOp[c].put /\ artOp'[c].offset = 0
  BY <1>1, ArtifactBounds DEF PutCreates, Locks, Writes
<1>3. ASSUME NEW d \in Clients \ {c}
      PROVE  /\ artOp'[d] \in {NotBusy} \cup Locks \cup Reads
             /\ artOp'[d].at = artOp[d].at
             /\ artOp'[d].at = "get" =>
                  /\ artOp'[d].key = artOp[d].key /\ artOp'[d].got = artOp[d].got
                  /\ artOp'[d].quiet => artOp[d].quiet /\ artOp[d].key # k
  <2>1. artOp[d] \in {NotBusy} \cup Locks \cup Reads
    BY <1>1 DEF ArtifactInv, ArtifactTypes, OneWriter, Writes
  <2>2. CASE artOp[d].at = "get" /\ artOp[d].key = k
    <3>1. artOp'[d] = [artOp[d] EXCEPT !.quiet = FALSE] /\ artOp[d] \in Reads
      BY <2>1, <2>2 DEF PutCreates, NotBusy, Locks
    <3>2. /\ artOp'[d] \in Reads /\ artOp'[d].at = "get" /\ artOp'[d].key = artOp[d].key
          /\ artOp'[d].got = artOp[d].got /\ artOp'[d].quiet = FALSE
      BY <3>1 DEF Reads
    <3> QED  BY <2>2, <3>2
  <2>3. CASE ~(artOp[d].at = "get" /\ artOp[d].key = k)
    BY <2>1, <2>3 DEF PutCreates, NotBusy, Locks, Reads
  <2> QED  BY <2>2, <2>3
<1>4. artOp' \in [Clients -> {NotBusy} \cup Locks \cup Writes \cup Reads]
  BY <1>2, <1>3 DEF PutCreates
<1>5. ArtifactTypes'
  BY <1>1, <1>4 DEF ArtifactInv, ArtifactTypes
<1>6. OneWriter'
  <2>1. ASSUME NEW d \in Clients
        PROVE  artOp'[d].at = "copy" <=> d = c
    BY <1>2, <1>3 DEF NotBusy, Locks, Reads
  <2> QED  BY <1>1, <2>1 DEF OneWriter
<1>7. WriterFills'
  BY <1>1, <1>2, CopiesFacts DEF WriterFills
<1>8. LatestIsThere'
  BY <1>1 DEF ArtifactInv, LatestIsThere
<1>9. ReaderFollows'
  <2> SUFFICES ASSUME NEW d \in Clients, artOp'[d].at = "get"
               PROVE  LET op == artOp'[d]  file == content'[op.key] IN
                      /\ file \in Seq(Nat)
                      /\ op.quiet =>
                            /\ \A e \in putting' : artOp'[e].key # op.key
                            /\ Len(op.got) <= Len(file)
                            /\ \A i \in 1..Len(op.got) : op.got[i] = file[i]
    BY DEF ReaderFollows
  <2>1. d # c /\ artOp[d].at = "get" /\ artOp'[d].key = artOp[d].key
        /\ artOp'[d].key \in Keys
    BY <1>2, <1>3 DEF Locks, Reads, NotBusy
  <2>2. CASE artOp[d].key = k
    <3>1. content'[k] \in Seq(Nat)
      BY <1>1
    <3>2. ~artOp'[d].quiet
      BY <1>3, <2>1, <2>2
    <3> QED  BY <2>1, <2>2, <3>1, <3>2
  <2>3. CASE artOp[d].key # k
    <3>1. /\ content'[artOp'[d].key] = content[artOp[d].key] /\ artOp'[d].got = artOp[d].got
          /\ artOp'[d].quiet => artOp[d].quiet
          /\ \A e \in putting' : artOp'[e].key # artOp'[d].key
      BY <1>1, <1>2, <1>3, <2>1, <2>3
    <3> QED  BY <2>1, <3>1 DEF ArtifactInv, ReaderFollows
  <2> QED  BY <2>2, <2>3
<1> QED  BY <1>1, <1>5, <1>6, <1>7, <1>8, <1>9 DEF ArtifactInv

(* The one writer, and nobody who reads its file is quiet.                 *)
LEMMA WriterFacts ==
    ASSUME ArtifactInv, NEW c \in Clients, artOp[c].at = "copy"
    PROVE  /\ artOp[c] \in Writes /\ artOp[c].key \in Keys /\ artOp[c].put \in Nat
           /\ artOp[c].offset \in 0..Chunks
           /\ putting = {c}
           /\ content[artOp[c].key] = Copies(artOp[c].offset, artOp[c].put)
           /\ latest[artOp[c].key] = 0
           /\ \A d \in Clients : artOp[d].at = "get" /\ artOp[d].quiet =>
                artOp[d].key # artOp[c].key
<1>1. artOp[c] \in Writes
  BY DEF ArtifactInv, ArtifactTypes, NotBusy, Locks, Reads
<1>2. c \in putting
  BY DEF ArtifactInv, OneWriter
<1>3. putting = {c}
  BY <1>2 DEF ArtifactInv, OneWriter
<1> QED  BY <1>1, <1>2, <1>3 DEF ArtifactInv, WriterFills, ReaderFollows, Writes

LEMMA PutCopiesKeeps ==
    ASSUME ArtifactInv, NEW c \in Clients, PutCopies(c)
    PROVE  ArtifactInv'
<1> DEFINE k == artOp[c].key
           o == artOp[c].offset
           p == artOp[c].put
<1>1. /\ artOp[c] \in Writes /\ k \in Keys /\ p \in Nat /\ o \in 0..Chunks /\ putting = {c}
      /\ content[k] = Copies(o, p) /\ latest[k] = 0
      /\ \A d \in Clients : artOp[d].at = "get" /\ artOp[d].quiet => artOp[d].key # k
  BY WriterFacts DEF PutCopies
<1>2. /\ o < Chunks /\ content' = [content EXCEPT ![k] = Written(content[k], o, p)]
      /\ artOp' = [artOp EXCEPT ![c] = [artOp[c] EXCEPT !.offset = o + 1]]
      /\ UNCHANGED <<putting, puts, latest, misread>>
  BY DEF PutCopies, ArtifactInv, ArtifactTypes
<1>3. /\ content' \in [Keys -> Seq(Nat) \cup {NoFile}] /\ content'[k] = Copies(o + 1, p)
      /\ content'[k] \in Seq(Nat)
      /\ \A j \in Keys \ {k} : content'[j] = content[j]
  <2>1. Written(content[k], o, p) = Copies(o + 1, p) /\ Copies(o + 1, p) \in Seq(Nat)
    <3>1. o \in Nat /\ o + 1 \in Nat
      BY <1>1, ArtifactBounds
    <3> QED  BY <1>1, <3>1, CopiesFacts
  <2> QED  BY <1>1, <1>2, <2>1 DEF ArtifactInv, ArtifactTypes
<1>4. /\ artOp'[c] \in Writes /\ artOp'[c].at = "copy" /\ artOp'[c].key = k
      /\ artOp'[c].put = p /\ artOp'[c].offset = o + 1
      /\ artOp' \in [Clients -> {NotBusy} \cup Locks \cup Writes \cup Reads]
      /\ \A d \in Clients \ {c} : artOp'[d] = artOp[d]
  <2>1. [artOp[c] EXCEPT !.offset = o + 1] \in Writes
    BY <1>1, <1>2, ArtifactBounds DEF Writes
  <2> QED  BY <1>1, <1>2, <2>1 DEF ArtifactInv, ArtifactTypes, Writes
<1>5. ArtifactTypes' /\ OneWriter'
  BY <1>1, <1>2, <1>3, <1>4 DEF ArtifactInv, ArtifactTypes, OneWriter
<1>6. WriterFills'
  BY <1>1, <1>2, <1>3, <1>4 DEF WriterFills
<1>7. LatestIsThere'
  BY <1>1, <1>2, <1>3 DEF ArtifactInv, LatestIsThere
<1>8. ReaderFollows'
  <2> SUFFICES ASSUME NEW d \in Clients, artOp'[d].at = "get"
               PROVE  LET op == artOp'[d]  file == content'[op.key] IN
                      /\ file \in Seq(Nat)
                      /\ op.quiet =>
                            /\ \A e \in putting' : artOp'[e].key # op.key
                            /\ Len(op.got) <= Len(file)
                            /\ \A i \in 1..Len(op.got) : op.got[i] = file[i]
    BY DEF ReaderFollows
  <2>1. d # c /\ artOp'[d] = artOp[d] /\ artOp[d].key \in Keys
    BY <1>4 DEF ArtifactInv, ArtifactTypes, NotBusy, Locks, Writes, Reads
  <2>2. CASE artOp[d].key = k
    BY <1>1, <1>3, <2>1, <2>2
  <2>3. CASE artOp[d].key # k
    BY <1>1, <1>2, <1>3, <1>4, <2>1, <2>3 DEF ArtifactInv, ReaderFollows
  <2> QED  BY <2>2, <2>3
<1> QED  BY <1>2, <1>5, <1>6, <1>7, <1>8 DEF ArtifactInv

(* The writer leaves: with all of its data in the file, or without a word. *)
LEMMA WriterLeaves ==
    ASSUME ArtifactInv, NEW c \in Clients, artOp[c].at = "copy",
           putting' = putting \ {c}, artOp' = [artOp EXCEPT ![c] = NotBusy],
           UNCHANGED <<content, puts, misread>>,
           \/ UNCHANGED latest
           \/ /\ artOp[c].offset = Chunks
              /\ latest' = [latest EXCEPT ![artOp[c].key] = artOp[c].put]
    PROVE  ArtifactInv'
<1>1. /\ artOp[c].key \in Keys /\ artOp[c].put \in Nat /\ putting = {c}
      /\ content[artOp[c].key] = Copies(artOp[c].offset, artOp[c].put)
  BY WriterFacts
<1>2. /\ artOp' \in [Clients -> {NotBusy} \cup Locks \cup Writes \cup Reads]
      /\ artOp'[c] = NotBusy /\ \A d \in Clients \ {c} : artOp'[d] = artOp[d]
  BY DEF ArtifactInv, ArtifactTypes
<1>3. ArtifactTypes' /\ OneWriter' /\ WriterFills'
  BY <1>1, <1>2 DEF ArtifactInv, ArtifactTypes, OneWriter, WriterFills, NotBusy
<1>4. LatestIsThere'
  BY <1>1 DEF ArtifactInv, ArtifactTypes, LatestIsThere
<1>5. ReaderFollows'
  BY <1>1, <1>2 DEF ArtifactInv, ReaderFollows, NotBusy
<1> QED  BY <1>3, <1>4, <1>5 DEF ArtifactInv

LEMMA GetReadsKeeps ==
    ASSUME ArtifactInv, NEW c \in Clients, GetReads(c)
    PROVE  ArtifactInv'
<1> DEFINE op == artOp[c]
           file == content[op.key]
<1>1. /\ op \in Reads /\ op.at = "get" /\ op.key \in Keys /\ op.got \in Seq(Nat)
      /\ file \in Seq(Nat) /\ UNCHANGED <<content, putting, puts, latest>>
      /\ puts \in Nat /\ ~misread
      /\ op.quiet =>
            /\ \A d \in putting : artOp[d].key # op.key
            /\ Len(op.got) <= Len(file)
            /\ \A i \in 1..Len(op.got) : op.got[i] = file[i]
  BY DEF GetReads, ArtifactInv, ArtifactTypes, ReaderFollows, NotBusy, Locks, Writes, Reads
<1> HIDE DEF op, file
<1>2. CASE /\ Len(op.got) < Len(file)
           /\ artOp' = [artOp EXCEPT ![c].got = Append(@, file[Len(op.got) + 1])]
           /\ UNCHANGED misread
  <2> DEFINE next == [op EXCEPT !.got = Append(op.got, file[Len(op.got) + 1])]
  <2>1. file[Len(op.got) + 1] \in Nat
    BY <1>1, <1>2
  <2>2. /\ next \in Reads /\ next.at = "get" /\ next.key = op.key /\ next.quiet = op.quiet
        /\ next.got = Append(op.got, file[Len(op.got) + 1])
    <3>1. Append(op.got, file[Len(op.got) + 1]) \in Seq(Nat)
      BY <1>1, <2>1
    <3> QED  BY <1>1, <3>1 DEF Reads
  <2>3. artOp' = [artOp EXCEPT ![c] = next]
    BY <1>2 DEF ArtifactInv, ArtifactTypes, op
  <2>4. /\ Len(next.got) = Len(op.got) + 1
        /\ \A i \in 1..Len(op.got) : next.got[i] = op.got[i]
        /\ next.got[Len(op.got) + 1] = file[Len(op.got) + 1]
    BY <1>1, <2>1, <2>2
  <2> HIDE DEF next
  <2>5. op.quiet => /\ Len(next.got) <= Len(file)
                    /\ \A i \in 1..Len(next.got) : next.got[i] = file[i]
    <3>1. \A i \in 1..Len(next.got) : i = Len(op.got) + 1 \/ i \in 1..Len(op.got)
      BY <1>1, <2>4
    <3>2. Len(next.got) <= Len(file)
      BY <1>1, <1>2, <2>4
    <3> QED  BY <1>1, <2>4, <3>1, <3>2
  <2>6. file = content[next.key] /\ artOp[c].at # "copy"
    BY <1>1, <2>2 DEF file, op
  <2>7. /\ content[next.key] \in Seq(Nat)
        /\ next.quiet =>
              /\ \A d \in putting : artOp[d].key # next.key
              /\ Len(next.got) <= Len(content[next.key])
              /\ \A i \in 1..Len(next.got) : next.got[i] = content[next.key][i]
    BY <1>1, <2>2, <2>5, <2>6
  <2>8. /\ artOp' = [artOp EXCEPT ![c] = next] /\ next \in {NotBusy} \cup Locks \cup Reads
        /\ puts' \in Nat /\ ~misread' /\ UNCHANGED <<content, putting, latest>>
    BY <1>1, <1>2, <2>2, <2>3
  <2> QED  BY <2>6, <2>7, <2>8, ArtifactMove
<1>3. CASE /\ Len(op.got) >= Len(file)
           /\ artOp' = [artOp EXCEPT ![c] = NotBusy]
           /\ misread' = (misread \/
                 /\ op.quiet /\ latest[op.key] # 0
                 /\ op.got # [i \in 1..Chunks |-> latest[op.key]])
  <2>1. ASSUME op.quiet, latest[op.key] # 0
        PROVE  op.got = [i \in 1..Chunks |-> latest[op.key]]
    <3>1. file = Copies(Chunks, latest[op.key])
      BY <1>1, <2>1 DEF ArtifactInv, LatestIsThere, file
    <3>2. Len(op.got) = Len(file) /\ \A i \in 1..Len(op.got) : op.got[i] = file[i]
      BY <1>1, <1>3, <2>1
    <3>3. op.got = file
      BY <1>1, <3>2, SeqEqual
    <3> QED  BY <3>1, <3>3 DEF Copies
  <2>2. ~misread'
    BY <1>1, <1>3, <2>1
  <2>3. NotBusy.at # "get" /\ artOp[c].at # "copy"
    BY <1>1 DEF NotBusy, op
  <2> QED  BY <1>1, <1>3, <2>2, <2>3, ArtifactMove
<1> QED  BY <1>2, <1>3 DEF GetReads, op, file

LEMMA ArtifactStepKeeps ==
    ASSUME ArtifactInv, NEW c \in Clients,
           (artOp[c] = NotBusy /\ ArtifactCall(c)) \/ ArtifactStep(c)
    PROVE  ArtifactInv'
<1>1. CASE artOp[c] = NotBusy /\ Put(c)
  <2>1. PICK k \in Keys :
          artOp' = [artOp EXCEPT ![c] = [at |-> "lock", key |-> k, put |-> puts', offset |-> 0]]
    BY <1>1 DEF Put
  <2>2. /\ puts' \in Nat /\ artOp[c].at # "copy" /\ ~misread'
        /\ UNCHANGED <<content, putting, latest>>
    BY <1>1 DEF Put, ArtifactInv, ArtifactTypes, NotBusy
  <2>3. [at |-> "lock", key |-> k, put |-> puts', offset |-> 0] \in Locks
    BY <2>2 DEF Locks
  <2> QED  BY <2>1, <2>2, <2>3, ArtifactMove
<1>2. CASE artOp[c] = NotBusy /\ Get(c)
  <2>1. PICK k \in Keys :
          /\ content[k] # NoFile
          /\ artOp' = [artOp EXCEPT ![c] =
                [at |-> "get", key |-> k, got |-> <<>>,
                 quiet |-> \A d \in putting : artOp[d].key # k]]
    BY <1>2 DEF Get
  <2> DEFINE op == [at |-> "get", key |-> k, got |-> <<>>,
                    quiet |-> \A d \in putting : artOp[d].key # k]
  <2>2. /\ puts' \in Nat /\ artOp[c].at # "copy" /\ ~misread'
        /\ UNCHANGED <<content, putting, latest>> /\ content[k] \in Seq(Nat)
    BY <1>2, <2>1 DEF Get, ArtifactInv, ArtifactTypes, NotBusy
  <2>3. /\ op \in Reads /\ op.key = k /\ op.got = <<>>
        /\ op.quiet => \A d \in putting : artOp[d].key # k
    BY DEF Reads
  <2> HIDE DEF op
  <2>4. Len(op.got) <= Len(content[k]) /\ \A i \in 1..Len(op.got) : op.got[i] = content[k][i]
    BY <2>2, <2>3
  <2>5. artOp' = [artOp EXCEPT ![c] = op]
    BY <2>1 DEF op
  <2> QED  BY <2>2, <2>3, <2>4, <2>5, ArtifactMove
<1>3. CASE PutReturns(c)
  BY <1>3, WriterLeaves DEF PutReturns
<1>4. CASE PutFails(c)
  BY <1>4, WriterLeaves DEF PutFails
<1>5. CASE PutCreatesNone(c)
  <2>1. artOp[c].at # "copy" /\ ~misread' /\ UNCHANGED <<content, putting, latest, puts>>
    BY <1>5 DEF PutCreatesNone, ArtifactInv
  <2> QED  BY <1>5, <2>1, ArtifactMove DEF PutCreatesNone, NotBusy, ArtifactInv, ArtifactTypes
<1> QED  BY <1>1, <1>2, <1>3, <1>4, <1>5, PutCreatesKeeps, PutCopiesKeeps, GetReadsKeeps
         DEF ArtifactCall, ArtifactStep

(* No calls: the start, and what a crash leaves.                           *)
LEMMA ArtifactsAtRest ==
    /\ ArtifactInit => ArtifactInv
    /\ ArtifactInv /\ ArtifactsCrash => ArtifactInv'
<1>1. NotBusy.at = "idle"
  BY DEF NotBusy
<1>2. ArtifactInit => ArtifactInv
  BY <1>1 DEF ArtifactInit, ArtifactInv, ArtifactTypes, OneWriter, WriterFills,
              LatestIsThere, ReaderFollows
<1>3. ArtifactInv /\ ArtifactsCrash => ArtifactInv'
  BY <1>1 DEF ArtifactsCrash, ArtifactInv, ArtifactTypes, OneWriter, WriterFills,
              LatestIsThere, ReaderFollows
<1> QED  BY <1>2, <1>3

-----------------------------------------------------------------------------
(* The stores together.                                                    *)

IInv == SkillInv /\ ArtifactInv /\ ToolInv /\ SecretInv

LEMMA InvInit == Init => IInv
  BY SkillsAtRest, ArtifactsAtRest, NoToolsYet, NoSecretsYet DEF Init, IInv

(* A store that is not called keeps its invariant.                         *)
LEMMA SkillsUncalled == SkillInv /\ UNCHANGED skillVars => SkillInv'
  BY DEF skillVars, SkillInv, SkillTypes, FilesOwned, FilesWhole, FilesAccounted,
         Uploading, Removing, At

LEMMA ArtifactsUncalled == ArtifactInv /\ UNCHANGED artVars => ArtifactInv'
  BY DEF artVars, ArtifactInv, ArtifactTypes, OneWriter, WriterFills, LatestIsThere,
         ReaderFollows

LEMMA ToolsUncalled == ToolInv /\ UNCHANGED toolVars => ToolInv'
  BY DEF toolVars, ToolInv

LEMMA SecretsUncalled == SecretInv /\ UNCHANGED secretVars => SecretInv'
  BY DEF secretVars, SecretInv, SecretTypes, Kept

LEMMA InvNext == IInv /\ [Next]_vars => IInv'
<1> SUFFICES ASSUME IInv, [Next]_vars
             PROVE  IInv'
  OBVIOUS
<1>1. CASE Skill
  BY <1>1, SkillStepKeeps, ArtifactsUncalled, ToolsUncalled, SecretsUncalled
     DEF Skill, IInv
<1>2. CASE Artifact
  BY <1>2, ArtifactStepKeeps, SkillsUncalled, ToolsUncalled, SecretsUncalled
     DEF Artifact, IInv
<1>3. CASE Tool
  BY <1>3, ToolStepKeeps, SkillsUncalled, ArtifactsUncalled, SecretsUncalled DEF Tool, IInv
<1>4. CASE Secret
  BY <1>4, SecretStepKeeps, SkillsUncalled, ArtifactsUncalled, ToolsUncalled DEF Secret, IInv
<1>5. CASE Crash
  BY <1>5, SkillsAtRest, ArtifactsAtRest, NoToolsYet, NoSecretsYet DEF Crash, IInv
<1>6. CASE UNCHANGED vars
  BY <1>6, SkillsUncalled, ArtifactsUncalled, ToolsUncalled, SecretsUncalled DEF vars, IInv
<1> QED  BY <1>1, <1>2, <1>3, <1>4, <1>5, <1>6 DEF Next

(* The strengthened invariants hold of every reachable state.              *)
THEOREM Invariance == Spec => []IInv
  BY InvInit, InvNext, PTL DEF Spec

(* Resolve finds the whole prompt of every skill it has found in the map:  *)
(* Upload inserts after WriteFile, and Delete takes the skill off the map  *)
(* under the write lock before RemoveAll (skill.go).                       *)
THEOREM PromptsAreRead == Spec => []PromptsAreThere
<1>1. IInv => PromptsAreThere
  BY SkillsPromise DEF IInv
<1> QED  BY <1>1, Invariance, PTL

(* Whatever is on the disk is a skill in the map, in the hands of a call   *)
(* that brings or removes it, or an orphan of a failed or interrupted call *)
(* or of an earlier process, and no orphan is in the map (skill.go, Upload *)
(* and Delete).                                                            *)
THEOREM DiskIsAccountedFor == Spec => []OrphansOnly
<1>1. IInv => OrphansOnly
  BY SkillsPromise DEF IInv
<1> QED  BY <1>1, Invariance, PTL

(* A Get without the lock, of a key that no Put overlaps, reads what the   *)
(* latest Put wrote, when that one ended well (artifact.go).               *)
THEOREM QuietGetsAreExact == Spec => []QuietGetsReadTheLatest
<1>1. IInv => QuietGetsReadTheLatest
  BY DEF IInv, ArtifactInv, QuietGetsReadTheLatest
<1> QED  BY <1>1, Invariance, PTL

(* A tool is resolved under the name its last update gave it and no other, *)
(* and a name of no tenant's tool is a global tool's or nobody's           *)
(* (registry.go, UpdateTool and Resolve).                                  *)
THEOREM NamesResolve == Spec => []ToolsHaveTheirNames
<1>1. IInv => ToolsHaveTheirNames
  BY ToolsResolve DEF IInv
<1> QED  BY <1>1, Invariance, PTL

(* The credentials in the store are what was stored, whatever callers do   *)
(* with the maps they passed in and got back; and the map that Get copies  *)
(* after the unlock is nobody's to write (secret.go, Store and Get).       *)
THEOREM CredentialsAreKept == Spec => []CredentialsArePrivate
<1>1. IInv => CredentialsArePrivate
  BY SecretsPrivate DEF IInv
<1> QED  BY <1>1, Invariance, PTL
=============================================================================
