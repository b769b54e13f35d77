-------------------------- MODULE DefinitionsProofs --------------------------
(***************************************************************************)
(* The two maps of definitions that callers read, keep and rely on: agents *)
(* by id (AgentStore) and tools by name (ToolsRegistry), for any number of *)
(* clients, agents, tools, names and definitions.  They have no state in   *)
(* common; each has its specification and its invariant.                   *)
(*                                                                         *)
(* AgentStore first: optimistic concurrency control loses no acknowledged  *)
(* update.  The argument is that of the code: an Update goes through only  *)
(* if the version the client holds is the stored one, and then the client  *)
(* holds the stored fields.                                                *)
(***************************************************************************)
EXTENDS AgentStore, ToolsRegistry, Sums, SequenceTheorems, TLAPS

(* The history variables have an entry for every agent.                    *)
Histories == Len(base) = Len(agents) /\ Len(acked) = Len(agents)

IInv == TypeOK /\ Histories /\ NoLostUpdate /\ VersionNamesContent

(* Of the client's steps, the ones that touch an agent do so at an id that *)
(* is in the map.                                                          *)
LEMMA HeldId ==
    ASSUME TypeOK, NEW c \in Clients, held[c] # None
    PROVE  /\ held[c] \in Held
           /\ held[c].id \in DOMAIN agents
           /\ held[c].def \in AgentDefinitions
           /\ agents[held[c].id] \in AgentDefinitions
<1>1. held[c] \in Held /\ held[c].id \in DOMAIN agents
  BY DEF TypeOK
<1>2. held[c].def \in AgentDefinitions
  BY <1>1 DEF Held
<1>3. agents[held[c].id] \in AgentDefinitions
  BY <1>1 DEF TypeOK
<1> QED  BY <1>1, <1>2, <1>3

(* What Clone stores is a definition.                                      *)
LEMMA ClonedDefinition ==
    ASSUME NEW d \in AgentDefinitions
    PROVE  LET e == [d EXCEPT !.version = 1, !.archived = FALSE] IN
             e \in AgentDefinitions /\ e.env = d.env
<1> DEFINE e == [d EXCEPT !.version = 1]
<1>1. e \in AgentDefinitions
  BY DEF AgentDefinitions
<1> HIDE DEF e
<1>2. [e EXCEPT !.archived = FALSE] \in AgentDefinitions
  BY <1>1 DEF AgentDefinitions
<1>3. [d EXCEPT !.version = 1, !.archived = FALSE] \in AgentDefinitions
  BY <1>2 DEF e
<1> QED  BY <1>3 DEF AgentDefinitions

-----------------------------------------------------------------------------
(* What Append does to a sequence, entry by entry.                         *)
LEMMA AppendFacts ==
    ASSUME NEW S, NEW s \in Seq(S), NEW e \in S
    PROVE  /\ Append(s, e) \in Seq(S)
           /\ Len(s) \in Nat
           /\ Len(Append(s, e)) = Len(s) + 1
           /\ DOMAIN s = 1..Len(s)
           /\ DOMAIN Append(s, e) = 1..(Len(s) + 1)
           /\ \A i \in 1..Len(s) : Append(s, e)[i] = s[i]
           /\ Append(s, e)[Len(s) + 1] = e
  OBVIOUS

(* Create and Clone append one definition, its base and a zero.            *)
LEMMA AppendKeeps ==
    ASSUME IInv, NEW c \in Clients, NEW def \in AgentDefinitions,
           content' \in Seq(Nat),
           def.env \in DOMAIN content', DOMAIN content \subseteq DOMAIN content',
           agents' = Append(agents, def),
           Holds(c, Len(agents) + 1, def),
           base' = Append(base, def.value), acked' = Append(acked, 0)
    PROVE  IInv'
<1> DEFINE new == Len(agents) + 1
<1>0. /\ def.value \in Nat /\ def.version \in Nat
      /\ agents \in Seq(AgentDefinitions) /\ base \in Seq(Nat) /\ acked \in Seq(Nat)
      /\ Len(base) = Len(agents) /\ Len(acked) = Len(agents)
  BY DEF AgentDefinitions, IInv, TypeOK, Histories
<1>1. /\ agents' \in Seq(AgentDefinitions) /\ Len(agents') = new
      /\ DOMAIN agents' = 1..new /\ DOMAIN agents = 1..Len(agents)
      /\ Len(agents) \in Nat
      /\ \A id \in 1..Len(agents) : agents'[id] = agents[id]
      /\ agents'[new] = def
  BY <1>0, AppendFacts
<1>2. /\ base' \in Seq(Nat) /\ Len(base') = new
      /\ \A id \in 1..Len(agents) : base'[id] = base[id]
      /\ base'[new] = def.value
  BY <1>0, AppendFacts
<1>3. /\ acked' \in Seq(Nat) /\ Len(acked') = new
      /\ \A id \in 1..Len(agents) : acked'[id] = acked[id]
      /\ acked'[new] = 0
  BY <1>0, AppendFacts
<1>4. /\ new \in Nat \ {0}
      /\ new \in DOMAIN agents'
      /\ \A id \in DOMAIN agents : id \in DOMAIN agents'
      /\ \A id \in DOMAIN agents' : id \in DOMAIN agents \/ id = new
  BY <1>1
<1>5. [id |-> new, def |-> def] \in Held
  BY <1>4 DEF Held
<1>6. /\ held' \in [Clients -> Held \cup {None}]
      /\ \A d \in Clients :
            held'[d] = IF d = c THEN [id |-> new, def |-> def] ELSE held[d]
  BY <1>5 DEF Holds, IInv, TypeOK
<1> HIDE DEF new
<1>7. TypeOK'
  <2>1. \A id \in DOMAIN agents' : agents'[id].env \in DOMAIN content'
    BY <1>1, <1>4 DEF IInv, TypeOK
  <2>2. ASSUME NEW d \in Clients, held'[d] # None
        PROVE  held'[d].id \in DOMAIN agents'
    <3>1. CASE d = c
      BY <3>1, <1>4, <1>6
    <3>2. CASE d # c
      BY <2>2, <3>2, <1>4, <1>6 DEF IInv, TypeOK
    <3> QED  BY <3>1, <3>2
  <2> QED  BY <1>1, <1>2, <1>3, <1>6, <2>1, <2>2 DEF TypeOK
<1>8. Histories'
  BY <1>1, <1>2, <1>3 DEF Histories
<1>9. NoLostUpdate'
  <2> SUFFICES ASSUME NEW id \in DOMAIN agents'
               PROVE  agents'[id].value = base'[id] + acked'[id]
    BY DEF NoLostUpdate
  <2>1. CASE id \in DOMAIN agents
    BY <2>1, <1>1, <1>2, <1>3 DEF IInv, NoLostUpdate
  <2>2. CASE id = new
    <3>1. agents'[id].value = def.value /\ base'[id] = def.value /\ acked'[id] = 0
      BY <2>2, <1>1, <1>2, <1>3
    <3>2. def.value + 0 = def.value
      BY <1>0
    <3> QED  BY <3>1, <3>2
  <2> QED  BY <2>1, <2>2, <1>4
<1>10. VersionNamesContent'
  <2> SUFFICES ASSUME NEW d \in Clients, held'[d] # None
               PROVE  /\ held'[d].def.version <= agents'[held'[d].id].version
                      /\ held'[d].def.version = agents'[held'[d].id].version =>
                            held'[d].def.value = agents'[held'[d].id].value
    BY DEF VersionNamesContent
  <2>1. CASE d = c
    BY <2>1, <1>0, <1>1, <1>6
  <2>2. CASE d # c
    <3>1. held'[d] = held[d]
      BY <2>2, <1>6
    <3>2. held[d].id \in DOMAIN agents
      BY <3>1 DEF IInv, TypeOK
    <3> QED  BY <3>1, <3>2, <1>1 DEF IInv, VersionNamesContent
  <2> QED  BY <2>1, <2>2
<1> QED  BY <1>7, <1>8, <1>9, <1>10 DEF IInv

-----------------------------------------------------------------------------
(* A step that leaves version, value and reference of every agent, and     *)
(* gives c what is stored under an id, or nothing.                         *)
LEMMA ReadKeeps ==
    ASSUME IInv, NEW c \in Clients, NEW id \in DOMAIN agents,
           agents' \in Seq(AgentDefinitions), Len(agents') = Len(agents),
           \A i \in DOMAIN agents : /\ agents'[i].version = agents[i].version
                                    /\ agents'[i].value = agents[i].value
                                    /\ agents'[i].env = agents[i].env,
           \/ Holds(c, id, agents'[id])
           \/ held' = [held EXCEPT ![c] = None]
           \/ held' = held,
           content' \in Seq(Nat), Len(content') = Len(content),
           UNCHANGED <<base, acked>>
    PROVE  IInv'
<1> USE DEF IInv
<1>1. DOMAIN agents' = DOMAIN agents /\ DOMAIN content' = DOMAIN content
  BY DEF TypeOK
<1>2. agents'[id] \in AgentDefinitions /\ id \in Nat \ {0}
  BY <1>1 DEF TypeOK
<1>3. [id |-> id, def |-> agents'[id]] \in Held
  BY <1>2 DEF Held
<1>4. /\ held' \in [Clients -> Held \cup {None}]
      /\ \A d \in Clients : \/ held'[d] = held[d]
                            \/ held'[d] = None
                            \/ held'[d] = [id |-> id, def |-> agents'[id]]
  BY <1>3 DEF Holds, TypeOK
<1>5. TypeOK'
  <2>1. \A i \in DOMAIN agents' : agents'[i].env \in DOMAIN content'
    BY <1>1 DEF TypeOK
  <2>2. \A d \in Clients : held'[d] # None => held'[d].id \in DOMAIN agents'
    BY <1>1, <1>4 DEF TypeOK
  <2> QED  BY <1>4, <2>1, <2>2 DEF TypeOK
<1>6. Histories'
  BY DEF Histories
<1>7. NoLostUpdate'
  BY <1>1 DEF NoLostUpdate
<1>8. VersionNamesContent'
  <2> SUFFICES ASSUME NEW d \in Clients, held'[d] # None
               PROVE  /\ held'[d].def.version <= agents'[held'[d].id].version
                      /\ held'[d].def.version = agents'[held'[d].id].version =>
                            held'[d].def.value = agents'[held'[d].id].value
    BY DEF VersionNamesContent
  <2>1. CASE held'[d] = held[d]
    <3>1. held[d].id \in DOMAIN agents
      BY <2>1 DEF TypeOK
    <3> QED  BY <2>1, <3>1 DEF VersionNamesContent
  <2>2. CASE held'[d] = [id |-> id, def |-> agents'[id]]
    BY <2>2, <1>2 DEF AgentDefinitions
  <2> QED  BY <2>1, <2>2, <1>4
<1> QED  BY <1>5, <1>6, <1>7, <1>8

-----------------------------------------------------------------------------
(* An Update that goes through: the client holds the stored version, so by *)
(* VersionNamesContent it holds the stored value, and one more than that   *)
(* is one acknowledged update more.  Whoever holds the old version holds a *)
(* smaller one from now on.                                                *)
LEMMA PatchKeeps ==
    ASSUME IInv, NEW c \in Clients, held[c] # None,
           agents[held[c].id].version = held[c].def.version,
           Patched(c), UNCHANGED <<content, base>>
    PROVE  IInv'
<1> DEFINE id  == held[c].id
           old == agents[id]
           def == [old EXCEPT !.value = held[c].def.value + 1, !.version = @ + 1]
<1>1. /\ id \in DOMAIN agents /\ held[c].def \in AgentDefinitions /\ old \in AgentDefinitions
      /\ id \in Nat \ {0}
  BY HeldId DEF IInv, Held
<1>2. /\ def \in AgentDefinitions
      /\ def.version = old.version + 1 /\ def.value = held[c].def.value + 1
      /\ def.env = old.env
      /\ old.version \in Nat /\ old.value \in Nat
  <2>1. /\ old.version \in Nat /\ old.value \in Nat /\ old.version + 1 \in Nat \ {0}
        /\ held[c].def.value + 1 \in Nat
    BY <1>1 DEF AgentDefinitions
  <2> DEFINE w == held[c].def.value + 1
             v == old.version + 1
  <2>2. def = [old EXCEPT !.value = w, !.version = v]
    OBVIOUS
  <2>3. old \in AgentDefinitions /\ w \in Nat /\ v \in Nat \ {0}
    BY <1>1, <2>1
  <2>4. w = held[c].def.value + 1 /\ v = old.version + 1
    OBVIOUS
  <2> HIDE DEF old, def, w, v
  <2> DEFINE half == [old EXCEPT !.value = w]
  <2>5. half \in AgentDefinitions
    BY <2>3 DEF AgentDefinitions
  <2>6. def = [half EXCEPT !.version = v]
    BY <2>2
  <2>7. def.version = v /\ def.value = w /\ def.env = old.env
    BY <2>2, <2>3 DEF AgentDefinitions
  <2> HIDE DEF half
  <2>8. def \in AgentDefinitions
    BY <2>3, <2>5, <2>6 DEF AgentDefinitions
  <2> QED  BY <2>1, <2>4, <2>7, <2>8
<1>3. old.value = held[c].def.value
  BY DEF IInv, VersionNamesContent
<1>4. /\ agents' \in Seq(AgentDefinitions)
      /\ DOMAIN agents' = DOMAIN agents /\ Len(agents') = Len(agents)
      /\ agents'[id] = def
      /\ \A i \in DOMAIN agents : i # id => agents'[i] = agents[i]
  <2>1. agents' = [agents EXCEPT ![id] = def]
    BY DEF Patched, Bumped
  <2>2. agents \in Seq(AgentDefinitions)
    BY DEF IInv, TypeOK
  <2> HIDE DEF def, id
  <2> QED  BY <1>1, <1>2, <2>1, <2>2
<1>5. /\ acked' \in Seq(Nat) /\ Len(acked') = Len(acked)
      /\ acked'[id] = acked[id] + 1
      /\ \A i \in DOMAIN agents : i # id => acked'[i] = acked[i]
      /\ acked[id] \in Nat /\ base[id] \in Nat
  <2>1. acked' = [acked EXCEPT ![id] = acked[id] + 1]
    BY DEF Patched, Bumped
  <2>2. /\ acked \in Seq(Nat) /\ base \in Seq(Nat) /\ agents \in Seq(AgentDefinitions)
        /\ Len(base) = Len(agents) /\ Len(acked) = Len(agents)
    BY DEF IInv, TypeOK, Histories
  <2> HIDE DEF id
  <2>3. id \in DOMAIN acked /\ id \in DOMAIN base /\ DOMAIN acked = DOMAIN agents
    BY <1>1, <2>2
  <2> QED  BY <2>1, <2>2, <2>3
<1>6. [id |-> id, def |-> def] \in Held
  BY <1>1, <1>2 DEF Held
<1>7. /\ held' \in [Clients -> Held \cup {None}]
      /\ \A d \in Clients :
            held'[d] = IF d = c THEN [id |-> id, def |-> def] ELSE held[d]
  <2>1. held' = [held EXCEPT ![c] = [id |-> id, def |-> def]]
    BY DEF Patched, Holds, Bumped
  <2> HIDE DEF def, id
  <2> QED  BY <1>6, <2>1 DEF IInv, TypeOK
<1> HIDE DEF def, id, old
<1>8. TypeOK'
  <2>1. \A i \in DOMAIN agents' : agents'[i].env \in DOMAIN content'
    BY <1>1, <1>2, <1>4 DEF IInv, TypeOK, old
  <2>2. ASSUME NEW d \in Clients, held'[d] # None
        PROVE  held'[d].id \in DOMAIN agents'
    <3>1. CASE d = c
      BY <3>1, <1>1, <1>4, <1>7
    <3>2. CASE d # c
      BY <2>2, <3>2, <1>4, <1>7 DEF IInv, TypeOK
    <3> QED  BY <3>1, <3>2
  <2> QED  BY <1>4, <1>5, <1>7, <2>1, <2>2 DEF IInv, TypeOK
<1>9. Histories'
  BY <1>4, <1>5 DEF IInv, Histories
<1>10. NoLostUpdate'
  <2> SUFFICES ASSUME NEW i \in DOMAIN agents
               PROVE  agents'[i].value = base[i] + acked'[i]
    BY <1>4 DEF NoLostUpdate
  <2>1. CASE i = id
    <3>1. old.value = base[id] + acked[id]
      BY <1>1 DEF IInv, NoLostUpdate, old
    <3>2. agents'[id].value = old.value + 1
      BY <1>2, <1>3, <1>4
    <3> QED  BY <2>1, <3>1, <3>2, <1>2, <1>5
  <2>2. CASE i # id
    BY <2>2, <1>4, <1>5 DEF IInv, NoLostUpdate
  <2> QED  BY <2>1, <2>2
<1>11. VersionNamesContent'
  <2> SUFFICES ASSUME NEW d \in Clients, held'[d] # None
               PROVE  /\ held'[d].def.version <= agents'[held'[d].id].version
                      /\ held'[d].def.version = agents'[held'[d].id].version =>
                            held'[d].def.value = agents'[held'[d].id].value
    BY DEF VersionNamesContent
  <2>1. CASE d = c
    <3>1. held'[d].id = id /\ held'[d].def = def
      BY <2>1, <1>7
    <3> QED  BY <3>1, <1>2, <1>4
  <2>2. CASE d # c
    <3>1. held'[d] = held[d]
      BY <2>2, <1>7
    <3>2. held[d].id \in DOMAIN agents /\ held[d].def \in AgentDefinitions
      BY <3>1, HeldId DEF IInv
    <3>3. held[d].def.version \in Nat
      BY <3>2 DEF AgentDefinitions
    <3>4. /\ held[d].def.version <= agents[held[d].id].version
          /\ held[d].def.version = agents[held[d].id].version =>
                held[d].def.value = agents[held[d].id].value
      BY <3>1 DEF IInv, VersionNamesContent
    <3>5. CASE held[d].id = id
      <4>1. held[d].def.version <= old.version
        BY <3>4, <3>5 DEF old
      <4>2. agents'[held[d].id].version = old.version + 1
        BY <3>5, <1>2, <1>4
      <4> QED  BY <3>1, <3>3, <4>1, <4>2, <1>2
    <3>6. CASE held[d].id # id
      BY <3>1, <3>2, <3>4, <3>6, <1>4
    <3> QED  BY <3>5, <3>6
  <2> QED  BY <2>1, <2>2
<1> QED  BY <1>8, <1>9, <1>10, <1>11 DEF IInv

-----------------------------------------------------------------------------
(* Every operation keeps the invariant.                                    *)
LEMMA StepKeeps ==
    ASSUME IInv, [Next]_vars
    PROVE  IInv'
<1>1. ASSUME NEW c \in Clients, Create(c)
      PROVE  IInv'
  <2> DEFINE def == [version |-> 1, archived |-> FALSE, value |-> 0,
                     env |-> Len(content) + 1]
  <2>1. /\ content \in Seq(Nat) /\ 0 \in Nat
        /\ content' = Append(content, 0)
        /\ agents' = Append(agents, def) /\ Holds(c, Len(agents) + 1, def)
        /\ base' = Append(base, 0) /\ acked' = Append(acked, 0)
    BY <1>1 DEF Create, IInv, TypeOK
  <2>2. /\ content' \in Seq(Nat) /\ DOMAIN content' = 1..(Len(content) + 1)
        /\ DOMAIN content = 1..Len(content) /\ Len(content) \in Nat
    BY <2>1, AppendFacts
  <2>3. /\ def \in AgentDefinitions /\ def.value = 0
        /\ def.env \in DOMAIN content' /\ DOMAIN content \subseteq DOMAIN content'
    BY <2>2 DEF AgentDefinitions
  <2> HIDE DEF def
  <2> QED  BY <2>1, <2>2, <2>3, AppendKeeps
<1>2. ASSUME NEW c \in Clients, NEW id \in DOMAIN agents, Clone(c, id)
      PROVE  IInv'
  <2> DEFINE def == [agents[id] EXCEPT !.version = 1, !.archived = FALSE]
  <2>1. agents[id] \in AgentDefinitions /\ agents[id].env \in DOMAIN content
        /\ content \in Seq(Nat)
    BY DEF IInv, TypeOK
  <2>2. def \in AgentDefinitions /\ def.env = agents[id].env
    BY <2>1, ClonedDefinition
  <2>3. /\ content' = content
        /\ agents' = Append(agents, def) /\ Holds(c, Len(agents) + 1, def)
        /\ base' = Append(base, def.value) /\ acked' = Append(acked, 0)
    BY <1>2 DEF Clone
  <2> HIDE DEF def
  <2> QED  BY <2>1, <2>2, <2>3, AppendKeeps
<1>3. ASSUME NEW c \in Clients, NEW id \in DOMAIN agents, Get(c, id)
      PROVE  IInv'
  <2>1. agents' = agents /\ content' = content /\ UNCHANGED <<base, acked>>
        /\ Holds(c, id, agents'[id])
    BY <1>3 DEF Get
  <2>2. agents \in Seq(AgentDefinitions) /\ content \in Seq(Nat)
    BY DEF IInv, TypeOK
  <2> QED  BY <2>1, <2>2, ReadKeeps
<1>4. ASSUME NEW c \in Clients, NEW id \in DOMAIN agents, Archive(c, id)
      PROVE  IInv'
  <2>1. agents \in Seq(AgentDefinitions) /\ content \in Seq(Nat) /\ agents[id] \in AgentDefinitions
    BY DEF IInv, TypeOK
  <2>2. agents' = [agents EXCEPT ![id] = [agents[id] EXCEPT !.archived = TRUE]]
    BY <1>4 DEF Archive
  <2>3. [agents[id] EXCEPT !.archived = TRUE] \in AgentDefinitions
    BY <2>1 DEF AgentDefinitions
  <2>4. agents' \in Seq(AgentDefinitions) /\ Len(agents') = Len(agents)
    BY <2>1, <2>2, <2>3
  <2>5. \A i \in DOMAIN agents : /\ agents'[i].version = agents[i].version
                                 /\ agents'[i].value = agents[i].value
                                 /\ agents'[i].env = agents[i].env
    BY <2>1, <2>2 DEF AgentDefinitions
  <2>6. content' = content /\ UNCHANGED <<base, acked>> /\ Holds(c, id, agents'[id])
    BY <1>4 DEF Archive
  <2> QED  BY <2>1, <2>4, <2>5, <2>6, ReadKeeps
<1>5. ASSUME NEW c \in Clients, Update(c)
      PROVE  IInv'
  <2>1. held[c] # None /\ UNCHANGED <<content, base>>
    BY <1>5 DEF Update, NotArchived, SameVersion
  <2>2. CASE \/ agents[held[c].id].archived
             \/ agents[held[c].id].version # held[c].def.version
    <3>1. held' = [held EXCEPT ![c] = None] /\ UNCHANGED <<agents, acked>>
      BY <1>5, <2>2 DEF Update, NotArchived, SameVersion
    <3>2. /\ held[c].id \in DOMAIN agents
          /\ agents \in Seq(AgentDefinitions) /\ content \in Seq(Nat)
      BY <2>1, HeldId DEF IInv, TypeOK
    <3> QED  BY <2>1, <3>1, <3>2, ReadKeeps
  <2>3. CASE ~ \/ agents[held[c].id].archived
               \/ agents[held[c].id].version # held[c].def.version
    <3>1. Patched(c) /\ agents[held[c].id].version = held[c].def.version
      BY <1>5, <2>3 DEF Update, NotArchived, SameVersion
    <3> QED  BY <2>1, <3>1, PatchKeeps
  <2> QED  BY <2>2, <2>3
<1>6. ASSUME NEW c \in Clients, WriteThrough(c)
      PROVE  IInv'
  <2> DEFINE env == held[c].def.env
  <2>1. held[c] # None /\ content' = [content EXCEPT ![env] = content[env] + 1]
        /\ UNCHANGED <<agents, held, base, acked>>
    BY <1>6 DEF WriteThrough
  <2>2. /\ held[c].id \in DOMAIN agents
        /\ agents \in Seq(AgentDefinitions) /\ content \in Seq(Nat)
    BY <2>1, HeldId DEF IInv, TypeOK
  <2> HIDE DEF env
  <2>3. content' \in Seq(Nat) /\ Len(content') = Len(content)
    <3>1. CASE env \in DOMAIN content
      BY <2>1, <2>2, <3>1
    <3>2. CASE env \notin DOMAIN content
      <4>1. content' = content
        BY <2>1, <2>2, <3>2
      <4> QED  BY <2>2, <4>1
    <3> QED  BY <3>1, <3>2
  <2> QED  BY <2>1, <2>2, <2>3, ReadKeeps
<1>7. CASE UNCHANGED vars
  BY <1>7 DEF vars, IInv, TypeOK, Histories, NoLostUpdate, VersionNamesContent
<1> QED  BY <1>1, <1>2, <1>3, <1>4, <1>5, <1>6, <1>7 DEF Next

-----------------------------------------------------------------------------
(* The strengthened invariant holds of every reachable state.              *)
THEOREM InductiveInvariant == Spec => []IInv
<1>1. Init => IInv
  BY DEF Init, IInv, TypeOK, Histories, NoLostUpdate, VersionNamesContent
<1>2. IInv /\ [Next]_vars => IInv'
  BY StepKeeps
<1> QED  BY <1>1, <1>2, PTL DEF Spec

(* Every state of the store has its type (agent.go).                       *)
THEOREM TypeCorrect == Spec => []TypeOK
<1>1. IInv => TypeOK
  BY DEF IInv
<1> QED  BY <1>1, InductiveInvariant, PTL

(* No acknowledged Update is overwritten by one that did not see it.       *)
THEOREM UpdatesAreKept == Spec => []NoLostUpdate
<1>1. IInv => NoLostUpdate
  BY DEF IInv
<1> QED  BY <1>1, InductiveInvariant, PTL

(* Equal versions mean equal fields, in whatever client's hands.           *)
THEOREM VersionsNameContents == Spec => []VersionNamesContent
<1>1. IInv => VersionNamesContent
  BY DEF IInv
<1> QED  BY <1>1, InductiveInvariant, PTL

(* What Archive froze, no operation changes.                               *)
THEOREM ArchiveIsFinal == Spec => ArchivedIsFrozen
<1> DEFINE Frozen == \A id \in DOMAIN agents :
                        agents[id].archived => agents'[id] = agents[id]
<1>1. IInv /\ [Next]_vars => [Frozen]_vars
  <2> SUFFICES ASSUME IInv, Next, NEW id \in DOMAIN agents, agents[id].archived
               PROVE  agents'[id] = agents[id]
    OBVIOUS
  <2>0. agents \in Seq(AgentDefinitions)
    BY DEF IInv, TypeOK
  <2>1. ASSUME NEW e \in AgentDefinitions, agents' = Append(agents, e)
        PROVE  agents'[id] = agents[id]
    BY <2>0, <2>1, AppendFacts
  <2>2. ASSUME NEW i \in DOMAIN agents, NEW e, ~agents[i].archived,
               agents' = [agents EXCEPT ![i] = e]
        PROVE  agents'[id] = agents[id]
    BY <2>0, <2>2
  <2>3. ASSUME NEW c \in Clients, Create(c)
        PROVE  agents'[id] = agents[id]
    <3> DEFINE def == [version |-> 1, archived |-> FALSE, value |-> 0,
                       env |-> Len(content) + 1]
    <3>1. def \in AgentDefinitions
      <4>1. Len(content) + 1 \in Nat \ {0}
        BY DEF IInv, TypeOK
      <4> QED  BY <4>1 DEF AgentDefinitions
    <3>2. agents' = Append(agents, def)
      BY <2>3 DEF Create
    <3> HIDE DEF def
    <3> QED  BY <3>1, <3>2, <2>1
  <2>4. ASSUME NEW c \in Clients, NEW i \in DOMAIN agents, Clone(c, i)
        PROVE  agents'[id] = agents[id]
    <3> DEFINE def == [agents[i] EXCEPT !.version = 1, !.archived = FALSE]
    <3>1. agents[i] \in AgentDefinitions
      BY <2>0
    <3>2. def \in AgentDefinitions
      BY <3>1, ClonedDefinition
    <3>3. agents' = Append(agents, def)
      BY <2>4 DEF Clone
    <3> HIDE DEF def
    <3> QED  BY <3>2, <3>3, <2>1
  <2>5. ASSUME NEW c \in Clients, NEW i \in DOMAIN agents, Archive(c, i)
        PROVE  agents'[id] = agents[id]
    BY <2>5, <2>2 DEF Archive
  <2>6. ASSUME NEW c \in Clients, Update(c)
        PROVE  agents'[id] = agents[id]
    <3>1. held[c].id \in DOMAIN agents
      BY <2>6, HeldId DEF IInv, Update, NotArchived, SameVersion
    <3>2. CASE agents' = agents
      BY <3>2
    <3>3. CASE ~agents[held[c].id].archived /\ Patched(c)
      BY <3>1, <3>3, <2>2 DEF Patched, Bumped
    <3> QED  BY <2>6, <3>2, <3>3 DEF Update, NotArchived, SameVersion
  <2>7. ASSUME NEW c \in Clients, WriteThrough(c) \/ \E i \in DOMAIN agents : Get(c, i)
        PROVE  agents'[id] = agents[id]
    BY <2>7 DEF WriteThrough, Get
  <2> QED  BY <2>3, <2>4, <2>5, <2>6, <2>7 DEF Next
<1> QED  BY <1>1, InductiveInvariant, PTL DEF Spec, ArchivedIsFrozen

-----------------------------------------------------------------------------
(* ToolsRegistry.  What a loop reads about a name is what the tool that a  *)
(* call of the name ends up in declares of it: Register takes the first    *)
(* definition of a name, and a composite calls the first of its parts that *)
(* has one.                                                                *)

EffectOf(defs, n) == defs[Min(Named(defs, n))].effect

(* DispatchMatchesEffects of a registry r.                                 *)
Matches(r) ==
    /\ r = [tools |-> r.tools, categories |-> r.categories, effects |-> r.effects]
    /\ DOMAIN r.tools = DOMAIN r.categories /\ DOMAIN r.tools = DOMAIN r.effects
    /\ \A n \in DOMAIN r.tools :
          /\ Named(declared[Dispatch(r.tools[n], n)], n) # {}
          /\ r.effects[n] = EffectOf(declared[Dispatch(r.tools[n], n)], n)

(* Nothing that s takes from r is changed.                                 *)
Keeps(r, s) ==
    \A n \in DOMAIN r.tools \cap DOMAIN s.tools :
        /\ s.tools[n] = r.tools[n]
        /\ s.categories[n] = r.categories[n]
        /\ s.effects[n] = r.effects[n]

DeclaredOK == declared \in [BaseTools -> Seq(Definition)]

ToolsInv == DeclaredOK /\ Matches(registry)

LEMMA MinIs ==
    ASSUME NEW S, S \subseteq Nat, NEW x \in S, \A y \in S : x <= y
    PROVE  Min(S) = x
<1>1. \A z \in S : (\A y \in S : z <= y) => z = x
  OBVIOUS
<1> QED  BY <1>1 DEF Min

LEMMA MinOfOne ==
    ASSUME NEW k \in Nat
    PROVE  Min({k}) = k
<1> DEFINE S == {k}
<1>1. S \subseteq Nat /\ k \in S /\ \A y \in S : k <= y
  OBVIOUS
<1> HIDE DEF S
<1>2. Min(S) = k
  BY <1>1, MinIs
<1> QED  BY <1>2 DEF S

LEMMA MinFacts ==
    ASSUME NEW S, S \subseteq Nat, S # {}
    PROVE  Min(S) \in S /\ \A y \in S : Min(S) <= y
<1>1. PICK x \in S : \A y \in S : x <= y
  BY SmallestNumber
<1> QED  BY <1>1, MinIs

(* The first definition of a name in one list after another.               *)
LEMMA NamedInConcat ==
    ASSUME NEW a \in Seq(Definition), NEW b \in Seq(Definition), NEW n
    PROVE  /\ a \o b \in Seq(Definition)
           /\ Named(a, n) = {} /\ Named(b, n) = {} => Named(a \o b, n) = {}
           /\ Named(a, n) # {} =>
                 Named(a \o b, n) # {} /\ EffectOf(a \o b, n) = EffectOf(a, n)
           /\ Named(a, n) = {} /\ Named(b, n) # {} =>
                 Named(a \o b, n) # {} /\ EffectOf(a \o b, n) = EffectOf(b, n)
<1> DEFINE ab == a \o b
<1>1. /\ DOMAIN a = 1..Len(a) /\ DOMAIN b = 1..Len(b) /\ DOMAIN ab = 1..(Len(a) + Len(b))
      /\ Len(a) \in Nat /\ Len(b) \in Nat
      /\ \A i \in 1..Len(a) : ab[i] = a[i]
      /\ \A i \in 1..Len(b) : ab[Len(a) + i] = b[i]
  OBVIOUS
<1>2. \A i \in DOMAIN ab : i \in 1..Len(a) \/ (i - Len(a) \in 1..Len(b) /\ i = Len(a) + (i - Len(a)))
  BY <1>1
<1>3. ab \in Seq(Definition)
  OBVIOUS
<1> HIDE DEF ab
<1>4. /\ Named(a, n) \subseteq Nat /\ Named(b, n) \subseteq Nat /\ Named(ab, n) \subseteq Nat
  BY <1>1 DEF Named
<1>5. ASSUME Named(a, n) = {}, Named(b, n) = {}
      PROVE  Named(ab, n) = {}
  BY <1>1, <1>2, <1>5 DEF Named
<1>6. ASSUME Named(a, n) # {}
      PROVE  Named(ab, n) # {} /\ EffectOf(ab, n) = EffectOf(a, n)
  <2> DEFINE m == Min(Named(a, n))
  <2>1. m \in Named(a, n) /\ \A y \in Named(a, n) : m <= y
    BY <1>4, <1>6, MinFacts
  <2> HIDE DEF m
  <2>2. m \in Named(ab, n) /\ ab[m] = a[m] /\ m \in 1..Len(a)
    BY <1>1, <2>1 DEF Named
  <2>3. \A y \in Named(ab, n) : m <= y
    BY <1>1, <1>2, <2>1, <2>2 DEF Named
  <2>4. Min(Named(ab, n)) = m
    BY <1>4, <2>2, <2>3, MinIs
  <2> QED  BY <2>2, <2>4 DEF EffectOf, m
<1>7. ASSUME Named(a, n) = {}, Named(b, n) # {}
      PROVE  Named(ab, n) # {} /\ EffectOf(ab, n) = EffectOf(b, n)
  <2> DEFINE m == Min(Named(b, n))
  <2>1. m \in Named(b, n) /\ \A y \in Named(b, n) : m <= y
    BY <1>4, <1>7, MinFacts
  <2> HIDE DEF m
  <2>2. m \in 1..Len(b) /\ ab[Len(a) + m] = b[m] /\ Len(a) + m \in Named(ab, n)
    BY <1>1, <2>1 DEF Named
  <2>3. \A y \in Named(ab, n) : Len(a) + m <= y
    <3> TAKE y \in Named(ab, n)
    <3>1. y \in DOMAIN ab /\ ab[y].name = n
      BY DEF Named
    <3>2. y \notin 1..Len(a)
      BY <1>1, <1>7, <3>1 DEF Named
    <3>3. y - Len(a) \in 1..Len(b) /\ y = Len(a) + (y - Len(a))
      BY <1>2, <3>1, <3>2
    <3>4. y - Len(a) \in Named(b, n)
      <4>1. ab[Len(a) + (y - Len(a))] = b[y - Len(a)]
        BY <1>1, <3>3
      <4>2. b[y - Len(a)].name = n
        BY <3>1, <3>3, <4>1
      <4> QED  BY <1>1, <3>3, <4>2 DEF Named
    <3>5. m <= y - Len(a)
      BY <2>1, <3>4
    <3> QED  BY <1>1, <2>2, <3>3, <3>5
  <2>4. Min(Named(ab, n)) = Len(a) + m
    BY <1>4, <2>2, <2>3, MinIs
  <2> QED  BY <2>2, <2>4 DEF EffectOf, m
<1> QED  BY <1>3, <1>5, <1>6, <1>7 DEF ab

(* FlattenSeq puts together one more part at a time.                       *)
Flattens(f, parts, N) ==
    f = [i \in 1..N |-> IF i = 1 THEN parts[i] ELSE f[i - 1] \o parts[i]]

LEMMA FlatExists ==
    ASSUME NEW parts, NEW N \in Nat
    PROVE  \E f : Flattens(f, parts, N)
<1> DEFINE Bad == {n \in Nat : ~\E f : Flattens(f, parts, n)}
<1>1. Bad = {}
  <2> SUFFICES ASSUME Bad # {}
               PROVE  FALSE
    OBVIOUS
  <2>1. PICK n \in Bad : \A m \in Bad : n <= m
    <3>1. Bad \subseteq Nat
      OBVIOUS
    <3> HIDE DEF Bad
    <3> QED  BY <3>1, SmallestNumber
  <2>2. n # 0
    <3>1. Flattens([i \in 1..0 |-> parts[i]], parts, 0)
      BY DEF Flattens
    <3> QED  BY <3>1
  <2>3. PICK m \in Nat : n = m + 1
    <3>1. n - 1 \in Nat /\ n = (n - 1) + 1
      BY <2>2
    <3> QED  BY <3>1
  <2>4. PICK f : Flattens(f, parts, m)
    <3>1. m \notin Bad
      BY <2>1, <2>3
    <3> QED  BY <3>1
  <2> DEFINE g == [i \in 1..n |-> IF i = 1 THEN parts[i] ELSE f[i - 1] \o parts[i]]
  <2>5. \A i \in 1..m : g[i] = f[i]
    <3>1. \A i \in 1..m : f[i] = IF i = 1 THEN parts[i] ELSE f[i - 1] \o parts[i]
      BY <2>4 DEF Flattens
    <3>2. \A i \in 1..m : i \in 1..n
      BY <2>3
    <3> QED  BY <3>1, <3>2
  <2>6. \A i \in 1..n : i # 1 => i - 1 \in 1..m
    BY <2>3
  <2>7. Flattens(g, parts, n)
    BY <2>5, <2>6 DEF Flattens
  <2> QED  BY <2>7
<1> QED  BY <1>1

LEMMA FlatIs ==
    ASSUME NEW parts, Len(parts) \in Nat, Len(parts) # 0
    PROVE  \E f : Flattens(f, parts, Len(parts)) /\ FlattenSeq(parts) = f[Len(parts)]
<1> DEFINE Is(f) == f = [i \in 1..Len(parts) |-> IF i = 1 THEN parts[i] ELSE f[i - 1] \o parts[i]]
           flat == CHOOSE f : Is(f)
<1>1. \E f : Is(f)
  BY FlatExists DEF Flattens
<1>2. Is(flat)
  BY <1>1
<1>3. FlattenSeq(parts) = flat[Len(parts)]
  BY DEF FlattenSeq
<1> QED  BY <1>2, <1>3 DEF Flattens

(* The parts up to k that define n.                                        *)
Owning(parts, n, k) == {i \in 1..k : Named(parts[i], n) # {}}

(* Of several parts the first that has a name decides about it.            *)
LEMMA FirstPartDecides ==
    ASSUME NEW parts, NEW N \in Nat, \A i \in 1..N : parts[i] \in Seq(Definition),
           NEW f, Flattens(f, parts, N), NEW n
    PROVE  \A k \in 1..N :
              /\ f[k] \in Seq(Definition)
              /\ Owning(parts, n, k) = {} => Named(f[k], n) = {}
              /\ Owning(parts, n, k) # {} =>
                    /\ Named(f[k], n) # {}
                    /\ EffectOf(f[k], n) = EffectOf(parts[Min(Owning(parts, n, k))], n)
<1> DEFINE owns(k) == {i \in 1..k : Named(parts[i], n) # {}}
           P(k) == /\ f[k] \in Seq(Definition)
                   /\ owns(k) = {} => Named(f[k], n) = {}
                   /\ owns(k) # {} =>
                         /\ Named(f[k], n) # {}
                         /\ EffectOf(f[k], n) = EffectOf(parts[Min(owns(k))], n)
           Bad == {k \in 1..N : ~P(k)}
<1>1. \A k \in 1..N : f[k] = IF k = 1 THEN parts[k] ELSE f[k - 1] \o parts[k]
  BY DEF Flattens
<1>2. Bad = {}
  <2> SUFFICES ASSUME Bad # {}
               PROVE  FALSE
    OBVIOUS
  <2>1. PICK k \in Bad : \A m \in Bad : k <= m
    <3>1. Bad \subseteq Nat
      OBVIOUS
    <3> HIDE DEF Bad
    <3> QED  BY <3>1, SmallestNumber
  <2>2. k \in 1..N /\ ~P(k)
    OBVIOUS
  <2>5. Min({k}) = k
    <3>1. k \in Nat
      BY <2>2
    <3> HIDE DEF Bad
    <3> QED  BY <3>1, MinOfOne
  <2>3. CASE k = 1
    <3>1. f[k] = parts[k] /\ parts[k] \in Seq(Definition)
      BY <1>1, <2>2, <2>3
    <3>2. owns(k) = IF Named(parts[k], n) # {} THEN {k} ELSE {}
      BY <2>3
    <3>3. owns(k) # {} => Min(owns(k)) = k
      BY <3>2, <2>5
    <3> HIDE DEF owns
    <3>4. P(k)
      BY <3>1, <3>2, <3>3
    <3> QED  BY <3>4, <2>2
  <2>4. CASE k # 1
    <3>1. k - 1 \in 1..N /\ k - 1 \in Nat /\ ~(k <= k - 1)
      BY <2>2, <2>4
    <3>2. P(k - 1)
      <4>1. k - 1 \notin Bad
        BY <2>1, <3>1
      <4> HIDE DEF P
      <4> QED  BY <3>1, <4>1
    <3>3. f[k] = f[k - 1] \o parts[k] /\ parts[k] \in Seq(Definition)
      BY <1>1, <2>2, <2>4
    <3>4. /\ owns(k) = owns(k - 1) \cup IF Named(parts[k], n) # {} THEN {k} ELSE {}
          /\ \A i \in owns(k - 1) : i <= k /\ i \in Nat
      <4>1. 1..k = (1..(k - 1)) \cup {k}
        BY <2>2
      <4>2. \A i \in 1..(k - 1) : i <= k /\ i \in Nat
        BY <2>2
      <4> QED  BY <4>1, <4>2
    <3> DEFINE before == owns(k - 1)
    <3>5. f[k - 1] \in Seq(Definition)
      BY <3>2
    <3>6. /\ f[k] \in Seq(Definition)
          /\ Named(f[k - 1], n) = {} /\ Named(parts[k], n) = {} => Named(f[k], n) = {}
          /\ Named(f[k - 1], n) # {} =>
                Named(f[k], n) # {} /\ EffectOf(f[k], n) = EffectOf(f[k - 1], n)
          /\ Named(f[k - 1], n) = {} /\ Named(parts[k], n) # {} =>
                Named(f[k], n) # {} /\ EffectOf(f[k], n) = EffectOf(parts[k], n)
      <4>1. PICK a \in Seq(Definition), b \in Seq(Definition) : a = f[k - 1] /\ b = parts[k]
        BY <3>3, <3>5
      <4>2. /\ a \o b \in Seq(Definition)
            /\ Named(a, n) = {} /\ Named(b, n) = {} => Named(a \o b, n) = {}
            /\ Named(a, n) # {} =>
                  Named(a \o b, n) # {} /\ EffectOf(a \o b, n) = EffectOf(a, n)
            /\ Named(a, n) = {} /\ Named(b, n) # {} =>
                  Named(a \o b, n) # {} /\ EffectOf(a \o b, n) = EffectOf(b, n)
        BY NamedInConcat
      <4>3. a \o b = f[k]
        BY <3>3, <4>1
      <4> QED  BY <4>1, <4>2, <4>3
    <3>7. before # {} => Min(owns(k)) = Min(before)
      <4> SUFFICES ASSUME before # {}
                   PROVE  Min(owns(k)) = Min(before)
        OBVIOUS
      <4>1. before \subseteq Nat /\ owns(k) \subseteq Nat
        BY <3>4, <2>2
      <4> HIDE DEF owns, before
      <4>2. Min(before) \in before /\ \A y \in before : Min(before) <= y
        BY <4>1, MinFacts
      <4>3. Min(before) \in owns(k) /\ \A y \in owns(k) : Min(before) <= y
        BY <3>4, <4>2 DEF before
      <4> QED  BY <4>1, <4>3, MinIs
    <3>8. before = {} /\ Named(parts[k], n) # {} => Min(owns(k)) = k
      <4>1. before = {} /\ Named(parts[k], n) # {} => owns(k) = {k}
        BY <3>4
      <4> HIDE DEF owns, before
      <4> QED  BY <4>1, <2>5
    <3>9. /\ before = {} => Named(f[k - 1], n) = {}
          /\ before # {} => Named(f[k - 1], n) # {}
                         /\ EffectOf(f[k - 1], n) = EffectOf(parts[Min(before)], n)
      BY <3>2
    <3>10. owns(k) = before \cup IF Named(parts[k], n) # {} THEN {k} ELSE {}
      BY <3>4
    <3> HIDE DEF owns, before
    <3>11. P(k)
      BY <3>6, <3>7, <3>8, <3>9, <3>10
    <3> QED  BY <3>11, <2>2
  <2> QED  BY <2>3, <2>4
<1>3. \A k \in 1..N : P(k)
  BY <1>2
<1> QED  BY <1>3 DEF Owning

LEMMA FlattenFacts ==
    ASSUME NEW parts \in Seq(Seq(Definition)), NEW n
    PROVE  LET defs == FlattenSeq(parts)
               owns == {i \in DOMAIN parts : Named(parts[i], n) # {}}
           IN  /\ defs \in Seq(Definition)
               /\ owns = {} => Named(defs, n) = {}
               /\ owns # {} =>
                     /\ Named(defs, n) # {}
                     /\ EffectOf(defs, n) = EffectOf(parts[Min(owns)], n)
<1>1. CASE Len(parts) = 0
  <2>1. FlattenSeq(parts) = parts /\ parts = <<>> /\ DOMAIN parts = {}
    BY <1>1 DEF FlattenSeq
  <2>2. parts \in Seq(Definition) /\ Named(parts, n) = {}
    BY <2>1 DEF Named
  <2> QED  BY <2>1, <2>2
<1>2. CASE Len(parts) # 0
  <2>1. /\ Len(parts) \in Nat /\ DOMAIN parts = 1..Len(parts)
        /\ Len(parts) \in 1..Len(parts)
        /\ \A i \in 1..Len(parts) : parts[i] \in Seq(Definition)
    BY <1>2
  <2>2. PICK f : Flattens(f, parts, Len(parts)) /\ FlattenSeq(parts) = f[Len(parts)]
    BY <1>2, <2>1, FlatIs
  <2>3. Owning(parts, n, Len(parts)) = {i \in DOMAIN parts : Named(parts[i], n) # {}}
    BY <2>1 DEF Owning
  <2> DEFINE N == Len(parts)
  <2>4. N \in Nat /\ N \in 1..N /\ Flattens(f, parts, N)
        /\ \A i \in 1..N : parts[i] \in Seq(Definition)
    BY <2>1, <2>2
  <2> HIDE DEF N
  <2>5. /\ f[N] \in Seq(Definition)
        /\ Owning(parts, n, N) = {} => Named(f[N], n) = {}
        /\ Owning(parts, n, N) # {} =>
              /\ Named(f[N], n) # {}
              /\ EffectOf(f[N], n) = EffectOf(parts[Min(Owning(parts, n, N))], n)
    BY <2>4, FirstPartDecides
  <2> QED  BY <2>2, <2>3, <2>5 DEF N
<1> QED  BY <1>1, <1>2

LEMMA DefinitionsFacts ==
    ASSUME DeclaredOK, NEW t \in Tools, NEW n
    PROVE  /\ Definitions(t) \in Seq(Definition)
           /\ Named(Definitions(t), n) # {} =>
                 /\ Named(declared[Dispatch(t, n)], n) # {}
                 /\ EffectOf(declared[Dispatch(t, n)], n) = EffectOf(Definitions(t), n)
<1>1. CASE t \in Composites
  <2> DEFINE parts == [i \in DOMAIN PartsOf[t] |-> declared[PartsOf[t][i]]]
             owns == {i \in DOMAIN parts : Named(parts[i], n) # {}}
  <2>1. PartsOf[t] \in Seq(BaseTools)
    BY <1>1, ToolBounds
  <2>2. parts \in Seq(Seq(Definition)) /\ DOMAIN parts = DOMAIN PartsOf[t]
    <3>1. \A i \in 1..Len(PartsOf[t]) : declared[PartsOf[t][i]] \in Seq(Definition)
      BY <2>1 DEF DeclaredOK
    <3>2. DOMAIN PartsOf[t] = 1..Len(PartsOf[t]) /\ Len(PartsOf[t]) \in Nat
      BY <2>1
    <3> QED  BY <3>1, <3>2
  <2>3. Definitions(t) = FlattenSeq(parts)
    BY <1>1 DEF Definitions
  <2>4. \A i \in DOMAIN parts : parts[i] = declared[PartsOf[t][i]]
    OBVIOUS
  <2>5. owns = {i \in DOMAIN PartsOf[t] : Named(declared[PartsOf[t][i]], n) # {}}
    OBVIOUS
  <2>6. Dispatch(t, n) = PartsOf[t][Min(owns)]
    BY <1>1, <2>5 DEF Dispatch, FirstOwner
  <2>7. owns # {} => Min(owns) \in owns /\ Named(parts[Min(owns)], n) # {}
    <3>1. owns \subseteq Nat
      BY <2>2
    <3>2. owns # {} => Min(owns) \in owns
      <4> HIDE DEF owns
      <4> QED  BY <3>1, MinFacts
    <3> QED  BY <3>2
  <2> DEFINE defs == Definitions(t)
  <2>8. /\ defs \in Seq(Definition)
        /\ owns = {} => Named(defs, n) = {}
        /\ owns # {} => /\ Named(defs, n) # {}
                        /\ EffectOf(defs, n) = EffectOf(parts[Min(owns)], n)
    <3> HIDE DEF parts
    <3> QED  BY <2>2, <2>3, FlattenFacts
  <2>9. owns # {} => parts[Min(owns)] = declared[Dispatch(t, n)]
    BY <2>4, <2>6, <2>7
  <2> HIDE DEF owns, parts
  <2> QED  BY <2>7, <2>8, <2>9
<1>2. CASE t \notin Composites
  <2>1. Definitions(t) = declared[t] /\ Dispatch(t, n) = t /\ t \in BaseTools
    BY <1>2 DEF Definitions, Dispatch, Tools
  <2> QED  BY <2>1 DEF DeclaredOK
<1> QED  BY <1>1, <1>2

-----------------------------------------------------------------------------
(* One Register, whether it goes through or stops half way.                *)

LEMMA RegisteredKeeps ==
    ASSUME DeclaredOK, NEW r, Matches(r), NEW category, NEW t \in Tools
    PROVE  LET s == Registered(r, category, t)
           IN  Matches(s) /\ Keeps(r, s) /\ DOMAIN r.tools \subseteq DOMAIN s.tools
<1> DEFINE defs == Definitions(t)
           added == IF Classified(t) THEN Added(r, defs) ELSE {}
           names == {defs[i].name : i \in added}
           s == Registered(r, category, t)
<1>1. /\ s = [tools |-> s.tools, categories |-> s.categories, effects |-> s.effects]
      /\ s.tools = With(r.tools, [n \in names |-> t])
      /\ s.categories = With(r.categories, [n \in names |-> category])
      /\ s.effects = With(r.effects, [n \in names |-> EffectOf(defs, n)])
  BY DEF Registered, EffectOf
<1>2. \A n \in names : n \notin DOMAIN r.tools /\ Named(defs, n) # {}
  <2> TAKE n \in names
  <2>1. PICK i \in Added(r, defs) : defs[i].name = n
    OBVIOUS
  <2>2. defs \in Seq(Definition)
    BY DefinitionsFacts
  <2> HIDE DEF defs
  <2>3. i \in DOMAIN defs /\ i \in 1..i
    BY <2>1, <2>2 DEF Added
  <2>4. ~Collides(r, defs, i)
    BY <2>1, <2>3 DEF Added
  <2> QED  BY <2>1, <2>3, <2>4 DEF Collides, Named
<1> HIDE DEF s, names, added
<1>3. /\ DOMAIN s.tools = DOMAIN r.tools \cup names
      /\ DOMAIN s.categories = DOMAIN r.tools \cup names
      /\ DOMAIN s.effects = DOMAIN r.tools \cup names
  BY <1>1 DEF With, Matches
<1>4. \A n \in names : s.tools[n] = t /\ s.effects[n] = EffectOf(defs, n)
  BY <1>1 DEF With
<1>5. \A n \in DOMAIN r.tools : s.tools[n] = r.tools[n] /\ s.categories[n] = r.categories[n]
                             /\ s.effects[n] = r.effects[n]
  BY <1>1, <1>2 DEF With, Matches
<1>6. ASSUME NEW n \in DOMAIN s.tools
      PROVE  /\ Named(declared[Dispatch(s.tools[n], n)], n) # {}
             /\ s.effects[n] = EffectOf(declared[Dispatch(s.tools[n], n)], n)
  <2>1. CASE n \in DOMAIN r.tools
    BY <2>1, <1>5 DEF Matches
  <2>2. CASE n \in names
    BY <2>2, <1>2, <1>4, DefinitionsFacts
  <2> QED  BY <1>3, <2>1, <2>2
<1>7. Matches(s)
  BY <1>1, <1>3, <1>6 DEF Matches
<1>8. Keeps(r, s)
  BY <1>5 DEF Keeps
<1> QED  BY <1>3, <1>7, <1>8 DEF s

LEMMA RegisterStep ==
    ASSUME ToolsInv, NEW category \in Categories, NEW t \in Tools, Register(category, t)
    PROVE  ToolsInv' /\ Keeps(registry, registry')
<1>1. /\ registry' = Registered(registry, category, t)
      /\ UNCHANGED declared
  BY DEF Register
<1>2. Matches(Registered(registry, category, t)) /\ Keeps(registry, Registered(registry, category, t))
  BY RegisteredKeeps DEF ToolsInv
<1>3. Matches(registry')
  BY <1>1, <1>2
<1>4. Matches(registry)'
  BY <1>1, <1>3 DEF Matches, Dispatch
<1> QED  BY <1>1, <1>2, <1>4 DEF ToolsInv, DeclaredOK

(* core.Register is one Register after another: none of them changes what  *)
(* an earlier one, or an earlier call, has registered.                     *)
CoreStep(acc, p, cfg) ==
    IF acc.failed \/ (p[3] /\ p \notin cfg) THEN acc
    ELSE [registry |-> Registered(acc.registry, p[1], p[2]),
          failed   |-> RegisterFails(acc.registry, p[2])]

CoreRun(f, N, cfg) ==
    f = [i \in 0..N |-> IF i = 0 THEN [registry |-> registry, failed |-> FALSE]
                        ELSE CoreStep(f[i - 1], CorePlan[i], cfg)]

LEMMA CoreRunExists ==
    ASSUME NEW cfg, NEW N \in Nat
    PROVE  \E f : CoreRun(f, N, cfg)
<1> DEFINE Bad == {n \in Nat : ~\E f : CoreRun(f, n, cfg)}
           start == [registry |-> registry, failed |-> FALSE]
<1>1. Bad = {}
  <2> SUFFICES ASSUME Bad # {}
               PROVE  FALSE
    OBVIOUS
  <2>1. PICK n \in Bad : \A m \in Bad : n <= m
    <3>1. Bad \subseteq Nat
      OBVIOUS
    <3> HIDE DEF Bad
    <3> QED  BY <3>1, SmallestNumber
  <2>2. n # 0
    <3>1. CoreRun([i \in 0..0 |-> start], 0, cfg)
      BY DEF CoreRun
    <3> QED  BY <3>1
  <2>3. PICK m \in Nat : n = m + 1
    <3>1. n - 1 \in Nat /\ n = (n - 1) + 1
      BY <2>2
    <3> QED  BY <3>1
  <2>4. PICK f : CoreRun(f, m, cfg)
    <3>1. m \notin Bad
      BY <2>1, <2>3
    <3> QED  BY <3>1
  <2> DEFINE g == [i \in 0..n |-> IF i = 0 THEN start ELSE CoreStep(f[i - 1], CorePlan[i], cfg)]
  <2>5. \A i \in 0..m : g[i] = f[i]
    <3>1. \A i \in 0..m : f[i] = IF i = 0 THEN start ELSE CoreStep(f[i - 1], CorePlan[i], cfg)
      BY <2>4 DEF CoreRun
    <3>2. \A i \in 0..m : i \in 0..n
      BY <2>3
    <3> QED  BY <3>1, <3>2
  <2>6. \A i \in 0..n : i # 0 => i - 1 \in 0..m
    BY <2>3
  <2>7. CoreRun(g, n, cfg)
    BY <2>5, <2>6 DEF CoreRun
  <2> QED  BY <2>7
<1> QED  BY <1>1

LEMMA CoreRunKeeps ==
    ASSUME ToolsInv, NEW cfg, NEW N \in Nat, N <= Len(CorePlan), NEW f, CoreRun(f, N, cfg)
    PROVE  \A i \in 0..N :
              /\ Matches(f[i].registry) /\ Keeps(registry, f[i].registry)
              /\ DOMAIN registry.tools \subseteq DOMAIN f[i].registry.tools
<1> DEFINE P(i) == /\ Matches(f[i].registry) /\ Keeps(registry, f[i].registry)
                   /\ DOMAIN registry.tools \subseteq DOMAIN f[i].registry.tools
           Bad == {i \in 0..N : ~P(i)}
<1>1. \A i \in 0..N : f[i] = IF i = 0 THEN [registry |-> registry, failed |-> FALSE]
                             ELSE CoreStep(f[i - 1], CorePlan[i], cfg)
  BY DEF CoreRun
<1>2. Bad = {}
  <2> SUFFICES ASSUME Bad # {}
               PROVE  FALSE
    OBVIOUS
  <2>1. PICK k \in Bad : \A m \in Bad : k <= m
    <3>1. Bad \subseteq Nat
      OBVIOUS
    <3> HIDE DEF Bad
    <3> QED  BY <3>1, SmallestNumber
  <2>2. k \in 0..N /\ ~P(k)
    OBVIOUS
  <2>3. CASE k = 0
    <3>1. f[k].registry = registry
      BY <1>1, <2>2, <2>3
    <3>2. P(k)
      BY <3>1 DEF ToolsInv, Keeps
    <3> QED  BY <3>2, <2>2
  <2>4. CASE k # 0
    <3>1. k - 1 \in 0..N /\ k - 1 \in Nat /\ ~(k <= k - 1)
      BY <2>2, <2>4
    <3>2. P(k - 1)
      <4>1. k - 1 \notin Bad
        BY <2>1, <3>1
      <4> HIDE DEF P
      <4> QED  BY <3>1, <4>1
    <3>3. f[k] = CoreStep(f[k - 1], CorePlan[k], cfg)
      BY <1>1, <2>2, <2>4
    <3> DEFINE p == CorePlan[k]
               r == f[k - 1].registry
    <3>4. p[2] \in Tools
      <4>1. k \in 1..Len(CorePlan) /\ CorePlan \in Seq(Categories \X Tools \X BOOLEAN)
        BY <2>2, <2>4, ToolBounds DEF Tools
      <4>2. CorePlan[k] \in Categories \X Tools \X BOOLEAN
        BY <4>1
      <4> QED  BY <4>2
    <3>5. CASE f[k] = f[k - 1]
      BY <3>2, <3>5, <2>2
    <3>6. CASE f[k].registry = Registered(r, p[1], p[2])
      <4> DEFINE s == Registered(r, p[1], p[2])
      <4>1. Matches(r) /\ Keeps(registry, r) /\ DOMAIN registry.tools \subseteq DOMAIN r.tools
        BY <3>2
      <4> HIDE DEF r, p
      <4>2. Matches(s) /\ Keeps(r, s) /\ DOMAIN r.tools \subseteq DOMAIN s.tools
        BY <3>4, <4>1, RegisteredKeeps DEF ToolsInv
      <4> HIDE DEF s
      <4>3. Keeps(registry, s) /\ DOMAIN registry.tools \subseteq DOMAIN s.tools
        BY <4>1, <4>2 DEF Keeps
      <4> QED  BY <2>2, <3>6, <4>2, <4>3 DEF s
    <3> QED  BY <3>3, <3>5, <3>6 DEF CoreStep
  <2> QED  BY <2>3, <2>4
<1>3. \A i \in 0..N : P(i)
  BY <1>2
<1> QED  BY <1>3

LEMMA CoreRegisterStep ==
    ASSUME ToolsInv, NEW cfg, CoreRegister(cfg)
    PROVE  ToolsInv' /\ Keeps(registry, registry')
<1> DEFINE N == Len(CorePlan)
           after == CHOOSE f : CoreRun(f, N, cfg)
<1>1. N \in Nat /\ N <= Len(CorePlan) /\ N \in 0..N
  BY ToolBounds
<1>2. registry' = after[N].registry /\ UNCHANGED declared
  BY DEF CoreRegister, CoreRun, CoreStep
<1> HIDE DEF N
<1>3. CoreRun(after, N, cfg)
  BY <1>1, CoreRunExists
<1> HIDE DEF after
<1>4. Matches(registry') /\ Keeps(registry, registry')
  BY <1>1, <1>2, <1>3, CoreRunKeeps
<1>5. Matches(registry)'
  BY <1>2, <1>4 DEF Matches, Dispatch
<1> QED  BY <1>2, <1>4, <1>5 DEF ToolsInv, DeclaredOK

LEMMA UnregisterStep ==
    ASSUME ToolsInv, NEW n, Unregister(n)
    PROVE  ToolsInv' /\ Keeps(registry, registry')
<1>1. /\ registry' = [tools |-> Without(registry.tools, n),
                      categories |-> Without(registry.categories, n),
                      effects |-> Without(registry.effects, n)]
      /\ UNCHANGED declared
  BY DEF Unregister, ToolsInv, Matches
<1>2. /\ DOMAIN registry'.tools = DOMAIN registry.tools \ {n}
      /\ DOMAIN registry'.categories = DOMAIN registry.tools \ {n}
      /\ DOMAIN registry'.effects = DOMAIN registry.tools \ {n}
      /\ \A m \in DOMAIN registry.tools \ {n} :
            /\ registry'.tools[m] = registry.tools[m]
            /\ registry'.categories[m] = registry.categories[m]
            /\ registry'.effects[m] = registry.effects[m]
  BY <1>1 DEF Without, ToolsInv, Matches
<1>3. Matches(registry')
  BY <1>1, <1>2 DEF ToolsInv, Matches
<1>4. Matches(registry)'
  <2>1. declared' = declared
    BY <1>1
  <2> QED  BY <1>3, <2>1 DEF Matches, Dispatch
<1>5. Keeps(registry, registry')
  BY <1>2 DEF Keeps
<1> QED  BY <1>1, <1>4, <1>5 DEF ToolsInv, DeclaredOK

LEMMA ToolsStep ==
    ASSUME ToolsInv, [RegistryNext]_registryVars
    PROVE  ToolsInv' /\ Keeps(registry, registry')
<1>1. ASSUME NEW c \in Categories, NEW t \in Tools, Register(c, t)
      PROVE  ToolsInv' /\ Keeps(registry, registry')
  BY <1>1, RegisterStep
<1>2. ASSUME NEW cfg, CoreRegister(cfg)
      PROVE  ToolsInv' /\ Keeps(registry, registry')
  BY <1>2, CoreRegisterStep
<1>3. ASSUME NEW n, Unregister(n)
      PROVE  ToolsInv' /\ Keeps(registry, registry')
  BY <1>3, UnregisterStep
<1>4. CASE CoreRefuses \/ UNCHANGED registryVars
  <2>1. registry' = registry /\ declared' = declared
    BY <1>4 DEF CoreRefuses, registryVars
  <2> QED  BY <2>1 DEF ToolsInv, DeclaredOK, Matches, Dispatch, Keeps
<1> QED  BY <1>1, <1>2, <1>3, <1>4 DEF RegistryNext

LEMMA ToolsAtFirst ==
    ASSUME RegistryInit
    PROVE  ToolsInv
<1>1. DeclaredOK
  <2>1. \A S, k : BoundedSeq(S, k) \subseteq Seq(S)
    BY DEF BoundedSeq, SeqOf
  <2> QED  BY <2>1 DEF RegistryInit, DeclaredOK
<1>2. Matches(registry)
  BY DEF RegistryInit, Empty, Matches
<1> QED  BY <1>1, <1>2 DEF ToolsInv

(* The three maps of a registry have the same names, and what they say of  *)
(* a name is what its tool declares.                                       *)
THEOREM ToolsInvariance == RegistrySpec => []ToolsInv
  BY ToolsAtFirst, ToolsStep, PTL DEF RegistrySpec

(* The effect that EffectsFor reads for a name is the one that the tool    *)
(* which a call of the name ends up in declares, through any composite and *)
(* whatever names collide (src/tools/registry.go, Register, and            *)
(* src/tools/composite.go, Execute).                                       *)
THEOREM EffectsAreDispatched == RegistrySpec => []DispatchMatchesEffects
<1>1. ToolsInv => DispatchMatchesEffects
  BY DEF ToolsInv, Matches, DispatchMatchesEffects, EffectOf
<1> QED  BY <1>1, ToolsInvariance, PTL

(* A name keeps its tool, category and effect until Unregister, whatever   *)
(* is registered under it and however many Registers stop half way         *)
(* (src/tools/registry.go, Register; src/tools/core/core.go, Register).    *)
THEOREM RegistrationsStay == RegistrySpec => FirstRegistrationStays
<1>1. ToolsInv /\ [RegistryNext]_registryVars =>
        [\A n \in DOMAIN registry.tools \cap DOMAIN registry'.tools :
            /\ registry'.tools[n] = registry.tools[n]
            /\ registry'.categories[n] = registry.categories[n]
            /\ registry'.effects[n] = registry.effects[n]]_registryVars
  BY ToolsStep DEF Keeps
<1> QED  BY <1>1, ToolsInvariance, PTL DEF RegistrySpec, FirstRegistrationStays
=============================================================================
