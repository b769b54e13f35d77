----------------------------- MODULE AgentStore -----------------------------
(***************************************************************************)
(* LiteAgentStore (src/harness/lite/agent.go): agent definitions kept in a *)
(* map, updated with optimistic concurrency control.                       *)
(*                                                                         *)
(* Every operation holds s.mu from start to end, so each is one step; what *)
(* interleaves is the clients' read-modify-write: Get a definition, change *)
(* it, Update with the version that was read.  Ids come from a counter and *)
(* nothing leaves the map, so the map is a sequence and an id is an index. *)
(* The patchable fields are one value, which a client's update increments. *)
(* The mcp_servers of a definition hold a slice and a map by reference     *)
(* (Args, Env); env names the one a definition refers to, and content is   *)
(* what stands in it: whoever holds a definition can write there without   *)
(* the store.                                                              *)
(***************************************************************************)
EXTENDS Naturals, Sequences

CONSTANTS
    Clients,    \* callers of the store
    MaxAgents,  \* bound: agents ever created or cloned
    MaxUpdates, \* bound: versions of one agent
    MaxWrites,  \* bound: writes through a reference
    None        \* a client that holds no definition

ASSUME StoreBounds == MaxAgents \in Nat /\ MaxUpdates \in Nat /\ MaxWrites \in Nat

VARIABLES
    agents,     \* agents[id]: the stored definition
    content,    \* content[env]: what the reference env holds
    held,       \* held[c]: the definition client c got last, or None
    base,       \* base[id]: the value the agent started from (history)
    acked       \* acked[id]: updates that were acknowledged (history)

vars == <<agents, content, held, base, acked>>

AgentDefinitions == [version : Nat \ {0}, archived : BOOLEAN, value : Nat,
                     env : Nat \ {0}]
Held == [id : Nat \ {0}, def : AgentDefinitions]

TypeOK ==
    /\ agents \in Seq(AgentDefinitions)
    /\ content \in Seq(Nat)
    /\ held \in [Clients -> Held \cup {None}]
    /\ base \in Seq(Nat) /\ acked \in Seq(Nat)
    /\ \A id \in DOMAIN agents :
          agents[id].env \in DOMAIN content
    /\ \A c \in Clients : held[c] # None => held[c].id \in DOMAIN agents

Init ==
    /\ agents = <<>>
    /\ content = <<>>
    /\ held = [c \in Clients |-> None]
    /\ base = <<>> /\ acked = <<>>

Holds(c, id, def) == held' = [held EXCEPT ![c] = [id |-> id, def |-> def]]

-----------------------------------------------------------------------------

(* Create: the next id, version 1, and references of the caller's own.     *)
Create(c) ==
    LET def == [version |-> 1, archived |-> FALSE, value |-> 0,
                env |-> Len(content) + 1]
    IN  /\ Len(agents) < MaxAgents
        /\ agents' = Append(agents, def)
        /\ content' = Append(content, 0)
        /\ Holds(c, Len(agents) + 1, def)
        /\ base' = Append(base, 0)
        /\ acked' = Append(acked, 0)

Get(c, id) ==
    /\ Holds(c, id, agents[id])
    /\ UNCHANGED <<agents, content, base, acked>>

(* Update of the definition a client holds: refused (ErrArchived) when the *)
(* agent is archived and (ErrConflict) when its version is another one.    *)
AnyVersion(c) == TRUE           \* variant for NoLostUpdate
SameVersion(c) == agents[held[c].id].version = held[c].def.version

AnyAgent(id) == TRUE            \* variant for ArchivedIsFrozen
NotArchived(id) == ~agents[id].archived

Unbumped(version) == version    \* variant for VersionNamesContent
Bumped(version) == version + 1

Patched(c) ==
    LET id  == held[c].id
        def == [agents[id] EXCEPT !.value = held[c].def.value + 1,
                                  !.version = Bumped(@)]
    IN  /\ agents' = [agents EXCEPT ![id] = def]
        /\ acked' = [acked EXCEPT ![id] = @ + 1]
        /\ Holds(c, id, def)

Update(c) ==
    /\ held[c] # None
    /\ agents[held[c].id].version < MaxUpdates
    /\ IF NotArchived(held[c].id) /\ SameVersion(c)
       THEN Patched(c)
       ELSE held' = [held EXCEPT ![c] = None] /\ UNCHANGED <<agents, acked>>
    /\ UNCHANGED <<content, base>>

(* Archive leaves the version as it is.                                    *)
Archive(c, id) ==
    /\ ~agents[id].archived
    /\ agents' = [agents EXCEPT ![id].archived = TRUE]
    /\ Holds(c, id, agents'[id])
    /\ UNCHANGED <<content, base, acked>>

(* Clone, of an archived agent too: version 1, not archived; of its        *)
(* references Args and Env of the mcp_servers are the source's.            *)
Clone(c, id) ==
    LET def == [agents[id] EXCEPT !.version = 1, !.archived = FALSE]
    IN  /\ Len(agents) < MaxAgents
        /\ agents' = Append(agents, def)
        /\ Holds(c, Len(agents) + 1, def)
        /\ base' = Append(base, def.value)
        /\ acked' = Append(acked, 0)
        /\ UNCHANGED content

(* A client writes into an Env it holds, without any call to the store.    *)
WriteThrough(c) ==
    /\ held[c] # None
    /\ content[held[c].def.env] < MaxWrites
    /\ content' = [content EXCEPT ![held[c].def.env] = @ + 1]
    /\ UNCHANGED <<agents, held, base, acked>>

Next ==
    \E c \in Clients :
        \/ Create(c) \/ Update(c) \/ WriteThrough(c)
        \/ \E id \in DOMAIN agents : Get(c, id) \/ Archive(c, id) \/ Clone(c, id)

Spec == Init /\ [][Next]_vars

-----------------------------------------------------------------------------
(* Every acknowledged Update builds on the one before it: no two clients   *)
(* that read the same version both get their change in.                    *)
NoLostUpdate ==
    \A id \in DOMAIN agents : agents[id].value = base[id] + acked[id]

(* A version names one content: a client whose version is the stored one   *)
(* holds the stored fields, however long ago it read them.                 *)
VersionNamesContent ==
    \A c \in Clients : held[c] # None =>
        LET stored == agents[held[c].id] IN
            /\ held[c].def.version <= stored.version
            /\ held[c].def.version = stored.version =>
                  held[c].def.value = stored.value

(* An archived agent is never changed again, nor revived under its id.     *)
ArchivedIsFrozen ==
    [][\A id \in DOMAIN agents :
          agents[id].archived => agents'[id] = agents[id]]_vars

-----------------------------------------------------------------------------
(* "Deep-copy slices and maps to avoid aliasing" (Clone): what a client    *)
(* writes into a definition it holds shows in no other agent.              *)
CloneSharesNothing ==
    [][\A c \in Clients : WriteThrough(c) =>
          \A id \in DOMAIN agents \ {held[c].id} :
              content'[agents[id].env] = content[agents[id].env]]_vars
=============================================================================
