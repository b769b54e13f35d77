-------------------------- MODULE LiteToolRegistry --------------------------
(***************************************************************************)
(* lite.LiteToolRegistry (src/harness/lite/registry.go): global tools and  *)
(* tools of a tenant, in maps by name, while UpdateTool and DeleteTool are *)
(* called with the id of a tool.  Every operation holds the mutex from end *)
(* to end.                                                                 *)
(*                                                                         *)
(* Of a tenant's tool the map holds the id.  The caller may supply it; one *)
(* that is generated is the time in nanoseconds, which two registrations   *)
(* may share.                                                              *)
(***************************************************************************)
EXTENDS LiteProcess

CONSTANTS
    ToolNames,
    MaxIds,     \* bound: ids of tools
    NoTool, GlobalTool

ASSUME ToolIdBound == MaxIds \in Nat

VARIABLES
    globals,    \* names of the global tools
    tools,      \* tools[t]: the id under each name of a tool of t
    called,     \* called[t]: the name each tool of t was given last (history)
    ambiguous   \* tenants that have registered one id under two names (history)

toolVars == <<globals, tools, called, ambiguous>>

ToolsInit ==
    /\ globals = {}
    /\ tools = [t \in Tenants |-> <<>>]
    /\ called = [t \in Tenants |-> <<>>]
    /\ ambiguous = {}

-----------------------------------------------------------------------------
(* Resolve of one name: ErrNotFound is NoTool.                             *)
Resolved(t, n) ==
    IF n \in DOMAIN tools[t] THEN tools[t][n]
    ELSE IF n \in globals THEN GlobalTool ELSE NoTool

AddGlobalTool(n) ==
    /\ globals' = globals \cup {n}
    /\ UNCHANGED <<tools, called, ambiguous>>

(* A name stands for one tool: whoever takes it puts the other tool out.   *)
Call(t, id, n) ==
    called' = [called EXCEPT ![t] =
        [i \in {id} \cup {j \in DOMAIN @ : @[j] # n} |-> IF i = id THEN n ELSE @[i]]]

RegisterTool(t, n, id) ==
    /\ tools' = [tools EXCEPT ![t] = With(@, n, id)]
    /\ ambiguous' = ambiguous \cup
         {u \in {t} : \E m \in DOMAIN tools[t] \ {n} : tools[t][m] = id}
    /\ Call(t, id, n)
    /\ UNCHANGED globals

RenamedToBoth(f, old, n) == With(f, n, f[old])     \* variant for ToolsHaveTheirNames
Renamed(f, old, n) == With(Without(f, old), n, f[old])

(* Both take the first entry with the id that the map's iteration comes to.*)
UpdateTool(t, id, n) ==
    /\ \E old \in DOMAIN tools[t] :
         /\ tools[t][old] = id
         /\ tools' = [tools EXCEPT ![t] = Renamed(@, old, n)]
    /\ Call(t, id, n)
    /\ UNCHANGED <<globals, ambiguous>>

DeleteTool(t, id) ==
    /\ \E old \in DOMAIN tools[t] :
         /\ tools[t][old] = id
         /\ tools' = [tools EXCEPT ![t] = Without(@, old)]
    /\ called' = [called EXCEPT ![t] = Without(@, id)]
    /\ UNCHANGED <<globals, ambiguous>>

ToolStep ==
    \/ \E n \in ToolNames : AddGlobalTool(n)
    \/ \E t \in Tenants, id \in 1..MaxIds :
         \/ \E n \in ToolNames : RegisterTool(t, n, id) \/ UpdateTool(t, id, n)
         \/ DeleteTool(t, id)

(* The process dies, and the next one starts with nothing.                 *)
ToolsCrash ==
    /\ globals' = {} /\ ambiguous' = {}
    /\ tools' = [t \in Tenants |-> <<>>]
    /\ called' = [t \in Tenants |-> <<>>]

-----------------------------------------------------------------------------
(* A tenant's tool is resolved under the name its last update gave it and  *)
(* under no other, until it is deleted or another tool of the tenant takes *)
(* the name; no call for another tenant and no global tool changes that.   *)
(* It takes ids that stand for one tool each.                              *)
ToolsHaveTheirNames ==
    \A t \in Tenants \ ambiguous, n \in ToolNames :
        LET named == {id \in DOMAIN called[t] : called[t][id] = n} IN
        IF named # {} THEN named = {Resolved(t, n)}
        ELSE Resolved(t, n) = IF n \in globals THEN GlobalTool ELSE NoTool
=============================================================================
