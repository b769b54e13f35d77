---------------------------- MODULE OutsideCalls ----------------------------
(***************************************************************************)
(* Calls whose answers come from outside the process: a command, a model's *)
(* streamed answer, a knowledge graph, and the registry that the callers   *)
(* of models get them from.  They have nothing in common, so a behaviour   *)
(* is about one of them.                                                   *)
(***************************************************************************)
EXTENDS Exec, AnthropicStream, KnowledgeGraph, ProviderRegistry

VARIABLE call   \* what is called

vars == <<execVars, streamVars, graphVars, registryVars, call>>

Init ==
    /\ ExecInit /\ StreamInit /\ GraphInit /\ RegistryInit
    /\ call \in {"command", "model", "graph", "registry"}

Command ==
    /\ call = "command"
    /\ ExecStep
    /\ UNCHANGED <<streamVars, graphVars, registryVars, call>>

Model ==
    /\ call = "model"
    /\ StreamStep
    /\ UNCHANGED <<execVars, graphVars, registryVars, call>>

Graph ==
    /\ call = "graph"
    /\ GraphStep
    /\ UNCHANGED <<execVars, streamVars, registryVars, call>>

Providing ==
    /\ call = "registry"
    /\ RegistryStep
    /\ UNCHANGED <<execVars, streamVars, graphVars, call>>

Next == Command \/ Model \/ Graph \/ Providing

Spec == Init /\ [][Next]_vars /\ WF_vars(Command /\ ExecGoesOn)
=============================================================================
