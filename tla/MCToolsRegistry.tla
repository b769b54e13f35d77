-------------------------- MODULE MCToolsRegistry --------------------------
(* Two tools and a composite of both, which is what core.Register adds     *)
(* after the first of them when it is configured.                          *)
EXTENDS ToolsRegistry, TLC

CONSTANTS t1, t2, both

MCPartsOf == both :> <<t1, t2>>
MCCorePlan == <<<<"web", t1, FALSE>>, <<"memory", t2, TRUE>>>>
=============================================================================
