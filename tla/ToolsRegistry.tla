--------------------------- MODULE ToolsRegistry ---------------------------
(***************************************************************************)
(* tools.Registry and tools.Composite (src/tools/registry.go, composite.go)*)
(* and core.Register (src/tools/core/core.go), which fills a registry.     *)
(*                                                                         *)
(* A Tool is the handler of one or more named definitions, each with an    *)
(* effect.  Tools come from the built-in set and from verticals that       *)
(* implement the interface themselves, so that names may collide, between  *)
(* tools and within one: the definitions of every tool are picked at the   *)
(* start, and never change.  A registry is used by one goroutine.          *)
(***************************************************************************)
EXTENDS Naturals, SequencesExt

CONSTANTS
    BaseTools,      \* tools that execute their definitions themselves
    Composites,     \* tools made by NewComposite
    PartsOf,        \* PartsOf[c]: the tools c delegates to, in order
    CorePlan,       \* what core.Register registers: <<category, tool, optional>>
    Names,          \* names of definitions
    Categories,
    Effects,        \* effects, Unspecified among them
    Unspecified,
    MaxDefinitions  \* bound: definitions of a base tool

ASSUME ToolBounds ==
    /\ MaxDefinitions \in Nat /\ Unspecified \in Effects
    /\ PartsOf \in [Composites -> Seq(BaseTools)]
    /\ CorePlan \in Seq(Categories \X (BaseTools \cup Composites) \X BOOLEAN)

Tools == BaseTools \cup Composites
Definition == [name : Names, effect : Effects]

VARIABLES
    declared,   \* declared[t]: the definitions base tool t returns
    registry,   \* the Registry: maps tools, categories and effects
    failed      \* the last Register or core.Register returned an error

registryVars == <<declared, registry, failed>>

Empty == [tools |-> <<>>, categories |-> <<>>, effects |-> <<>>]

RegistryInit ==
    /\ declared \in [BaseTools -> BoundedSeq(Definition, MaxDefinitions)]
    /\ registry = Empty
    /\ failed = FALSE

-----------------------------------------------------------------------------
(* The map f after f[x] = new[x] for every x of new.                       *)
With(f, new) == [x \in DOMAIN f \cup DOMAIN new |-> IF x \in DOMAIN new THEN new[x] ELSE f[x]]

(* Composite.Definitions merges those of its parts.                        *)
Definitions(t) ==
    IF t \in Composites
      THEN FlattenSeq([i \in DOMAIN PartsOf[t] |-> declared[PartsOf[t][i]]])
      ELSE declared[t]

Named(defs, n) == {i \in DOMAIN defs : defs[i].name = n}

LastOwner(owners) == Max(owners)    \* variant for DispatchMatchesEffects
FirstOwner(owners) == Min(owners)

(* The tool whose Execute runs a call of n on t, which defines n.          *)
Dispatch(t, n) ==
    IF t \in Composites
      THEN LET owns == {i \in DOMAIN PartsOf[t] : Named(declared[PartsOf[t][i]], n) # {}}
           IN  PartsOf[t][FirstOwner(owns)]
      ELSE t

Classified(t) == \A i \in DOMAIN Definitions(t) : Definitions(t)[i].effect # Unspecified

CollidesWithin(r, defs, i) ==   \* variant for FirstRegistrationStays
    \E j \in 1..(i - 1) : defs[j].name = defs[i].name
Collides(r, defs, i) ==
    \/ defs[i].name \in DOMAIN r.tools
    \/ \E j \in 1..(i - 1) : defs[j].name = defs[i].name

(* The definitions the second loop of Register gets to before it returns.  *)
Added(r, defs) == {i \in DOMAIN defs : \A j \in 1..i : ~Collides(r, defs, j)}

RegisterFails(r, t) ==
    ~Classified(t) \/ Added(r, Definitions(t)) # DOMAIN Definitions(t)

(* The registry after Register(category, t): what was added before a       *)
(* collision stays.                                                        *)
Registered(r, category, t) ==
    LET defs  == Definitions(t)
        added == IF Classified(t) THEN Added(r, defs) ELSE {}
        names == {defs[i].name : i \in added}
    IN  [tools      |-> With(r.tools, [n \in names |-> t]),
         categories |-> With(r.categories, [n \in names |-> category]),
         effects    |-> With(r.effects, [n \in names |-> defs[Min(Named(defs, n))].effect])]

Register(category, t) ==
    /\ registry' = Registered(registry, category, t)
    /\ failed' = RegisterFails(registry, t)
    /\ UNCHANGED declared

(* core.Register goes through its plan, leaves out the optional tools that  *)
(* cfg does not ask for, and stops at the first Register that fails.       *)
CoreRegister(cfg) ==
    LET after[i \in 0..Len(CorePlan)] ==
            IF i = 0 THEN [registry |-> registry, failed |-> FALSE]
            ELSE LET before == after[i - 1]
                     p == CorePlan[i]
                 IN  IF before.failed \/ (p[3] /\ p \notin cfg) THEN before
                     ELSE [registry |-> Registered(before.registry, p[1], p[2]),
                           failed   |-> RegisterFails(before.registry, p[2])]
        end == after[Len(CorePlan)]
    IN  /\ registry' = end.registry
        /\ failed' = end.failed
        /\ UNCHANGED declared

(* A cfg without a workspace path is refused first of all.                 *)
CoreRefuses == failed' = TRUE /\ UNCHANGED <<declared, registry>>

Without(f, n) == [m \in DOMAIN f \ {n} |-> f[m]]

Unregister(n) ==
    /\ registry' = [registry EXCEPT !.tools = Without(@, n), !.categories = Without(@, n),
                                    !.effects = Without(@, n)]
    /\ UNCHANGED <<declared, failed>>

RegistryNext ==
    \/ \E c \in Categories, t \in Tools : Register(c, t)
    \/ \E cfg \in SUBSET {p \in ToSet(CorePlan) : p[3]} : CoreRegister(cfg)
    \/ CoreRefuses
    \/ \E n \in Names : Unregister(n)

RegistrySpec == RegistryInit /\ [][RegistryNext]_registryVars

-----------------------------------------------------------------------------
(* A name is in all three maps or in none, since Categories and            *)
(* ToolsByCategory call the tool of every name that has a category; and    *)
(* the effect a loop reads for a name (EffectsFor) is the one declared by  *)
(* the tool that a call of the name ends up in, through any composite,     *)
(* even if several tools declare the name.                                 *)
DispatchMatchesEffects ==
    /\ DOMAIN registry.tools = DOMAIN registry.categories
    /\ DOMAIN registry.tools = DOMAIN registry.effects
    /\ \A n \in DOMAIN registry.tools :
        LET defs == declared[Dispatch(registry.tools[n], n)]
        IN  /\ Named(defs, n) # {}
            /\ registry.effects[n] = defs[Min(Named(defs, n))].effect

(* Nothing but Unregister changes what a registered name stands for.       *)
FirstRegistrationStays ==
    [][\A n \in DOMAIN registry.tools \cap DOMAIN registry'.tools :
          /\ registry'.tools[n] = registry.tools[n]
          /\ registry'.categories[n] = registry.categories[n]
          /\ registry'.effects[n] = registry.effects[n]]_registryVars

(* "If a later definition fails validation, earlier definitions in the     *)
(* same call are rolled back" (registry.go:39): what the comment promises, *)
(* for one Register.                                                       *)
FailedRegisterAddsNothing ==
    [][\A c \in Categories, t \in Tools :
          Register(c, t) /\ failed' => UNCHANGED registry]_registryVars
=============================================================================
