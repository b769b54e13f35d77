-------------------------- MODULE ProviderRegistry --------------------------
(***************************************************************************)
(* providers.Registry (src/providers/registry.go): one provider per name,  *)
(* under a lock.  Register closes the provider it replaces, Close those    *)
(* that are there, which stay registered.  Whoever has got a provider      *)
(* keeps it while others register and close.                               *)
(*                                                                         *)
(* All providers are io.Closers here; to the others a close means nothing. *)
(***************************************************************************)
EXTENDS Naturals, Functions

CONSTANTS
    Names,      \* what Name() returns
    Instances,  \* providers of each name
    Callers,    \* goroutines that get providers
    MaxRegisters, \* bound: calls of Register with one provider
    NoProvider

ASSUME RegisterBound == MaxRegisters \in Nat

Providers == Names \X Instances
NameOf(p) == p[1]

ASSUME NilIsNoProvider == NoProvider \notin Providers

VARIABLES
    registered, \* r.providers
    closes,     \* closes[p]: calls of p.Close()
    using,      \* using[c]: the provider c has got, or NoProvider
    registers,  \* registers[p]: calls of Register(p) (history)
    shut        \* Close was called (history)

registryVars == <<registered, closes, using, registers, shut>>

RegistryInit ==
    /\ registered = [n \in Names |-> NoProvider]
    /\ closes = [p \in Providers |-> 0]
    /\ using = [c \in Callers |-> NoProvider]
    /\ registers = [p \in Providers |-> 0]
    /\ shut = FALSE

-----------------------------------------------------------------------------
Closed(old) == [p \in Providers |-> closes[p] + IF p \in old THEN 1 ELSE 0]

ClosedNone(p) == {}     \* variant for UsedUntilReplaced
Replaced(p) == {registered[NameOf(p)]}

Register(p) ==
    /\ registers[p] < MaxRegisters
    /\ registers' = [registers EXCEPT ![p] = @ + 1]
    /\ closes' = Closed(Replaced(p))
    /\ registered' = [registered EXCEPT ![NameOf(p)] = p]
    /\ UNCHANGED <<using, shut>>

Get(c, n) ==
    /\ using' = [using EXCEPT ![c] = registered[n]]
    /\ UNCHANGED <<registered, closes, registers, shut>>

Close ==
    /\ ~shut
    /\ shut' = TRUE
    /\ closes' = Closed(Range(registered))
    /\ UNCHANGED <<registered, using, registers>>

RegistryStep ==
    \/ \E p \in Providers : Register(p)
    \/ \E c \in Callers, n \in Names : Get(c, n)
    \/ Close

-----------------------------------------------------------------------------
(* Until Close, a provider that was registered once is closed under those  *)
(* who use it when another one takes its name, and only then, and once.    *)
UsedUntilReplaced ==
    ~shut => \A c \in Callers : using[c] # NoProvider =>
        LET p == using[c] IN
        registers[p] = 1 => closes[p] = IF registered[NameOf(p)] = p THEN 0 ELSE 1
=============================================================================
