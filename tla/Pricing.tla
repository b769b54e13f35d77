------------------------------ MODULE Pricing ------------------------------
(***************************************************************************)
(* cost.Calculate (src/cost/pricing.go): what a call of a model costs.     *)
(*                                                                         *)
(* The overrides are set before the first call, as the configuration does. *)
(* Prices are those of one call of a fixed size.                           *)
(***************************************************************************)
EXTENDS Naturals, FiniteSets

CONSTANTS
    Models,             \* models that are called, without "openrouter/"
    pricingOverrides,   \* prices by key
    defaultPricing,     \* the same
    Fallback,           \* the key of claude-sonnet-4-6
    Overlaps            \* pairs of a key and a model, one a part of the other

ASSUME PricingBounds ==
    /\ Models # {}
    /\ IsFiniteSet(DOMAIN pricingOverrides) /\ IsFiniteSet(DOMAIN defaultPricing)
    /\ Fallback \in DOMAIN defaultPricing
    /\ \A k \in DOMAIN pricingOverrides : pricingOverrides[k] \in Nat
    /\ \A k \in DOMAIN defaultPricing : defaultPricing[k] \in Nat

Near(prices, model) == {prices[k] : k \in {j \in DOMAIN prices : <<j, model>> \in Overlaps}}

(* The prices it may find: of several keys that overlap with the model the *)
(* order of the map chooses one, anew at each call.                        *)
LookupPrice(model) ==
    CASE model \in DOMAIN pricingOverrides -> {pricingOverrides[model]}
      [] model \in DOMAIN defaultPricing \ DOMAIN pricingOverrides -> {defaultPricing[model]}
      [] OTHER ->
           IF Near(pricingOverrides, model) # {} THEN Near(pricingOverrides, model)
           ELSE IF Near(defaultPricing, model) # {} THEN Near(defaultPricing, model)
           ELSE {defaultPricing[Fallback]}
=============================================================================
