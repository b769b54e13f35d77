--------------------------- MODULE MCMeteredChat ---------------------------
(* A model that is listed, one whose name overlaps with two keys, one that *)
(* is overridden, and one that nobody has heard of.                        *)
EXTENDS MeteredChat, TLC

CONSTANTS sonnet, opus, dated, custom, unknown

MCOverrides == custom :> 4
MCDefaults == sonnet :> 1 @@ opus :> 2
MCOverlaps == {<<sonnet, dated>>, <<opus, dated>>}
=============================================================================
