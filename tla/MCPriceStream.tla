--------------------------- MODULE MCPriceStream ---------------------------
(* One place for consumers: OneConsumer says of it already that no consumer *)
(* outlives its attempt, so a second place would stay empty.               *)
EXTENDS PriceStream

MCSlots == {1}
============================================================================
