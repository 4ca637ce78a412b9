------------------------- MODULE MCCatalogRegistry -------------------------
(* Two routes, one caller besides the loop, and two projections.            *)
EXTENDS CatalogRegistry
=============================================================================
