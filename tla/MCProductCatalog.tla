---------------------------- MODULE MCProductCatalog ----------------------------
(***************************************************************************)
(* TLC's instance of ProductCatalog: two products, one of them without an  *)
(* image, so that its hash tells who wrote the row; a sync that brings     *)
(* both can lose the second one's embedding to the first one's failure.    *)
(* Two requests, enough for a webhook to overtake another or a sync.       *)
(***************************************************************************)
EXTENDS ProductCatalog, TLC

Symmetry == Permutations(Requests)
===============================================================================
