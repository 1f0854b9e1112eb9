---------------------------- MODULE MCShopifyGateway ----------------------------
(***************************************************************************)
(* TLC's instance of ShopifyGateway: one call at a time, of a tool or of a *)
(* sync, with the code's number of attempts.  Calls share nothing but the  *)
(* breaker, whose five failures only the run about it needs.               *)
(***************************************************************************)
EXTENDS ShopifyGateway
===============================================================================
