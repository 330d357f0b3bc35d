---------------------------- MODULE MCSellerGateway ----------------------------
(* SellerGateway for TLC: all nine routes, two requests that compete for   *)
(* one subscriber or subscribe two.                                        *)
EXTENDS SellerGateway, TLC

Symmetry == Permutations(Request) \union Permutations(Subscriber)
              \union Permutations(Call) \union Permutations(SellerCall)
================================================================================
