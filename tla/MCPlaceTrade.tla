---------------------------- MODULE MCPlaceTrade ----------------------------
(* Model checking of PlaceTrade.                                           *)
EXTENDS PlaceTrade, TLC

(* Requests, keys and users are interchangeable. *)
Symmetry ==
  Permutations(Requests) \cup Permutations(Keys) \cup Permutations(Users)

=============================================================================
