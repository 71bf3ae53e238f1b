------------------------------ MODULE MCWallet ------------------------------
(* Model checking of Wallet: handlers of the same kind are interchangeable. *)
EXTENDS Wallet, TLC

CallSymmetry == Permutations(Calls)

=============================================================================
