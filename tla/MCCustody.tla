----------------------------- MODULE MCCustody ------------------------------
(* The custody contracts on a small instance: one wallet, its receipts in  *)
(* every order.  Wallets do not share state in any of the contracts.       *)
EXTENDS Custody, TLC

CONSTANTS w1, tla1

MCWallets  == {w1}
MCMinters  == {tla1}
MCParent   == w1 :> tla1

MCSymmetry == Permutations(Keys) \cup Permutations(Transfers)

=============================================================================
