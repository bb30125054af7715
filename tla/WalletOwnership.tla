-------------------------- MODULE WalletOwnership ---------------------------
(***************************************************************************)
(* What the three custody contracts promise together about the ownership   *)
(* of a wallet, with no receipts, callbacks or phases:                     *)
(*                                                                         *)
(*  - a wallet gets its first owner once;                                  *)
(*  - a sale moves it only while it is open;                               *)
(*  - an approved recovery holds the wallet for one beneficiary, and from  *)
(*    then on until it is released the wallet can only go to that key;     *)
(*  - the owner may halt the wallet at any time, and only a recovery ends  *)
(*    a halt.                                                              *)
(***************************************************************************)
EXTENDS HosAccounts

VARIABLES
    owner,       \* wallet -> operating key, or None
    hold,        \* wallet -> "open", "halted" (by the owner) or "held"
    beneficiary  \* wallet -> the key an approved recovery holds it for

ownershipVars == <<owner, hold, beneficiary>>

OwnershipInit ==
    /\ owner       = [w \in Wallets |-> None]
    /\ hold        = [w \in Wallets |-> "open"]
    /\ beneficiary = [w \in Wallets |-> None]

FirstOwner(w, k) ==
    /\ owner[w] = None
    /\ owner' = [owner EXCEPT ![w] = k]
    /\ UNCHANGED <<hold, beneficiary>>

Sell(w, k) ==
    /\ owner[w] # None
    /\ hold[w] = "open"
    /\ beneficiary[w] = None
    /\ owner' = [owner EXCEPT ![w] = k]
    /\ UNCHANGED <<hold, beneficiary>>

Halt(w) ==
    /\ owner[w] # None
    /\ hold' = [hold EXCEPT ![w] = "halted"]
    /\ UNCHANGED <<owner, beneficiary>>

Hold(w, k) ==
    /\ owner[w] # None
    /\ beneficiary[w] = None
    /\ beneficiary' = [beneficiary EXCEPT ![w] = k]
    /\ hold' = [hold EXCEPT ![w] = IF @ = "open" THEN "held" ELSE @]
    /\ UNCHANGED owner

Recover(w) ==
    /\ beneficiary[w] # None
    /\ owner' = [owner EXCEPT ![w] = beneficiary[w]]
    /\ hold' = [hold EXCEPT ![w] = "open"]
    /\ beneficiary' = [beneficiary EXCEPT ![w] = None]

Release(w) ==
    /\ beneficiary[w] # None
    /\ beneficiary' = [beneficiary EXCEPT ![w] = None]
    /\ hold' = [hold EXCEPT ![w] = IF @ = "held" THEN "open" ELSE @]
    /\ UNCHANGED owner

OwnershipNext ==
    \E w \in Wallets :
        \/ \E k \in Keys : FirstOwner(w, k) \/ Sell(w, k) \/ Hold(w, k)
        \/ Halt(w) \/ Recover(w) \/ Release(w)

OwnershipSpec == OwnershipInit /\ [][OwnershipNext]_ownershipVars

=============================================================================
