---------------------------- MODULE HosAccounts ----------------------------
(* What the contracts name in common: the rented wallets, the operating    *)
(* keys, the accounts that administer contracts, and the absent value.     *)
EXTENDS Naturals, FiniteSets

CONSTANTS
    Wallets,    \* rented accounts
    Keys,       \* ed25519 operating keys
    Admins,     \* accounts that may be admins of a contract
    FirstAdmin, \* the admin every contract is deployed with
    None        \* an absent value (Option::None)

ASSUME AccountConstants ==
    /\ FirstAdmin \in Admins
    /\ IsFiniteSet(Admins)
    /\ None \notin Keys

KeyOrNone == Keys \cup {None}

=============================================================================
