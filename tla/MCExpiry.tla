------------------------------ MODULE MCExpiry ------------------------------
(* One name and its time: renewals, listings and purchases, the reclaim of *)
(* the expired name behind the asset gate, its re-rent, with the owner's   *)
(* halt of the wallet, in every order.                                     *)
EXTENDS TlaRegistry, TLC

CONSTANTS w1, tla1, u1, u2, k1, pk, ft1, ft2

MCWallets    == {w1}
MCTokens     == {ft1, ft2}
MCTlas       == {tla1}
MCUsers      == {u1, u2}
MCAdmins     == {u1}
MCKeys       == {k1, pk}
MCTlaOf      == w1 :> tla1
MCNameLength == (w1 :> 12) @@ (tla1 :> 8)

MCFeeConfigs ==
    {[tla_allocation_fee |-> 0, rent_tier_5 |-> 1, rent_tier_8 |-> 1, rent_tier_10 |-> 1,
      rent_tier_12plus |-> 1, sub_fee_per_account |-> 1, account_creation_deposit |-> 1,
      business_max_subs |-> 1, retraction_notice_ns |-> 2, resale_commission_bps |-> 5000]}

\* The name has been rented by u1 with key k1; the TLA was activated and
\* renewed twice; u2 takes payments elsewhere.
ExpiryInit ==
    /\ EmptyBooks
    /\ parked_signer_pubkey = pk
    /\ tlas = tla1 :> [tla_type |-> "Open", status |-> "Active", licensee |-> None,
                       premium_category |-> "Community", expires_at |-> 3 * Year]
    /\ sub_accounts = w1 :> [owner |-> u1, main_wallet |-> u1, expires_at |-> Year,
                             retraction_at |-> None]
    /\ mothers = [a \in Accounts |-> IF a = u1 THEN u1 ELSE None]
    /\ business_sub_count = tla1 :> 0
    /\ sub_account_count = 1
    /\ payment_authorities = {u2}
    /\ ft_allowlist = {ft1, ft2}
    /\ owner = w1 :> k1
    /\ hold = w1 :> "open"
    /\ beneficiary = w1 :> None

\* Two tokens are at the gate, and one of them comes to the wallet and goes.
\* Owners list with the live key, somebody else buys, re-rents are for the
\* tenant's own main wallet.
ExpiryNext ==
    \/ \E c \in Slots, u \in Users :
          \/ \E price \in Prices : list_sub_account(c, u, w1, price, owner[w1])
          \/ /\ Rented(w1) /\ u # sub_accounts[w1].owner
             /\ \E paid \in Payments : Attach(paid) /\ buy_sub_account(c, u, w1, k1, paid)
          \/ \E paid \in Payments : Attach(paid) /\ rent_sub_account(c, u, w1, k1, u, paid)
    \/ \E u \in Users, paid \in Payments : Attach(paid) /\ renew_sub_account(u, w1, paid)
    \/ \E u \in Users : set_main_wallet(u, w1, u2)
    \/ Reclaiming
    \/ Sweeping
    \/ Receipts
    \/ HaltStep
    \/ TokenArrives(w1, ft1)
    \/ TokenLeaves(w1, ft1)
    \/ Tick

ExpirySpec == ExpiryInit /\ [][ExpiryNext]_registryVars /\ Delivery

\* The same name with an admin who clears locks under the chains in flight
\* and pauses the registry, and sellers and buyers who claim what they are owed.
OverrideNext ==
    \/ \E c \in Slots, u \in Users :
          \/ \E price \in Prices : list_sub_account(c, u, w1, price, owner[w1])
          \/ /\ Rented(w1) /\ u # sub_accounts[w1].owner
             /\ \E paid \in Payments : Attach(paid) /\ buy_sub_account(c, u, w1, k1, paid)
          \/ /\ Rented(w1) /\ u # sub_accounts[w1].owner
             /\ buy_sub_account_paid(c, u2, u, w1, k1)
    \/ Reclaiming
    \/ \E s \in Sweeps, paid \in Payments :
          Attach(paid) /\ reclaim_sweep_ft(s, u2, w1, ft1, paid)
    \/ \E s \in Sweeps : RunSweep(s)
    \/ Claiming
    \/ AdminOverrides
    \/ \E admin \in Admins : pause(admin) \/ unpause(admin)
    \/ Receipts
    \/ Tick

OverrideSpec == ExpiryInit /\ [][OverrideNext]_registryVars

MCSymmetry == Permutations(Slots)

\* The same name, listed and bought, and its owner's choice of a mother.
AnchorNext ==
    \/ \E c \in Slots, u \in Users :
          \/ \E price \in Prices : list_sub_account(c, u, w1, price, owner[w1])
          \/ \E paid \in Payments : Attach(paid) /\ buy_sub_account(c, u, w1, k1, paid)
    \/ Anchor
    \/ Reclaiming
    \/ Receipts
    \/ Tick

AnchorSpec == ExpiryInit /\ [][AnchorNext]_registryVars

=============================================================================
