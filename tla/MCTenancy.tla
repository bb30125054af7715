----------------------------- MODULE MCTenancy ------------------------------
(* The names of a Business TLA from their mint to their reclaim: paid and  *)
(* native mints, signers that are installed late, retractions, anchors,    *)
(* caps, with two chains of receipts in any order.                         *)
EXTENDS TlaRegistry, TLC

CONSTANTS w1, w2, tla1, u1, u2, k1, pk

MCWallets    == {w1, w2}
MCTlas       == {tla1}
MCUsers      == {u1, u2}
MCAdmins     == {u1}
MCKeys       == {k1, pk}
MCTlaOf      == (w1 :> tla1) @@ (w2 :> tla1)
MCNameLength == (w1 :> 12) @@ (w2 :> 12) @@ (tla1 :> 8)

\* One name at a time, unless an admin raises the cap.
MCFeeConfigs ==
    {[tla_allocation_fee |-> 0, rent_tier_5 |-> 1, rent_tier_8 |-> 1, rent_tier_10 |-> 1,
      rent_tier_12plus |-> 1, sub_fee_per_account |-> 0, account_creation_deposit |-> 1,
      business_max_subs |-> 1, retraction_notice_ns |-> 2, resale_commission_bps |-> 0]}

\* The licensee u1 has activated the TLA; u2 takes payments elsewhere.
TenancyInit ==
    /\ OwnershipInit
    /\ EmptyBooks
    /\ parked_signer_pubkey = pk
    /\ tlas = tla1 :> [tla_type |-> "Business", status |-> "Active", licensee |-> u1,
                       premium_category |-> "Standard", expires_at |-> MaxTime + 1]
    /\ sub_accounts = [w \in Wallets |-> None]
    /\ mothers = [a \in Accounts |-> None]
    /\ business_sub_count = tla1 :> 0
    /\ sub_account_count = 0
    /\ payment_authorities = {u2}
    /\ ft_allowlist = {}

\* New names get the key k1, and the payer's licensee as main wallet.
TenancyNext ==
    \/ \E c \in Slots, w \in Wallets, paid \in Payments :
          /\ Attach(paid)
          /\ \/ rent_sub_account(c, u1, w, k1, u1, paid)
             \/ rent_sub_account_paid(c, u2, w, k1, u1, paid)
    \/ \E c \in Slots, u \in Users, w \in Wallets : retry_signer_install(c, u, w)
    \/ Retract
    \/ Anchor
    \/ Reclaiming
    \/ \E cap \in Caps : set_business_sub_cap(u1, tla1, cap)
    \/ Receipts
    \/ Tick

TenancySpec == TenancyInit /\ [][TenancyNext]_registryVars

MCSymmetry == Permutations(Slots) \cup Permutations(Wallets)

=============================================================================
