------------------------------ MODULE MCMarket ------------------------------
(* One rented name on the market: its sales in every order, with recoveries *)
(* acting on the wallet meanwhile.                                         *)
EXTENDS TlaRegistry, TLC

CONSTANTS w1, tla1, u1, u2, k1, pk

MCWallets    == {w1}
MCTlas       == {tla1}
MCUsers      == {u1, u2}
MCAdmins     == {u1}
MCKeys       == {k1, pk}
MCTlaOf      == w1 :> tla1
MCNameLength == (w1 :> 12) @@ (tla1 :> 8)

\* Half of a resale goes to the registry; rents are those of a Community
\* TLA, which are nil.
MCFeeConfigs ==
    {[tla_allocation_fee |-> 0, rent_tier_5 |-> 1, rent_tier_8 |-> 1, rent_tier_10 |-> 1,
      rent_tier_12plus |-> 1, sub_fee_per_account |-> 1, account_creation_deposit |-> 1,
      business_max_subs |-> 1, retraction_notice_ns |-> 2, resale_commission_bps |-> 5000]}

\* The name has been rented by u1 with key k1; the TLA was activated and
\* renewed once.
MarketInit ==
    /\ EmptyBooks
    /\ parked_signer_pubkey = pk
    /\ tlas = tla1 :> [tla_type |-> "Open", status |-> "Active", licensee |-> None,
                       premium_category |-> "Community", expires_at |-> 2 * Year]
    /\ sub_accounts = w1 :> [owner |-> u1, main_wallet |-> u1, expires_at |-> Year,
                             retraction_at |-> None]
    /\ mothers = [a \in Accounts |-> IF a = u1 THEN u1 ELSE None]
    /\ business_sub_count = tla1 :> 0
    /\ sub_account_count = 1
    /\ payment_authorities = {u2}
    /\ ft_allowlist = {}
    /\ owner = w1 :> k1
    /\ hold = w1 :> "open"
    /\ beneficiary = w1 :> None

\* Sellers quote the key that is live when they call and sell to somebody
\* else, buyers and recoveries bring another key.
MarketNext ==
    \/ \E c \in Slots, u \in Users :
          \/ Advertise(c, u, w1, owner[w1]) /\ chains'[c].other # u
          \/ /\ \E k \in Keys : Purchase(c, u, w1, k)
             /\ chains'[c].user # sub_accounts[w1].owner
             /\ chains'[c].key # owner[w1]
    \/ Withdrawal
    \/ Receipts
    \/ RecoveryStep /\ beneficiary'[w1] # owner[w1]

MarketSpec == MarketInit /\ [][MarketNext]_registryVars

MCSymmetry == Permutations(Slots)

=============================================================================
