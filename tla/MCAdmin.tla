------------------------------ MODULE MCAdmin -------------------------------
(* The registry from its deployment: its roles, its configuration, its     *)
(* TLAs and a name, what is paid for them while the tariff changes, and    *)
(* the ways money leaves it.                                               *)
EXTENDS TlaRegistry, TLC

CONSTANTS w1, tla1, u1, u2, pk, ft1

MCWallets    == {w1}
MCTlas       == {tla1}
MCUsers      == {u1, u2}
MCAdmins     == {u1, u2}
MCKeys       == {pk}
MCTlaOf      == w1 :> tla1
MCNameLength == (w1 :> 12) @@ (tla1 :> 8)

\* Two tariffs: the fee for a TLA and the creation deposit differ.
Tariff(fee) ==
    [tla_allocation_fee |-> fee, rent_tier_5 |-> 1, rent_tier_8 |-> 1, rent_tier_10 |-> 1,
     rent_tier_12plus |-> 1, sub_fee_per_account |-> 0, account_creation_deposit |-> 1 + fee,
     business_max_subs |-> 1, retraction_notice_ns |-> 2, resale_commission_bps |-> 0]

MCFeeConfigs == {Tariff(0), Tariff(1)}

AdminInit == RegistryInit /\ fee_config = Tariff(0)

\* The TLA is registered as a Business TLA of u2 or as an Open one.  The
\* deposit may be raised at any time, and lowered when no mint holds one.
\* Once u2 has rented, time stands still, and neither the tokens nor the caps,
\* which are nothing to the money, change.
AdminNext ==
    \/ AdminRoles /\ payment_authorities' \subseteq {u2}
    \/ /\ AdminConfig
       /\ DepositNotLowered
       /\ mothers[u2] # None => UNCHANGED <<ft_allowlist, business_sub_cap_override>>
    \/ AdminTlas /\ (tlas[tla1] = None => /\ tlas'[tla1].premium_category = "Standard"
                                          /\ tlas'[tla1].licensee # u1)
    \/ AdminMoney
    \/ RunTla
    \/ \E c \in Slots, paid \in Payments :
          /\ now = 0 /\ ft_allowlist = {} /\ business_sub_cap_override[tla1] = None
          /\ Attach(paid)
          /\ \/ rent_sub_account(c, u2, w1, pk, u2, paid)
             \/ rent_sub_account_paid(c, u2, w1, pk, u2, paid)
    \/ Anchor
    \/ Retract
    \/ \E c \in Slots : retry_signer_install(c, u2, w1)
    \/ Claiming
    \/ Receipts
    \/ mothers[u2] = None /\ Tick

AdminSpec == AdminInit /\ [][AdminNext]_registryVars

=============================================================================
