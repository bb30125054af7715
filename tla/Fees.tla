-------------------------------- MODULE Fees --------------------------------
(***************************************************************************)
(* contracts/tla-registry/src/fees.rs: rents by the length of a name, the  *)
(* premium of a TLA, and the split of a resale price.  Amounts are 128-bit *)
(* and saturate at MaxAmount.                                              *)
(***************************************************************************)
EXTENDS Naturals

CONSTANTS
    MaxAmount   \* u128::MAX

ASSUME FeeConstants == MaxAmount \in Nat

saturating_mul(a, b) == IF a * b > MaxAmount THEN MaxAmount ELSE a * b
saturating_sub(a, b) == IF a > b THEN a - b ELSE 0

PremiumCategory == {"Legendary", "Premium", "Standard", "Community"}

TlaType == {"Business", "Open"}

\* PremiumCategory::multiplier
MultiplierNum(premium) ==
    CASE premium = "Legendary" -> 5
      [] premium \in {"Premium", "Standard"} -> 3
      [] OTHER -> 0

MultiplierDen(premium) == IF premium = "Standard" THEN 2 ELSE 1

base_rent(total_len, config) ==
    CASE total_len <= 5       -> config.rent_tier_5
      [] total_len \in 6..8   -> config.rent_tier_8
      [] total_len \in 9..10  -> config.rent_tier_10
      [] OTHER                -> config.rent_tier_12plus

sub_account_rent(total_len, premium, config) ==
    saturating_mul(base_rent(total_len, config), MultiplierNum(premium))
        \div MultiplierDen(premium)

calculate_rent(tla, total_len, config) ==
    IF tla.tla_type = "Business"
      THEN config.sub_fee_per_account
      ELSE sub_account_rent(total_len, tla.premium_category, config)

\* split_resale: what the registry keeps of a price, and what the seller gets.
Commission(price, bps) ==
    LET share == saturating_mul(price, bps) \div 10000
    IN  IF share > price THEN price ELSE share

SellerProceeds(price, bps) == saturating_sub(price, Commission(price, bps))

=============================================================================
