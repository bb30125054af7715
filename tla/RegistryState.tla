--------------------------- MODULE RegistryState ----------------------------
(***************************************************************************)
(* contracts/tla-registry: the state of the registry, shared by the        *)
(* modules that follow its source files (Marketplace, Rental, Reclaim,     *)
(* RegistryAdmin), and the helpers of lib.rs, types.rs and mother.rs.      *)
(*                                                                         *)
(* The keys of the wallets live in the custody contracts.  The registry    *)
(* sees them through WalletOwnership, the specification those contracts    *)
(* are proved to implement (CustodyProofs), and the deposits of sweeps     *)
(* through SweepDeposits, which the extension implements (TokenSweep).     *)
(*                                                                         *)
(* A method that calls another contract starts a chain of receipts.  An    *)
(* element of `chains' is the call of the chain that is due (`method'),    *)
(* its answer once it has run (`result'), and the arguments the next       *)
(* callback was given; the callback runs later, in any order with          *)
(* everything else.                                                        *)
(*                                                                         *)
(* Abstracted: validate_name and the building of names (a wallet is its    *)
(* name), rented_at, activated_at, parked_at and the sweep destination     *)
(* (written, never read by a method), the one yocto some methods ask for,  *)
(* events, storage costs in available_balance.  Amounts never saturate     *)
(* upwards: the supply of NEAR is far below 2^128 yocto.                   *)
(***************************************************************************)
EXTENDS WalletOwnership, SweepDeposits, Fees

CONSTANTS
    Users,       \* accounts that call the registry
    Tlas,        \* top-level accounts
    TlaOf,       \* wallet -> the TLA it is under
    NameLength,  \* wallet or TLA -> the length that sets its rent
    Tokens,      \* fungible tokens an admin may allow-list
    FeeConfigs,  \* fee configurations an admin may set
    Year,        \* ONE_YEAR_NS
    Grace,       \* grace_period_ns, fixed at deployment
    Slots        \* bound: the chains of receipts in flight at the same time

VARIABLES
    tlas, sub_accounts, parked_names, signer_pending,
    listings, accepted_offers, reclaim_pending,
    mothers, mother_use_count,
    business_sub_count, sub_account_count,
    funds,       \* pending_refunds, their total, total_revenue, the balance
    paused, admins, payment_authorities, ft_allowlist, fee_config,
    parked_signer_pubkey, business_sub_cap_override,
    chains,      \* slot -> chain of receipts, or None
    held,        \* wallet -> the tokens it has a balance of
    now,         \* block time
    overridden   \* history: wallets with a lock an admin cleared in flight

nameVars   == <<sub_accounts, parked_names, signer_pending>>
saleVars   == <<listings, accepted_offers>>
anchorVars == <<mothers, mother_use_count>>
countVars  == <<business_sub_count, sub_account_count>>
roleVars   == <<paused, admins, payment_authorities>>
configVars == <<ft_allowlist, fee_config, parked_signer_pubkey,
                business_sub_cap_override>>
tokenVars  == <<held, depositVars>>
worldVars  == <<ownershipVars, tokenVars, now, overridden>>

registryVars == <<tlas, nameVars, saleVars, reclaim_pending, anchorVars, countVars,
                  funds, roleVars, configVars, chains, worldVars>>

Accounts == Users \cup Wallets

FeeConfig == [tla_allocation_fee : Nat, rent_tier_5 : Nat, rent_tier_8 : Nat,
              rent_tier_10 : Nat, rent_tier_12plus : Nat, sub_fee_per_account : Nat,
              account_creation_deposit : Nat, business_max_subs : Nat,
              retraction_notice_ns : Nat, resale_commission_bps : Nat]

TlaEntry == [tla_type : TlaType,
             status : {"Registered", "Active", "Suspended"},
             licensee : Users \cup {None},
             premium_category : PremiumCategory,
             expires_at : Nat]

SubAccountEntry == [owner : Users, main_wallet : Accounts,
                    expires_at : Nat, retraction_at : Nat \cup {None}]

Listing       == [price : Nat, settling : BOOLEAN, owner_key : Keys]
AcceptedOffer == [buyer : Users, price : Nat, settling : BOOLEAN, owner_key : Keys]

Kind == {"list", "offer", "buy", "buy_paid", "mint", "mint_paid", "rerent",
         "reclaim", "retry", "claim"}

Method == {"query", "balances", "transfer", "create", "derive", "account",
           "install", "return", "retry_install", "retry_key", "pay"}

\* The calls that come after the asset gate: the wallet gets another key.
Rekeying == {"transfer", "retry_install", "retry_key"}

ASSUME RegistryConstants ==
    /\ Admins \subseteq Users
    /\ TlaOf \in [Wallets -> Tlas]
    /\ NameLength \in [Wallets \cup Tlas -> Nat]
    /\ FeeConfigs \subseteq FeeConfig
    /\ Year \in Nat \ {0} /\ Grace \in Nat \ {0}
    /\ \A a \in Accounts : a # None

-----------------------------------------------------------------------------
(* Chains of receipts.                                                     *)

\* A chain that starts at the asset gate takes the allowlist of the moment
\* along.  `unread' are the balances still to be read; `stuck' is history:
\* the tokens of the gate that have been on the wallet ever since.
Chain(kind, method, w) ==
    [kind |-> kind, method |-> method, result |-> "pending", wallet |-> w,
     user |-> None, other |-> None, key |-> None, expected |-> None,
     price |-> 0, deposit |-> 0, funding |-> 0, aged |-> FALSE,
     unread |-> IF method = "balances" THEN ft_allowlist ELSE {},
     stuck  |-> IF method = "balances" THEN ft_allowlist \cap held[w] ELSE {}]

InFlight(c) == chains[c] # None

Start(c, chain) == ~InFlight(c) /\ chains' = [chains EXCEPT ![c] = chain]
End(c)          == chains' = [chains EXCEPT ![c] = None]

\* The next call of the chain goes out.
Proceed(c, method) ==
    chains' = [chains EXCEPT ![c] = [@ EXCEPT !.method = method, !.result = "pending"]]

\* The call that is due has run.
AnsweredWith(c, result) == chains' = [chains EXCEPT ![c] = [@ EXCEPT !.result = result]]

Pending(c, method) ==
    InFlight(c) /\ chains[c].method = method /\ chains[c].result = "pending"

CallbackDue(c, kinds, methods) ==
    /\ InFlight(c)
    /\ chains[c].kind \in kinds
    /\ chains[c].method \in methods
    /\ chains[c].result # "pending"

\* ft_balance_fanout: with an empty allowlist there is no gate to pass.
GateMethod == IF ft_allowlist = {} THEN "transfer" ELSE "balances"

-----------------------------------------------------------------------------
(* Money.                                                                  *)

Receive(f, amount) == [f EXCEPT !.balance = @ + amount]
Spend(f, amount)   == [f EXCEPT !.balance = @ - amount]
Earn(f, amount)    == [f EXCEPT !.revenue = @ + amount]

\* add_pending_refund
Refund(f, u, amount) ==
    [f EXCEPT !.refunds[u] = @ + amount, !.total_refunds = @ + amount]

refund_excess(f, payer, attached, charged) ==
    Refund(f, payer, saturating_sub(attached, charged))

-----------------------------------------------------------------------------
(* Lifecycles.                                                             *)

time_lifecycle(expires_at) ==
    CASE now < expires_at -> "Active"
      [] expires_at <= now /\ now < expires_at + Grace -> "Grace"
      [] OTHER -> "Reclaimable"

TlaLifecycle(t) ==
    IF tlas[t].status = "Active" THEN time_lifecycle(tlas[t].expires_at)
                                 ELSE tlas[t].status

is_accepting_rentals(t) ==
    /\ tlas[t] # None
    /\ tlas[t].status = "Active"
    /\ now < tlas[t].expires_at

Rented(w)     == sub_accounts[w] # None
Tla(w)        == tlas[TlaOf[w]]
IsBusiness(t) == tlas[t].tla_type = "Business"

effective_sub_lifecycle(w) ==
    LET retraction == sub_accounts[w].retraction_at
    IN  IF \/ TlaLifecycle(TlaOf[w]) = "Reclaimable"
           \/ /\ retraction # None
              /\ now >= retraction + fee_config.retraction_notice_ns
          THEN "Reclaimable"
          ELSE time_lifecycle(sub_accounts[w].expires_at)

Renewed(expires_at) == (IF now > expires_at THEN now ELSE expires_at) + Year

-----------------------------------------------------------------------------
(* Business TLAs are capped.                                               *)

effective_business_cap(t) ==
    IF business_sub_cap_override[t] # None THEN business_sub_cap_override[t]
                                           ELSE fee_config.business_max_subs

business_count_check_and_bump(t) ==
    /\ IsBusiness(t) => business_sub_count[t] < effective_business_cap(t)
    /\ business_sub_count' =
         IF IsBusiness(t) THEN [business_sub_count EXCEPT ![t] = @ + 1]
                          ELSE business_sub_count

business_count_decrement_if_business(t) ==
    business_sub_count' =
      IF IsBusiness(t) THEN [business_sub_count EXCEPT ![t] = saturating_sub(@, 1)]
                       ELSE business_sub_count

-----------------------------------------------------------------------------
(* Mothers: the account a user anchors their names to.  The use count of a *)
(* name is kept only while the registry manages it.                        *)

Managed(a) == a \in Wallets /\ Rented(a)

increment_mother_use(count, a) == [count EXCEPT ![a] = @ + 1]
decrement_mother_use(count, a) == [count EXCEPT ![a] = saturating_sub(@, 1)]

ensure_mother_default(u) ==
    IF mothers[u] # None
      THEN UNCHANGED anchorVars
      ELSE /\ mothers' = [mothers EXCEPT ![u] = u]
           /\ mother_use_count' = IF Managed(u)
                                    THEN increment_mother_use(mother_use_count, u)
                                    ELSE mother_use_count

-----------------------------------------------------------------------------
(* The lock a sale holds.                                                  *)

\* Variant: the lock of an accepted offer is not looked at.
SaleIdle_listing(w) == listings[w] # None => ~listings[w].settling

SaleIdle(w) ==
    /\ listings[w] # None => ~listings[w].settling
    /\ accepted_offers[w] # None => ~accepted_offers[w].settling

Unlocked(entry) == IF entry = None THEN None ELSE [entry EXCEPT !.settling = FALSE]

clear_settling(w) ==
    /\ listings' = [listings EXCEPT ![w] = Unlocked(@)]
    /\ accepted_offers' = [accepted_offers EXCEPT ![w] = Unlocked(@)]

-----------------------------------------------------------------------------

\* Everything but the TLAs, the names, their counters and their keys.
EmptyBooks ==
    /\ parked_names = {}
    /\ signer_pending = [w \in Wallets |-> None]
    /\ listings = [w \in Wallets |-> None]
    /\ accepted_offers = [w \in Wallets |-> None]
    /\ reclaim_pending = {}
    /\ mother_use_count = [a \in Accounts |-> 0]
    /\ funds = [refunds |-> [a \in Accounts |-> 0], total_refunds |-> 0,
                revenue |-> 0, balance |-> 0]
    /\ paused = FALSE
    /\ admins = {FirstAdmin}
    /\ fee_config \in FeeConfigs
    /\ parked_signer_pubkey \in Keys
    /\ business_sub_cap_override = [t \in Tlas |-> None]
    /\ chains = [c \in Slots |-> None]
    /\ held = [w \in Wallets |-> {}]
    /\ DepositsInit
    /\ now = 0
    /\ overridden = {}

RegistryInit ==
    /\ OwnershipInit
    /\ EmptyBooks
    /\ tlas = [t \in Tlas |-> None]
    /\ sub_accounts = [w \in Wallets |-> None]
    /\ mothers = [a \in Accounts |-> None]
    /\ business_sub_count = [t \in Tlas |-> 0]
    /\ sub_account_count = 0
    /\ payment_authorities = {}
    /\ ft_allowlist = {}

=============================================================================
