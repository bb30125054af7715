---------------------------- MODULE TlaRegistry -----------------------------
(***************************************************************************)
(* The registry as a whole, with the contracts it calls: the managers mint *)
(* (TlaManager), the custody contracts move keys (WalletOwnership), tokens *)
(* answer balance queries, accounts are paid.                              *)
(***************************************************************************)
EXTENDS Marketplace, Rental, Reclaim, RegistryAdmin, TlaManager, Functions

CONSTANTS
    Prices,      \* prices a seller may ask
    Payments,    \* deposits a caller may attach
    Caps,        \* caps an admin may set for a Business TLA
    MaxMoney,    \* bound: the money payments may reach
    MaxTime      \* bound: the block time

ASSUME InputConstants ==
    /\ Prices \subseteq Nat /\ Payments \subseteq Nat /\ Caps \subseteq Nat
    /\ MaxMoney \in Nat /\ MaxTime \in Nat

-----------------------------------------------------------------------------
(* The contracts the registry calls.                                       *)

unchangedByOthers == <<tlas, nameVars, saleVars, reclaim_pending, anchorVars,
                       countVars, roleVars, configVars, tokenVars, now, overridden>>

\* signer_of
RunQuery(c) ==
    /\ Pending(c, "query")
    /\ \E result \in {owner[chains[c].wallet], "err"} : AnsweredWith(c, result)
    /\ UNCHANGED <<unchangedByOthers, funds, ownershipVars>>

GateAnswer(c, unread, result) ==
    chains' = [chains EXCEPT ![c] = [@ EXCEPT !.unread = unread, !.result = result]]

\* Variant: a query that fails counts as an empty balance.
RunBalances_open(c) ==
    /\ Pending(c, "balances")
    /\ \E token \in chains[c].unread :
          \/ GateAnswer(c, chains[c].unread \ {token},
                        IF chains[c].unread = {token} THEN "clear" ELSE "pending")
          \/ GateAnswer(c, {}, "blocked")
    /\ UNCHANGED <<unchangedByOthers, funds, ownershipVars>>

\* ft_balance_of on the tokens of the gate, one after another.  A balance
\* above zero blocks, and so does a query that fails or cannot be read;
\* what the others answer is of no account then.
RunBalances(c) ==
    /\ Pending(c, "balances")
    /\ \E token \in chains[c].unread :
          \/ /\ token \notin held[chains[c].wallet]
             /\ GateAnswer(c, chains[c].unread \ {token},
                           IF chains[c].unread = {token} THEN "clear" ELSE "pending")
          \/ GateAnswer(c, {}, "blocked")
    /\ UNCHANGED <<unchangedByOthers, funds, ownershipVars>>

\* force_transfer: "false" when the swap was refused (a frozen wallet, another
\* owner, no signer) or failed, "err" when the extension refused the call.
RunForceTransfer(c) ==
    /\ Pending(c, "transfer")
    /\ LET s == chains[c]
       IN  \/ /\ s.expected \in {None, owner[s.wallet]}
              /\ Sell(s.wallet, s.key)
              /\ AnsweredWith(c, "true")
           \/ /\ \E result \in {"false", "err"} : AnsweredWith(c, result)
              /\ UNCHANGED ownershipVars
    /\ UNCHANGED <<unchangedByOthers, funds>>

\* A transfer to an account that is gone fails and the amount comes back.
RunPayment(c) ==
    /\ Pending(c, "pay")
    /\ \/ AnsweredWith(c, "ok") /\ UNCHANGED funds
       \/ AnsweredWith(c, "err") /\ funds' = Receive(funds, chains[c].deposit)
    /\ UNCHANGED <<unchangedByOthers, ownershipVars>>

\* The extension ends a sweep: the deposit is back, or gone for good.
RunSweep(s) ==
    /\ \/ Return(s) /\ funds' = Receive(funds, SweepDeposit)
       \/ Keep(s) /\ UNCHANGED funds
    /\ UNCHANGED <<tlas, nameVars, saleVars, reclaim_pending, anchorVars, countVars,
                   roleVars, configVars, chains, ownershipVars, held, now, overridden>>

\* Tokens come to a wallet at any time; they leave by a transaction that the
\* wallet's owner, or a sweep, had signed.
TokenArrives(w, token) ==
    /\ held' = [held EXCEPT ![w] = @ \cup {token}]
    /\ UNCHANGED <<tlas, nameVars, saleVars, reclaim_pending, anchorVars, countVars, funds,
                   roleVars, configVars, chains, ownershipVars, depositVars, now, overridden>>

TokenLeaves(w, token) ==
    /\ owner[w] # None
    /\ held' = [held EXCEPT ![w] = @ \ {token}]
    /\ chains' = [c \in Slots |->
         IF InFlight(c) /\ chains[c].wallet = w
           THEN [chains[c] EXCEPT !.stuck = @ \ {token}]
           ELSE chains[c]]
    /\ UNCHANGED <<tlas, nameVars, saleVars, reclaim_pending, anchorVars, countVars, funds,
                   roleVars, configVars, ownershipVars, depositVars, now, overridden>>

TokenStep ==
    \E w \in Wallets, token \in Tokens : TokenArrives(w, token) \/ TokenLeaves(w, token)

\* What the custody contracts do of their own accord: recoveries, and the
\* owner's halt.
RecoveryStep ==
    /\ \E w \in Wallets : (\E k \in Keys : Hold(w, k)) \/ Recover(w) \/ Release(w)
    /\ UNCHANGED <<unchangedByOthers, funds, chains>>

HaltStep ==
    /\ \E w \in Wallets : Halt(w)
    /\ UNCHANGED <<unchangedByOthers, funds, chains>>

\* Block time.  A chain of receipts is over within a day, the shortest grace
\* period there is, so it sees the time advance at most once.
Tick ==
    /\ now < MaxTime
    /\ \A c \in Slots : InFlight(c) => ~chains[c].aged
    /\ now' = now + 1
    /\ chains' = [c \in Slots |->
         IF InFlight(c) THEN [chains[c] EXCEPT !.aged = TRUE] ELSE None]
    /\ UNCHANGED <<tlas, nameVars, saleVars, reclaim_pending, anchorVars, countVars,
                   funds, roleVars, configVars, ownershipVars, tokenVars, overridden>>

-----------------------------------------------------------------------------
(* The calls of each kind of user.                                         *)

\* A wallet can call only once it has a signer.
CanCall(u) == u \in Wallets => owner[u] # None

\* What claims and sweeps in flight took out may come back.
Attach(attached) ==
    funds.balance + attached
      + SumFunction([c \in Slots |-> IF Pending(c, "pay") THEN chains[c].deposit ELSE 0])
      + SweepDeposit * Cardinality({s \in Sweeps : sweep_status[s] = "out"})
    <= MaxMoney

Advertise(c, u, w, k) ==
    /\ CanCall(u)
    /\ \E price \in Prices :
          \/ list_sub_account(c, u, w, price, k)
          \/ \E buyer \in Users : accept_offer(c, u, w, buyer, price, k)

Purchase(c, u, w, k) ==
    /\ CanCall(u)
    /\ \/ \E paid \in Payments : Attach(paid) /\ buy_sub_account(c, u, w, k, paid)
       \/ \E buyer \in Users : buy_sub_account_paid(c, u, buyer, w, k)

Trade ==
    \E c \in Slots, u \in Users, w \in Wallets, k \in Keys :
        Advertise(c, u, w, k) \/ Purchase(c, u, w, k)

Withdrawal ==
    \E u \in Users, w \in Wallets :
        CanCall(u) /\ (unlist_sub_account(u, w) \/ revoke_offer(u, w))

RentName ==
    \E c \in Slots, u \in Users, w \in Wallets, k \in Keys, m \in Accounts, paid \in Payments :
        /\ CanCall(u)
        /\ Attach(paid)
        /\ \/ rent_sub_account(c, u, w, k, m, paid)
           \/ rent_sub_account_paid(c, u, w, k, m, paid)

KeepName ==
    \E u \in Users, w \in Wallets :
        /\ CanCall(u)
        /\ \/ \E paid \in Payments : Attach(paid) /\ renew_sub_account(u, w, paid)
           \/ \E m \in Accounts : set_main_wallet(u, w, m)
           \/ \E c \in Slots : retry_signer_install(c, u, w)

RunTla ==
    \E u \in Users, t \in Tlas, paid \in Payments :
        /\ CanCall(u)
        /\ Attach(paid)
        /\ activate_tla(u, t, paid) \/ renew_tla(u, t, paid)

Retract ==
    \E u \in Users, w \in Wallets :
        CanCall(u) /\ (schedule_retraction(u, w) \/ cancel_retraction(u, w))

Anchor == \E u \in Users, w \in Wallets : CanCall(u) /\ set_mother(u, w)

Reclaiming == \E c \in Slots, w \in Wallets : reclaim_finalize(c, w)

Sweeping ==
    \/ \E s \in Sweeps, u \in Users, w \in Wallets, ft \in Tokens, paid \in Payments :
          CanCall(u) /\ Attach(paid) /\ reclaim_sweep_ft(s, u, w, ft, paid)
    \/ \E s \in Sweeps : RunSweep(s)

Claiming == \E c \in Slots, u \in Users : CanCall(u) /\ claim_refund(c, u)

AdminRoles ==
    \E caller \in Admins :
        \/ pause(caller) \/ unpause(caller)
        \/ \E a \in Admins : add_admin(caller, a) \/ remove_admin(caller, a)
        \/ \E u \in Users :
              add_payment_authority(caller, u) \/ remove_payment_authority(caller, u)

AdminConfig ==
    \E caller \in Admins :
        \/ \E config \in FeeConfigs : update_fee_config(caller, config)
        \/ \E k \in Keys : set_parked_signer_pubkey(caller, k)
        \/ \E token \in Tokens :
              add_ft_allowlist(caller, token) \/ remove_ft_allowlist(caller, token)
        \/ \E t \in Tlas, cap \in Caps \cup {None} : set_business_sub_cap(caller, t, cap)

AdminTlas ==
    \E caller \in Admins, t \in Tlas :
        \/ \E tla_type \in TlaType, premium \in PremiumCategory, licensee \in Users \cup {None} :
              register_tla(caller, t, tla_type, premium, licensee)
        \/ suspend_tla(caller, t) \/ unsuspend_tla(caller, t)
        \/ activate_open_tla(caller, t)

AdminOverrides ==
    \E caller \in Admins :
        \/ \E w \in Wallets :
              admin_clear_settling(caller, w) \/ admin_clear_reclaim_pending(caller, w)
        \/ \E u \in Users : admin_clear_mother(caller, u)

AdminMoney ==
    \E caller \in Admins, amount \in 1..MaxMoney, u \in Users :
        withdraw(caller, amount, u)

-----------------------------------------------------------------------------

RunExternal(c) ==
    \/ RunQuery(c) \/ RunBalances(c) \/ RunForceTransfer(c) \/ RunPayment(c)
    \/ ManagerStep(c)

RunCallback(c) ==
    \/ on_listing_verified(c) \/ on_offer_verified(c)
    \/ on_buy_balances_checked(c) \/ on_buy_paid_balances_checked(c)
    \/ on_sub_account_sold(c) \/ on_sub_account_sold_paid(c)
    \/ on_sub_account_created(c) \/ on_sub_account_created_paid(c)
    \/ on_re_rent_balances_checked(c) \/ on_sub_account_re_rented(c)
    \/ on_retry_signer_settled(c)
    \/ on_balances_checked(c) \/ on_reclaim_finalized(c)
    \/ on_claim_refund_settled(c)

RunReceipt(c) == RunExternal(c) \/ RunCallback(c)

Receipts == \E c \in Slots : RunReceipt(c)

RegistryNext ==
    \/ Trade \/ Withdrawal \/ RentName \/ KeepName \/ RunTla \/ Retract \/ Anchor
    \/ Reclaiming \/ Sweeping \/ Claiming
    \/ AdminRoles \/ AdminConfig \/ AdminTlas \/ AdminOverrides \/ AdminMoney
    \/ Receipts \/ RecoveryStep \/ HaltStep \/ TokenStep \/ Tick

\* NEAR delivers every receipt and runs the callback chained to it.
Delivery == \A c \in Slots : WF_registryVars(RunReceipt(c))

RegistrySpec == RegistryInit /\ [][RegistryNext]_registryVars /\ Delivery

-----------------------------------------------------------------------------
(* Properties.                                                             *)

ChainRecord ==
    [kind : Kind, method : Method,
     result : {"pending", "clear", "blocked", "true", "false", "ok", "err", "Active",
               "SignerPending", "CreationFailed", None} \cup Keys,
     wallet : Wallets \cup {None}, user : Users \cup {None}, other : Users \cup {None},
     key : KeyOrNone, expected : KeyOrNone, price : Nat, deposit : Nat, funding : Nat,
     aged : BOOLEAN, unread : SUBSET Tokens, stuck : SUBSET Tokens]

\* An absent entry is none of the entries, a failed query no key.
ASSUME RegistryNone ==
    /\ None \notin TlaEntry /\ None \notin SubAccountEntry
    /\ None \notin Listing /\ None \notin AcceptedOffer
    /\ None \notin ChainRecord
    /\ "err" \notin Keys

RegistryTypeOK ==
    /\ tlas \in [Tlas -> TlaEntry \cup {None}]
    /\ sub_accounts \in [Wallets -> SubAccountEntry \cup {None}]
    /\ parked_names \subseteq Wallets
    /\ signer_pending \in [Wallets -> KeyOrNone]
    /\ listings \in [Wallets -> Listing \cup {None}]
    /\ accepted_offers \in [Wallets -> AcceptedOffer \cup {None}]
    /\ reclaim_pending \subseteq Wallets
    /\ mothers \in [Accounts -> Accounts \cup {None}]
    /\ mother_use_count \in [Accounts -> Nat]
    /\ business_sub_count \in [Tlas -> Nat]
    /\ sub_account_count \in Nat
    /\ funds \in [refunds : [Accounts -> Nat], total_refunds : Nat,
                  revenue : Nat, balance : Nat]
    /\ paused \in BOOLEAN
    /\ admins \subseteq Admins
    /\ payment_authorities \subseteq Users
    /\ ft_allowlist \subseteq Tokens
    /\ fee_config \in FeeConfigs
    /\ parked_signer_pubkey \in Keys
    /\ business_sub_cap_override \in [Tlas -> Nat \cup {None}]
    /\ chains \in [Slots -> ChainRecord \cup {None}]
    /\ held \in [Wallets -> SUBSET Tokens]
    /\ now \in Nat
    /\ overridden \subseteq Wallets
    /\ owner \in [Wallets -> KeyOrNone]

\* The chains in flight on a wallet, by what they are for.
ChainsOn(w, kinds) ==
    {c \in Slots : InFlight(c) /\ chains[c].wallet = w /\ chains[c].kind \in kinds}

SalesOf(w)    == ChainsOn(w, {"buy", "buy_paid"})
ReclaimsOf(w) == ChainsOn(w, {"reclaim"})

\* A sale and a reclaim hold their locks exactly while they are in flight
\* (buy_sub_account, buy_sub_account_paid, on_listing_verified,
\* on_offer_verified, reclaim_finalize and the callbacks that settle them):
\* never two sales, or two reclaims, of one name; no lock left behind, and
\* none lifted early by a listing or an offer verified during a settlement.
\* An admin who clears the lock of a chain in flight takes this upon himself.
LocksHeldInFlight ==
    \A w \in Wallets \ overridden :
        /\ SalesOf(w) # {} <=> ~SaleIdle(w)
        /\ ReclaimsOf(w) # {} <=> w \in reclaim_pending
        /\ \A c, d \in SalesOf(w) : c = d
        /\ \A c, d \in ReclaimsOf(w) : c = d

\* A sale and a reclaim never move the same name at once: while a reclaim has
\* its re-keying call out, no sale of that name is in flight
\* (reclaim_finalize, on_balances_checked, assert_sellable; the lock and the
\* lifecycle together).
SaleAndReclaimApart ==
    \A w \in Wallets \ overridden :
        \A c \in ReclaimsOf(w) :
            chains[c].method \in Rekeying => SalesOf(w) = {}

\* The seller of a sale in flight stays the registered owner and the name
\* stays rented until the sale settles (renewals, set_main_wallet, reclaims
\* and mints of the name included), so the price goes to whom the buyer
\* bought from.  A name that is being re-rented has no settled owner yet.
SellerStep ==
    \A w \in Wallets \ (overridden \cup parked_names) :
        \A c \in SalesOf(w) :
            chains'[c] # None =>
                /\ sub_accounts'[w] # None
                /\ sub_accounts'[w].owner = sub_accounts[w].owner
                /\ sub_accounts'[w].main_wallet = sub_accounts[w].main_wallet

SellerStaysInSale == [][SellerStep]_registryVars

\* What the registry still owes to a chain in flight, beyond the deposit
\* that left with the chain.
Due(c) ==
    CASE ~InFlight(c) -> 0
      [] InFlight(c) /\ chains[c].kind = "claim" ->
           IF chains[c].result = "err" THEN chains[c].deposit ELSE 0
      [] OTHER -> chains[c].deposit - chains[c].funding

\* Every yocto the registry holds is owed to somebody, is revenue, belongs to
\* a chain in flight or is the deposit of a sweep that came back, and the
\* running total of the refunds is their sum
\* (add_pending_refund, the settlement callbacks, settle_failed_mint,
\* record_rental, withdraw, claim_refund): nothing is paid twice and nothing
\* is left behind, in any order of settlements, failures and claims.
EveryYoctoAccounted ==
    /\ funds.total_refunds = SumFunction(funds.refunds)
    /\ funds.balance = funds.total_refunds + funds.revenue
                         + SumFunction([c \in Slots |-> Due(c)]) + sweep_back

MintKinds == {"mint", "mint_paid"}

\* What a mint answers that created nothing.
Failures == {"err", "CreationFailed"}

\* A mint that holds the deposit: it is under way or made the account.
Minted(c) ==
    InFlight(c) /\ chains[c].kind \in MintKinds /\ chains[c].result \notin Failures

\* While a mint holds its deposit, an admin does not lower the deposit that
\* its callback will charge (update_fee_config does not look at the mints).
DepositNotLowered ==
    (\E c \in Slots : Minted(c)) =>
        fee_config'.account_creation_deposit >= fee_config.account_creation_deposit

\* What the registry holds covers the refunds, the revenue, what the chains
\* in flight are owed and the deposits that came back (withdraw,
\* claim_refund, the settlement callbacks, record_rental), even when the
\* creation deposit is raised under a mint: no payment bounces.
EveryClaimCovered ==
    funds.balance >= funds.total_refunds + funds.revenue
                       + SumFunction([c \in Slots |-> Due(c)]) + sweep_back

\* A wallet is re-keyed for a sale, a reclaim or a re-rent only if every token
\* of the gate was seen off it (ft_balance_fanout, ft_balances_clear and the
\* callbacks of the gate): a token that lies on the wallet from the start of
\* the gate on, because a sweep was refused, not signed or never sent, blocks
\* the move, in whichever order the balances are read and whatever comes and
\* goes meanwhile.
UnsweptTokensBlock ==
    \A c \in Slots :
        InFlight(c) /\ chains[c].method \in Rekeying => chains[c].stuck = {}

\* The counters agree with the names (count_check_and_bump, record_rental,
\* on_sub_account_re_rented, settle_failed_mint, on_reclaim_finalized): a
\* Business TLA counts its names from the moment they are entered, the
\* registry from the moment they are minted, whatever failed in between.
CountsAgree ==
    overridden = {} =>
        /\ \A t \in Tlas :
              tlas[t] # None /\ IsBusiness(t) =>
                business_sub_count[t] = Cardinality({w \in Wallets : TlaOf[w] = t /\ Rented(w)})
        /\ sub_account_count
             + Cardinality({c \in Slots : InFlight(c)
                              /\ chains[c].kind \in {"mint", "mint_paid", "rerent"}})
             = Cardinality({w \in Wallets : Rented(w)})

\* Once nothing is in flight for a rented name, the registry waits for its
\* signer exactly when the active signer has none (on_sub_account_created,
\* retry_signer_install, park_wallet): retries and reclaims that race for the
\* one installation never leave the two contracts apart.
SignerPendingAgrees ==
    \A w \in Wallets \ overridden :
        /\ Rented(w)
        /\ ChainsOn(w, Kind) = {}
        => (signer_pending[w] = None <=> owner[w] # None)

\* A rented name that somebody anchors to is counted as a mother, so it is
\* neither sold nor reclaimed from under them (ensure_mother_default,
\* set_mother, admin_clear_mother, on_reclaim_finalized).
AnchorsAreCounted ==
    \A w \in Wallets :
        Rented(w) => mother_use_count[w] >= Cardinality({u \in Users : mothers[u] = w})

\* A TLA is registered for good, with one type, category and licensee; no
\* suspension, renewal or sale shortens a lease (register_tla, suspend_tla,
\* unsuspend_tla, activate_tla, activate_open_tla, renew_tla,
\* renew_sub_account, the settlement callbacks).
LeaseStep ==
    /\ \A t \in Tlas :
          tlas[t] # None =>
            /\ tlas'[t] # None
            /\ tlas'[t].expires_at >= tlas[t].expires_at
            /\ tlas'[t].tla_type = tlas[t].tla_type
            /\ tlas'[t].premium_category = tlas[t].premium_category
            /\ tlas'[t].licensee = tlas[t].licensee
    /\ \A w \in Wallets :
          Rented(w) /\ sub_accounts'[w] # None =>
            sub_accounts'[w].expires_at >= sub_accounts[w].expires_at

LeasesNeverShrink == [][LeaseStep]_registryVars

\* A chain about the name that was in flight comes to its end.
SettlesOn(w) ==
    \E c \in Slots : InFlight(c) /\ chains[c].wallet = w /\ chains'[c] = None

\* The name is as it was; an admin may have taken its locks off.
NameStands(w) ==
    /\ sub_accounts'[w] = sub_accounts[w]
    /\ signer_pending'[w] = signer_pending[w]
    /\ w \in parked_names' <=> w \in parked_names
    /\ listings'[w] \in {listings[w], Unlocked(listings[w])}
    /\ accepted_offers'[w] \in {accepted_offers[w], Unlocked(accepted_offers[w])}
    /\ w \in reclaim_pending' => w \in reclaim_pending

\* The TLA has the lease it had, unless it is one that admins activate.
LeaseStands(t) ==
    tlas[t] # None =>
        \/ tlas'[t].expires_at = tlas[t].expires_at
        \/ tlas[t].status = "Registered" /\ ~IsBusiness(t)

\* While the registry is paused its users start nothing but the payment of
\* their refunds: no chain and no sweep begins, no name changes but by the
\* settlement of a chain about it, no TLA is activated or renewed by its
\* licensee, nobody takes a mother, and nothing is earned outside the
\* settlements (every method that calls assert_not_paused, against every
\* callback, which must not, and every admin method).
PauseStep ==
    paused =>
        /\ \A c \in Slots : ~InFlight(c) /\ chains'[c] # None => chains'[c].kind = "claim"
        /\ \A s \in Sweeps : sweep_status[s] = "unused" => sweep_status'[s] = "unused"
        /\ \A w \in Wallets : SettlesOn(w) \/ NameStands(w)
        /\ \A t \in Tlas : LeaseStands(t)
        /\ \A a \in Accounts : mothers'[a] \in {mothers[a], None}
        /\ funds'.revenue > funds.revenue => \E w \in Wallets : SettlesOn(w)

PauseStopsNewWork == [][PauseStep]_registryVars

\* Locks are released: a sale or a reclaim that was started settles, through
\* whatever failures (the settlement callbacks, on_balances_checked,
\* on_reclaim_finalized).
LocksReleased ==
    \A w \in Wallets :
        /\ ~SaleIdle(w) ~> SaleIdle(w)
        /\ w \in reclaim_pending ~> w \notin reclaim_pending

-----------------------------------------------------------------------------
(* What the documentation and the tests say of the registry.               *)

\* "a tenant cannot grief-lock an expired name past its lease": no reference
\* to a name as a mother outlives its lease in a way that blocks the reclaim
\* (set_mother, ensure_mother_default, resolve_reclaimable).
ExpiredNameIsFree ==
    \A w \in Wallets :
        /\ Rented(w)
        /\ ChainsOn(w, Kind) = {}
        /\ effective_sub_lifecycle(w) = "Reclaimable"
        => ExternalRefs(w) = 0

\* "park must rotate the wallet owner to the parked signer key": a name that
\* the registry has parked is under the parked key (on_reclaim_finalized).
ParkedUnderParkedKey ==
    \A w \in parked_names :
        ChainsOn(w, Kind) = {} => owner[w] = parked_signer_pubkey

\* "the settlement compare-and-swap remains the authoritative guard": a swap
\* without an expected owner is only ever out for the registered tenant
\* (rent_sub_account, re_rent_transfer, on_sub_account_sold).
ReRentIsForTheTenant ==
    \A w \in Wallets :
        \A c \in ChainsOn(w, {"rerent"}) :
            Rented(w) /\ sub_accounts[w].owner = chains[c].user

=============================================================================
