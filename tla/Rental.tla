------------------------------- MODULE Rental -------------------------------
(***************************************************************************)
(* contracts/tla-registry/src/rental.rs and callbacks.rs: a name is        *)
(* entered in the registry when its rent is paid, and only then minted     *)
(* (or, when it was parked, re-keyed); the callback of that chain keeps    *)
(* the entry or takes it out again and books the payment back.             *)
(***************************************************************************)
EXTENDS RegistryState

CONSTANTS
    MaxLease     \* bound: the expiry renewals may reach

ASSUME RentalConstants == MaxLease \in Nat

Rent(w)    == calculate_rent(Tla(w), NameLength[w], fee_config)
TlaRent(t) == base_rent(NameLength[t], fee_config)

-----------------------------------------------------------------------------
(* TLAs.                                                                   *)

\* Variant: a paused registry still activates TLAs.
activate_tla_paused(caller, t, attached) ==
    /\ LET required == fee_config.tla_allocation_fee + TlaRent(t)
       IN  /\ attached >= required
           /\ funds' = refund_excess(Earn(Receive(funds, attached), required),
                                     caller, attached, required)
    /\ tlas[t] # None
    /\ tlas[t].status = "Registered"
    /\ IsBusiness(t)
    /\ caller = tlas[t].licensee
    /\ tlas' = [tlas EXCEPT ![t] = [@ EXCEPT !.status = "Active",
                                             !.expires_at = now + Year]]
    /\ UNCHANGED <<nameVars, saleVars, reclaim_pending, anchorVars, countVars,
                   roleVars, configVars, chains, worldVars>>

activate_tla(caller, t, attached) ==
    /\ ~paused
    /\ LET required == fee_config.tla_allocation_fee + TlaRent(t)
       IN  /\ attached >= required
           /\ funds' = refund_excess(Earn(Receive(funds, attached), required),
                                     caller, attached, required)
    /\ tlas[t] # None
    /\ tlas[t].status = "Registered"
    /\ IsBusiness(t)
    /\ caller = tlas[t].licensee
    /\ tlas' = [tlas EXCEPT ![t] = [@ EXCEPT !.status = "Active",
                                             !.expires_at = now + Year]]
    /\ UNCHANGED <<nameVars, saleVars, reclaim_pending, anchorVars, countVars,
                   roleVars, configVars, chains, worldVars>>

renew_tla(caller, t, attached) ==
    /\ ~paused
    /\ tlas[t] # None
    /\ tlas[t].status = "Active"
    /\ now < tlas[t].expires_at + Grace
    /\ IF IsBusiness(t) THEN caller = tlas[t].licensee ELSE caller \in admins
    /\ attached >= TlaRent(t)
    /\ Renewed(tlas[t].expires_at) <= MaxLease
    /\ tlas' = [tlas EXCEPT ![t].expires_at = Renewed(@)]
    /\ funds' = refund_excess(Earn(Receive(funds, attached), TlaRent(t)),
                              caller, attached, TlaRent(t))
    /\ UNCHANGED <<nameVars, saleVars, reclaim_pending, anchorVars, countVars,
                   roleVars, configVars, chains, worldVars>>

-----------------------------------------------------------------------------
(* Names.                                                                  *)

NewEntry(owner_account, main_wallet) ==
    [owner |-> owner_account, main_wallet |-> main_wallet,
     expires_at |-> now + Year, retraction_at |-> None]

\* What both ways of renting do once they are allowed to.
Enter(w, payer, main_wallet) ==
    /\ ensure_mother_default(payer)
    /\ business_count_check_and_bump(TlaOf[w])
    /\ sub_accounts' = [sub_accounts EXCEPT ![w] = NewEntry(payer, main_wallet)]

rent_sub_account(c, caller, w, owner_key, main_wallet, attached) ==
    LET re_rent  == w \in parked_names
        creation == IF re_rent THEN 0 ELSE fee_config.account_creation_deposit
    IN  /\ ~paused
        /\ ~Rented(w)
        /\ main_wallet # w
        /\ is_accepting_rentals(TlaOf[w])
        /\ IsBusiness(TlaOf[w]) => caller = Tla(w).licensee
        /\ attached >= Rent(w) + creation
        /\ Enter(w, caller, main_wallet)
        /\ Start(c, [Chain(IF re_rent THEN "rerent" ELSE "mint",
                           IF re_rent THEN GateMethod ELSE "create", w) EXCEPT
                       !.user = caller, !.key = owner_key, !.price = Rent(w),
                       !.deposit = attached, !.funding = creation])
        /\ funds' = Spend(Receive(funds, attached), creation)
        /\ UNCHANGED <<tlas, parked_names, signer_pending, saleVars, reclaim_pending,
                       sub_account_count, roleVars, configVars, worldVars>>

\* A payment authority rents for a customer who paid elsewhere; it attaches
\* the creation deposit alone and never takes a parked name.
rent_sub_account_paid(c, payer, w, owner_key, main_wallet, attached) ==
    LET creation == fee_config.account_creation_deposit
    IN  /\ ~paused
        /\ payer \in payment_authorities
        /\ ~Rented(w)
        /\ w \notin parked_names
        /\ main_wallet # w
        /\ is_accepting_rentals(TlaOf[w])
        /\ IsBusiness(TlaOf[w]) => main_wallet = Tla(w).licensee
        /\ attached >= creation
        /\ Enter(w, payer, main_wallet)
        /\ Start(c, [Chain("mint_paid", "create", w) EXCEPT
                       !.user = payer, !.key = owner_key, !.price = Rent(w),
                       !.deposit = attached, !.funding = creation])
        /\ funds' = Spend(Receive(funds, attached), creation)
        /\ UNCHANGED <<tlas, parked_names, signer_pending, saleVars, reclaim_pending,
                       sub_account_count, roleVars, configVars, worldVars>>

\* Variant: the main wallet may change during a sale.
set_main_wallet_anytime(caller, w, new_wallet) ==
    /\ ~paused
    /\ new_wallet # w
    /\ Rented(w)
    /\ caller = sub_accounts[w].owner
    /\ sub_accounts' = [sub_accounts EXCEPT ![w] = [@ EXCEPT !.main_wallet = new_wallet]]
    /\ UNCHANGED <<tlas, parked_names, signer_pending, saleVars, reclaim_pending, anchorVars,
                   countVars, funds, roleVars, configVars, chains, worldVars>>

set_main_wallet(caller, w, new_wallet) ==
    /\ ~paused
    /\ SaleIdle(w)
    /\ new_wallet # w
    /\ Rented(w)
    /\ caller = sub_accounts[w].owner
    /\ sub_accounts' = [sub_accounts EXCEPT ![w] = [@ EXCEPT !.main_wallet = new_wallet]]
    /\ UNCHANGED <<tlas, parked_names, signer_pending, saleVars, reclaim_pending, anchorVars,
                   countVars, funds, roleVars, configVars, chains, worldVars>>

renew_sub_account(caller, w, attached) ==
    /\ ~paused
    /\ Rented(w)
    /\ now < sub_accounts[w].expires_at + Grace
    /\ caller = sub_accounts[w].owner
    /\ sub_accounts[w].retraction_at = None
    /\ TlaLifecycle(TlaOf[w]) # "Reclaimable"
    /\ attached >= Rent(w)
    /\ Renewed(sub_accounts[w].expires_at) <= MaxLease
    /\ sub_accounts' = [sub_accounts EXCEPT ![w].expires_at = Renewed(@)]
    /\ funds' = refund_excess(Earn(Receive(funds, attached), Rent(w)),
                              caller, attached, Rent(w))
    /\ UNCHANGED <<tlas, parked_names, signer_pending, saleVars, reclaim_pending, anchorVars,
                   countVars, roleVars, configVars, chains, worldVars>>

-----------------------------------------------------------------------------
(* The callbacks of a mint and of a re-rent.                               *)

\* Variant: the name stays in the registry.
settle_failed_mint_kept(c) ==
    /\ business_count_decrement_if_business(TlaOf[chains[c].wallet])
    /\ funds' = Refund(funds, chains[c].user, chains[c].deposit)
    /\ UNCHANGED <<sub_accounts, parked_names, signer_pending, sub_account_count>>

\* Variant: the cap of the Business TLA keeps counting the name.
settle_failed_mint_counted(c) ==
    LET r == chains[c]
    IN  /\ sub_accounts' = [sub_accounts EXCEPT ![r.wallet] = None]
        /\ funds' = Refund(funds, r.user, r.deposit)
        /\ UNCHANGED <<parked_names, signer_pending, countVars>>

\* settle_failed_mint; mothers keep what Enter gave them.
settle_failed_mint(c) ==
    LET r == chains[c]
    IN  /\ sub_accounts' = [sub_accounts EXCEPT ![r.wallet] = None]
        /\ business_count_decrement_if_business(TlaOf[r.wallet])
        /\ funds' = Refund(funds, r.user, r.deposit)
        /\ UNCHANGED <<parked_names, signer_pending, sub_account_count>>

\* Variant: the deposit that left with the mint is not charged.
RecordRental_rent_only(c) ==
    LET r    == chains[c]
        rent == IF r.kind = "mint" THEN r.price ELSE 0
    IN  /\ funds' = IF Rented(r.wallet)
                      THEN refund_excess(Earn(funds, rent), r.user, r.deposit, rent)
                      ELSE funds
        /\ sub_account_count' = sub_account_count + (IF Rented(r.wallet) THEN 1 ELSE 0)
        /\ signer_pending' = IF Rented(r.wallet) /\ r.result = "SignerPending"
                               THEN [signer_pending EXCEPT ![r.wallet] = r.key]
                               ELSE signer_pending
        /\ UNCHANGED <<sub_accounts, parked_names, business_sub_count>>

\* record_rental and record_paid_rental charge the creation deposit that is
\* in force when the callback runs, and panic when the entry is gone.
RecordRental(c) ==
    LET r       == chains[c]
        rent    == IF r.kind = "mint" THEN r.price ELSE 0
        charged == rent + fee_config.account_creation_deposit
    IN  /\ funds' = IF Rented(r.wallet)
                      THEN refund_excess(Earn(funds, rent), r.user, r.deposit, charged)
                      ELSE funds
        /\ sub_account_count' = sub_account_count + (IF Rented(r.wallet) THEN 1 ELSE 0)
        /\ signer_pending' = IF Rented(r.wallet) /\ r.result = "SignerPending"
                               THEN [signer_pending EXCEPT ![r.wallet] = r.key]
                               ELSE signer_pending
        /\ UNCHANGED <<sub_accounts, parked_names, business_sub_count>>

Created(c, kind) ==
    /\ CallbackDue(c, {kind}, {"create", "install", "return"})
    /\ IF chains[c].result \in {"Active", "SignerPending"}
         THEN RecordRental(c)
         ELSE settle_failed_mint(c)
    /\ End(c)
    /\ UNCHANGED <<tlas, saleVars, reclaim_pending, anchorVars, roleVars, configVars,
                   worldVars>>

on_sub_account_created(c)      == Created(c, "mint")
on_sub_account_created_paid(c) == Created(c, "mint_paid")

on_re_rent_balances_checked(c) ==
    /\ CallbackDue(c, {"rerent"}, {"balances"})
    /\ IF chains[c].result = "blocked"
         THEN settle_failed_mint(c) /\ End(c)
         ELSE Proceed(c, "transfer") /\ UNCHANGED <<nameVars, countVars, funds>>
    /\ UNCHANGED <<tlas, saleVars, reclaim_pending, anchorVars, roleVars, configVars,
                   worldVars>>

\* is_promise_success: the extension answered, be it true or false.
on_sub_account_re_rented(c) ==
    /\ CallbackDue(c, {"rerent"}, {"transfer"})
    /\ LET r == chains[c]
       IN  IF r.result = "err"
             THEN settle_failed_mint(c)
             ELSE /\ parked_names' = parked_names \ {r.wallet}
                  /\ sub_account_count' = sub_account_count + 1
                  /\ funds' = refund_excess(Earn(funds, r.price), r.user,
                                            r.deposit, r.price)
                  /\ UNCHANGED <<sub_accounts, signer_pending, business_sub_count>>
    /\ End(c)
    /\ UNCHANGED <<tlas, saleVars, reclaim_pending, anchorVars, roleVars, configVars,
                   worldVars>>

-----------------------------------------------------------------------------
(* A wallet that was created without its signer gets it later.             *)

retry_signer_install(c, caller, w) ==
    /\ ~paused
    /\ signer_pending[w] # None
    /\ Rented(w)
    /\ caller = sub_accounts[w].owner
    /\ Start(c, [Chain("retry", "retry_install", w) EXCEPT !.key = signer_pending[w]])
    /\ UNCHANGED <<tlas, nameVars, saleVars, reclaim_pending, anchorVars, countVars,
                   funds, roleVars, configVars, worldVars>>

\* Variant: a failed installation counts as done.
on_retry_signer_settled_anyway(c) ==
    /\ CallbackDue(c, {"retry"}, Rekeying)
    /\ signer_pending' = [signer_pending EXCEPT ![chains[c].wallet] = None]
    /\ End(c)
    /\ UNCHANGED <<tlas, sub_accounts, parked_names, saleVars, reclaim_pending, anchorVars,
                   countVars, funds, roleVars, configVars, worldVars>>

on_retry_signer_settled(c) ==
    /\ CallbackDue(c, {"retry"}, Rekeying)
    /\ signer_pending' = IF chains[c].result = "ok"
                           THEN [signer_pending EXCEPT ![chains[c].wallet] = None]
                           ELSE signer_pending
    /\ End(c)
    /\ UNCHANGED <<tlas, sub_accounts, parked_names, saleVars, reclaim_pending, anchorVars,
                   countVars, funds, roleVars, configVars, worldVars>>

=============================================================================
