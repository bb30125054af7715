---------------------------- MODULE Marketplace -----------------------------
(***************************************************************************)
(* contracts/tla-registry/src/marketplace.rs: a name is listed, or an      *)
(* offer for it is accepted, after the key the seller quotes was compared  *)
(* with the live key (a query and a callback).  A purchase locks the       *)
(* listing or the offer it is made under (settling), passes the asset      *)
(* gate, swaps the key with the quoted key as expected owner, and settles  *)
(* in a callback.                                                          *)
(***************************************************************************)
EXTENDS RegistryState

\* Variant: an expired name can be sold.
assert_sellable_expired(w) ==
    /\ mother_use_count[w] = 0
    /\ signer_pending[w] = None
    /\ Rented(w)
    /\ sub_accounts[w].retraction_at = None
    /\ Tla(w) # None
    /\ ~IsBusiness(TlaOf[w])
    /\ Tla(w).status = "Active"

assert_sellable(w) ==
    /\ mother_use_count[w] = 0
    /\ signer_pending[w] = None
    /\ Rented(w)
    /\ sub_accounts[w].retraction_at = None
    /\ Tla(w) # None
    /\ ~IsBusiness(TlaOf[w])
    /\ Tla(w).status = "Active"
    /\ effective_sub_lifecycle(w) = "Active"

assert_listable(caller, w, price) ==
    /\ ~paused
    /\ price > 0
    /\ SaleIdle(w)
    /\ assert_sellable(w)
    /\ caller = sub_accounts[w].owner

-----------------------------------------------------------------------------
(* Listings and accepted offers.                                           *)

list_sub_account(c, caller, w, price, owner_key) ==
    /\ assert_listable(caller, w, price)
    /\ Start(c, [Chain("list", "query", w) EXCEPT
                   !.user = caller, !.key = owner_key, !.price = price])
    /\ UNCHANGED <<tlas, nameVars, saleVars, reclaim_pending, anchorVars, countVars,
                   funds, roleVars, configVars, worldVars>>

accept_offer(c, caller, w, buyer, price, owner_key) ==
    /\ assert_listable(caller, w, price)
    /\ Start(c, [Chain("offer", "query", w) EXCEPT
                   !.user = caller, !.other = buyer, !.key = owner_key, !.price = price])
    /\ UNCHANGED <<tlas, nameVars, saleVars, reclaim_pending, anchorVars, countVars,
                   funds, roleVars, configVars, worldVars>>

\* current_key_matches, and the seller still owns the name.
StillSelling(q) ==
    /\ q.result = q.key
    /\ Rented(q.wallet)
    /\ sub_accounts[q.wallet].owner = q.user

\* Variant: a listing that settles is overwritten.
on_listing_verified_anyway(c) ==
    /\ CallbackDue(c, {"list"}, {"query"})
    /\ LET q == chains[c]
       IN  listings' =
             IF StillSelling(q)
               THEN [listings EXCEPT ![q.wallet] = [price |-> q.price, settling |-> FALSE,
                                                    owner_key |-> q.key]]
               ELSE listings
    /\ End(c)
    /\ UNCHANGED <<tlas, nameVars, accepted_offers, reclaim_pending, anchorVars,
                   countVars, funds, roleVars, configVars, worldVars>>

\* Only the lock of the listing is looked at here, not that of an offer.
on_listing_verified(c) ==
    /\ CallbackDue(c, {"list"}, {"query"})
    /\ LET q == chains[c]
           w == chains[c].wallet
       IN  listings' =
             IF StillSelling(q) /\ ~(listings[w] # None /\ listings[w].settling)
               THEN [listings EXCEPT ![w] = [price |-> q.price, settling |-> FALSE,
                                             owner_key |-> q.key]]
               ELSE listings
    /\ End(c)
    /\ UNCHANGED <<tlas, nameVars, accepted_offers, reclaim_pending, anchorVars,
                   countVars, funds, roleVars, configVars, worldVars>>

on_offer_verified(c) ==
    /\ CallbackDue(c, {"offer"}, {"query"})
    /\ LET q == chains[c]
           w == chains[c].wallet
       IN  accepted_offers' =
             IF StillSelling(q) /\ ~(accepted_offers[w] # None /\ accepted_offers[w].settling)
               THEN [accepted_offers EXCEPT ![w] =
                       [buyer |-> q.other, price |-> q.price, settling |-> FALSE,
                        owner_key |-> q.key]]
               ELSE accepted_offers
    /\ End(c)
    /\ UNCHANGED <<tlas, nameVars, listings, reclaim_pending, anchorVars,
                   countVars, funds, roleVars, configVars, worldVars>>

unlist_sub_account(caller, w) ==
    /\ ~paused
    /\ SaleIdle(w)
    /\ listings[w] # None
    /\ Rented(w) /\ caller = sub_accounts[w].owner
    /\ listings' = [listings EXCEPT ![w] = None]
    /\ UNCHANGED <<tlas, nameVars, accepted_offers, reclaim_pending, anchorVars,
                   countVars, funds, roleVars, configVars, chains, worldVars>>

revoke_offer(caller, w) ==
    /\ ~paused
    /\ SaleIdle(w)
    /\ accepted_offers[w] # None
    /\ Rented(w) /\ caller = sub_accounts[w].owner
    /\ accepted_offers' = [accepted_offers EXCEPT ![w] = None]
    /\ UNCHANGED <<tlas, nameVars, listings, reclaim_pending, anchorVars,
                   countVars, funds, roleVars, configVars, chains, worldVars>>

-----------------------------------------------------------------------------
(* Purchases.                                                              *)

\* An offer made to this buyer goes before the listing.
HasOffer(w, buyer) == accepted_offers[w] # None /\ accepted_offers[w].buyer = buyer

Terms(w, buyer) == IF HasOffer(w, buyer) THEN accepted_offers[w] ELSE listings[w]

LockTerms(w, buyer) ==
    IF HasOffer(w, buyer)
      THEN /\ accepted_offers' = [accepted_offers EXCEPT ![w] = [@ EXCEPT !.settling = TRUE]]
           /\ UNCHANGED listings
      ELSE /\ listings' = [listings EXCEPT ![w] = [@ EXCEPT !.settling = TRUE]]
           /\ UNCHANGED accepted_offers

resolve_and_lock_sale(w, buyer, deposit) ==
    /\ Terms(w, buyer) # None
    /\ deposit >= Terms(w, buyer).price
    /\ LockTerms(w, buyer)

resolve_and_lock_paid_sale(w, buyer) ==
    /\ Terms(w, buyer) # None
    /\ LockTerms(w, buyer)

PendingBuy(kind, w, buyer, new_owner_key) ==
    [Chain(kind, GateMethod, w) EXCEPT
       !.user = buyer, !.key = new_owner_key,
       !.expected = Terms(w, buyer).owner_key, !.price = Terms(w, buyer).price]

buy_sub_account(c, buyer, w, new_owner_key, deposit) ==
    /\ ~paused
    /\ SaleIdle(w)
    /\ assert_sellable(w)
    /\ resolve_and_lock_sale(w, buyer, deposit)
    /\ Start(c, [PendingBuy("buy", w, buyer, new_owner_key) EXCEPT !.deposit = deposit])
    /\ funds' = Receive(funds, deposit)
    /\ UNCHANGED <<tlas, nameVars, reclaim_pending, anchorVars, countVars,
                   roleVars, configVars, worldVars>>

\* A payment authority settles a purchase that was paid for elsewhere.
buy_sub_account_paid(c, operator, buyer, w, new_owner_key) ==
    /\ ~paused
    /\ operator \in payment_authorities
    /\ SaleIdle(w)
    /\ assert_sellable(w)
    /\ resolve_and_lock_paid_sale(w, buyer)
    /\ Start(c, [PendingBuy("buy_paid", w, buyer, new_owner_key) EXCEPT !.other = operator])
    /\ UNCHANGED <<tlas, nameVars, reclaim_pending, anchorVars, countVars,
                   funds, roleVars, configVars, worldVars>>

\* Variant: the buyer's deposit is forgotten.
abort_sale_kept(c) ==
    /\ UNCHANGED funds
    /\ clear_settling(chains[c].wallet)
    /\ End(c)

abort_sale(c) ==
    /\ funds' = Refund(funds, chains[c].user, chains[c].deposit)
    /\ clear_settling(chains[c].wallet)
    /\ End(c)

on_buy_balances_checked(c) ==
    /\ CallbackDue(c, {"buy"}, {"balances"})
    /\ IF chains[c].result = "blocked"
         THEN abort_sale(c)
         ELSE Proceed(c, "transfer") /\ UNCHANGED <<funds, saleVars>>
    /\ UNCHANGED <<tlas, nameVars, reclaim_pending, anchorVars, countVars,
                   roleVars, configVars, worldVars>>

on_buy_paid_balances_checked(c) ==
    /\ CallbackDue(c, {"buy_paid"}, {"balances"})
    /\ IF chains[c].result = "blocked"
         THEN clear_settling(chains[c].wallet) /\ End(c)
         ELSE Proceed(c, "transfer") /\ UNCHANGED saleVars
    /\ UNCHANGED <<tlas, nameVars, reclaim_pending, anchorVars, countVars,
                   funds, roleVars, configVars, worldVars>>

-----------------------------------------------------------------------------
(* Settlement.                                                             *)

Sold(s) == s.result = "true" /\ Rented(s.wallet)

\* Variant: a sale that fails keeps its lock.
OrClear_not(w, sold) ==
    IF sold
      THEN /\ listings' = [listings EXCEPT ![w] = None]
           /\ accepted_offers' = [accepted_offers EXCEPT ![w] = None]
      ELSE UNCHANGED saleVars

\* The sale is off: both locks are cleared, whichever the purchase took.
OrClear(w, sold) ==
    IF sold
      THEN /\ listings' = [listings EXCEPT ![w] = None]
           /\ accepted_offers' = [accepted_offers EXCEPT ![w] = None]
      ELSE clear_settling(w)

\* Variant: a new tenant's lease starts on the day of the sale.
NewTenant_fresh(w, owner_account, main_wallet) ==
    [sub_accounts EXCEPT ![w] = [@ EXCEPT !.owner = owner_account,
                                          !.main_wallet = main_wallet,
                                          !.expires_at = now + Year]]

\* The lease goes with the name.
NewTenant(w, owner_account, main_wallet) ==
    [sub_accounts EXCEPT ![w] = [@ EXCEPT !.owner = owner_account,
                                          !.main_wallet = main_wallet]]

\* Variant: the seller gets the whole price, on top of the commission.
SettledFunds_whole(s) ==
    refund_excess(
      Refund(Earn(funds, Commission(s.price, fee_config.resale_commission_bps)),
             sub_accounts[s.wallet].owner, s.price),
      s.user, s.deposit, s.price)

\* The commission is the one in force when the sale settles.
SettledFunds(s) ==
    LET bps == fee_config.resale_commission_bps
    IN  refund_excess(
          Refund(Earn(funds, Commission(s.price, bps)),
                 sub_accounts[s.wallet].owner, SellerProceeds(s.price, bps)),
          s.user, s.deposit, s.price)

\* Variant: the account fields of a native and of a paid sale are mixed up.
on_sub_account_sold_mixed(c) ==
    /\ CallbackDue(c, {"buy"}, {"transfer"})
    /\ LET s == chains[c]
       IN  /\ funds' = IF Sold(s) THEN SettledFunds(s)
                                  ELSE Refund(funds, s.user, s.deposit)
           /\ sub_accounts' = IF Sold(s) THEN NewTenant(s.wallet, s.other, s.user)
                                         ELSE sub_accounts
           /\ OrClear(s.wallet, Sold(s))
    /\ End(c)
    /\ UNCHANGED <<tlas, parked_names, signer_pending, reclaim_pending, anchorVars,
                   countVars, roleVars, configVars, worldVars>>

on_sub_account_sold(c) ==
    /\ CallbackDue(c, {"buy"}, {"transfer"})
    /\ LET s == chains[c]
       IN  /\ funds' = IF Sold(s) THEN SettledFunds(s)
                                  ELSE Refund(funds, s.user, s.deposit)
           /\ sub_accounts' = IF Sold(s) THEN NewTenant(s.wallet, s.user, s.user)
                                         ELSE sub_accounts
           /\ OrClear(s.wallet, Sold(s))
    /\ End(c)
    /\ UNCHANGED <<tlas, parked_names, signer_pending, reclaim_pending, anchorVars,
                   countVars, roleVars, configVars, worldVars>>

on_sub_account_sold_paid(c) ==
    /\ CallbackDue(c, {"buy_paid"}, {"transfer"})
    /\ LET s == chains[c]
       IN  /\ sub_accounts' = IF Sold(s) THEN NewTenant(s.wallet, s.other, s.user)
                                         ELSE sub_accounts
           /\ OrClear(s.wallet, Sold(s))
    /\ End(c)
    /\ UNCHANGED <<tlas, parked_names, signer_pending, reclaim_pending, anchorVars,
                   countVars, funds, roleVars, configVars, worldVars>>

=============================================================================
