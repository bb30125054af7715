------------------------------ MODULE Reclaim -------------------------------
(***************************************************************************)
(* contracts/tla-registry/src/reclaim.rs: anybody may take an expired name *)
(* back.  The wallet is re-keyed to the parked signer after the asset      *)
(* gate, under a lock of its own (reclaim_pending), and the callback takes *)
(* the name out of the registry.                                           *)
(***************************************************************************)
EXTENDS RegistryState

\* The owner's own anchor does not stand in the way of a reclaim.
ExternalRefs(w) ==
    IF mothers[sub_accounts[w].owner] = w
      THEN saturating_sub(mother_use_count[w], 1)
      ELSE mother_use_count[w]

resolve_reclaimable(w) ==
    /\ Rented(w)
    /\ ExternalRefs(w) = 0
    /\ Tla(w) # None
    /\ effective_sub_lifecycle(w) = "Reclaimable"

\* Variant: a paused registry still sends sweeps.
reclaim_sweep_ft_paused(s, caller, w, ft, attached) ==
    /\ Open(s)
    /\ attached >= SweepDeposit
    /\ SaleIdle(w)
    /\ ft \in ft_allowlist
    /\ resolve_reclaimable(w)
    /\ funds' = refund_excess(Spend(Receive(funds, attached), SweepDeposit),
                              caller, attached, SweepDeposit)
    /\ UNCHANGED <<tlas, nameVars, saleVars, reclaim_pending, anchorVars, countVars,
                   roleVars, configVars, chains, ownershipVars, held, now, overridden>>

\* The sweep itself runs in the extension; its deposit leaves with it.
reclaim_sweep_ft(s, caller, w, ft, attached) ==
    /\ Open(s)
    /\ ~paused
    /\ attached >= SweepDeposit
    /\ SaleIdle(w)
    /\ ft \in ft_allowlist
    /\ resolve_reclaimable(w)
    /\ funds' = refund_excess(Spend(Receive(funds, attached), SweepDeposit),
                              caller, attached, SweepDeposit)
    /\ UNCHANGED <<tlas, nameVars, saleVars, reclaim_pending, anchorVars, countVars,
                   roleVars, configVars, chains, ownershipVars, held, now, overridden>>

\* park_wallet: a wallet that never got its signer gets the parked one.
ParkMethod(w) == IF signer_pending[w] # None THEN "retry_install" ELSE "transfer"

park_wallet(c) ==
    chains' = [chains EXCEPT ![c] =
      [@ EXCEPT !.method = ParkMethod(chains[c].wallet), !.result = "pending",
                !.key = parked_signer_pubkey]]

\* Variant: a second reclaim of a name is not refused.
reclaim_finalize_twice(c, w) ==
    /\ ~paused
    /\ SaleIdle(w)
    /\ resolve_reclaimable(w)
    /\ reclaim_pending' = reclaim_pending \cup {w}
    /\ Start(c, IF ft_allowlist = {}
                  THEN [Chain("reclaim", ParkMethod(w), w) EXCEPT
                          !.key = parked_signer_pubkey]
                  ELSE Chain("reclaim", "balances", w))
    /\ UNCHANGED <<tlas, nameVars, saleVars, anchorVars, countVars, funds, roleVars,
                   configVars, worldVars>>

reclaim_finalize(c, w) ==
    /\ ~paused
    /\ SaleIdle(w)
    /\ w \notin reclaim_pending
    /\ resolve_reclaimable(w)
    /\ reclaim_pending' = reclaim_pending \cup {w}
    /\ Start(c, IF ft_allowlist = {}
                  THEN [Chain("reclaim", ParkMethod(w), w) EXCEPT
                          !.key = parked_signer_pubkey]
                  ELSE Chain("reclaim", "balances", w))
    /\ UNCHANGED <<tlas, nameVars, saleVars, anchorVars, countVars, funds, roleVars,
                   configVars, worldVars>>

\* Variant: a reclaim that is blocked keeps its lock.
on_balances_checked_locked(c) ==
    /\ CallbackDue(c, {"reclaim"}, {"balances"})
    /\ LET w == chains[c].wallet
       IN  IF SaleIdle(w) /\ chains[c].result = "clear" /\ resolve_reclaimable(w)
             THEN park_wallet(c)
             ELSE End(c)
    /\ UNCHANGED <<tlas, nameVars, saleVars, reclaim_pending, anchorVars, countVars, funds,
                   roleVars, configVars, worldVars>>

on_balances_checked(c) ==
    /\ CallbackDue(c, {"reclaim"}, {"balances"})
    /\ LET w == chains[c].wallet
       IN  IF SaleIdle(w) /\ chains[c].result = "clear" /\ resolve_reclaimable(w)
             THEN park_wallet(c) /\ UNCHANGED reclaim_pending
             ELSE End(c) /\ reclaim_pending' = reclaim_pending \ {w}
    /\ UNCHANGED <<tlas, nameVars, saleVars, anchorVars, countVars, funds, roleVars,
                   configVars, worldVars>>

\* Variant: the departing owner's anchor is discounted but stays.
on_reclaim_finalized_anchored(c) ==
    /\ CallbackDue(c, {"reclaim"}, Rekeying)
    /\ LET w == chains[c].wallet
       IN  /\ reclaim_pending' = reclaim_pending \ {w}
           /\ IF chains[c].result # "err" /\ Rented(w)
                THEN /\ sub_accounts' = [sub_accounts EXCEPT ![w] = None]
                     /\ mother_use_count' =
                          IF mothers[sub_accounts[w].owner] = w
                            THEN decrement_mother_use(mother_use_count, w)
                            ELSE mother_use_count
                     /\ listings' = [listings EXCEPT ![w] = None]
                     /\ accepted_offers' = [accepted_offers EXCEPT ![w] = None]
                     /\ signer_pending' = [signer_pending EXCEPT ![w] = None]
                     /\ sub_account_count' = saturating_sub(sub_account_count, 1)
                     /\ business_count_decrement_if_business(TlaOf[w])
                     /\ parked_names' = parked_names \cup {w}
                ELSE UNCHANGED <<nameVars, saleVars, mother_use_count, countVars>>
    /\ End(c)
    /\ UNCHANGED <<tlas, mothers, funds, roleVars, configVars, worldVars>>

\* is_promise_success: the extension answered, be it true or false.
on_reclaim_finalized(c) ==
    /\ CallbackDue(c, {"reclaim"}, Rekeying)
    /\ LET w == chains[c].wallet
           u == sub_accounts[w].owner
       IN  /\ reclaim_pending' = reclaim_pending \ {w}
           /\ IF chains[c].result # "err" /\ Rented(w)
                THEN /\ sub_accounts' = [sub_accounts EXCEPT ![w] = None]
                     /\ IF mothers[u] = w
                          THEN /\ mothers' = [mothers EXCEPT ![u] = None]
                               /\ mother_use_count' =
                                    decrement_mother_use(mother_use_count, w)
                          ELSE UNCHANGED anchorVars
                     /\ listings' = [listings EXCEPT ![w] = None]
                     /\ accepted_offers' = [accepted_offers EXCEPT ![w] = None]
                     /\ signer_pending' = [signer_pending EXCEPT ![w] = None]
                     /\ sub_account_count' = saturating_sub(sub_account_count, 1)
                     /\ business_count_decrement_if_business(TlaOf[w])
                     /\ parked_names' = parked_names \cup {w}
                ELSE UNCHANGED <<nameVars, saleVars, anchorVars, countVars>>
    /\ End(c)
    /\ UNCHANGED <<tlas, funds, roleVars, configVars, worldVars>>

=============================================================================
