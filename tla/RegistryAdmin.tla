--------------------------- MODULE RegistryAdmin ----------------------------
(***************************************************************************)
(* The rest of contracts/tla-registry: administration (admin.rs, lib.rs),  *)
(* retractions and caps of Business TLAs (business.rs), mothers            *)
(* (mother.rs), and the claiming of refunds (lib.rs).                      *)
(***************************************************************************)
EXTENDS RegistryState

MAX_ALLOWLIST_SIZE == 16

-----------------------------------------------------------------------------
(* Roles and configuration.                                                *)

SetRoles(caller) ==
    /\ caller \in admins
    /\ UNCHANGED <<tlas, nameVars, saleVars, reclaim_pending, anchorVars, countVars,
                   funds, configVars, chains, worldVars>>

pause(caller)   == SetRoles(caller) /\ paused' = TRUE /\ UNCHANGED <<admins, payment_authorities>>
unpause(caller) == SetRoles(caller) /\ paused' = FALSE /\ UNCHANGED <<admins, payment_authorities>>

add_admin(caller, a) ==
    /\ SetRoles(caller)
    /\ admins' = admins \cup {a}
    /\ UNCHANGED <<paused, payment_authorities>>

remove_admin(caller, a) ==
    /\ SetRoles(caller)
    /\ Cardinality(admins) > 1
    /\ admins' = admins \ {a}
    /\ UNCHANGED <<paused, payment_authorities>>

add_payment_authority(caller, u) ==
    /\ SetRoles(caller)
    /\ payment_authorities' = payment_authorities \cup {u}
    /\ UNCHANGED <<paused, admins>>

remove_payment_authority(caller, u) ==
    /\ SetRoles(caller)
    /\ payment_authorities' = payment_authorities \ {u}
    /\ UNCHANGED <<paused, admins>>

Configure(caller) ==
    /\ caller \in admins
    /\ UNCHANGED <<tlas, nameVars, saleVars, reclaim_pending, anchorVars, countVars,
                   funds, roleVars, chains, worldVars>>

update_fee_config(caller, config) ==
    /\ Configure(caller)
    /\ \/ config.rent_tier_5 # 0  \/ config.rent_tier_8 # 0
       \/ config.rent_tier_10 # 0 \/ config.rent_tier_12plus # 0
    /\ config.account_creation_deposit # 0
    /\ config.resale_commission_bps <= 10000
    /\ fee_config' = config
    /\ UNCHANGED <<ft_allowlist, parked_signer_pubkey, business_sub_cap_override>>

set_parked_signer_pubkey(caller, k) ==
    /\ Configure(caller)
    /\ parked_signer_pubkey' = k
    /\ UNCHANGED <<ft_allowlist, fee_config, business_sub_cap_override>>

add_ft_allowlist(caller, token) ==
    /\ Configure(caller)
    /\ Cardinality(ft_allowlist) < MAX_ALLOWLIST_SIZE
    /\ ft_allowlist' = ft_allowlist \cup {token}
    /\ UNCHANGED <<fee_config, parked_signer_pubkey, business_sub_cap_override>>

remove_ft_allowlist(caller, token) ==
    /\ Configure(caller)
    /\ ft_allowlist' = ft_allowlist \ {token}
    /\ UNCHANGED <<fee_config, parked_signer_pubkey, business_sub_cap_override>>

\* cap = None goes back to the default of the fee configuration.
set_business_sub_cap(caller, t, cap) ==
    /\ Configure(caller)
    /\ tlas[t] # None /\ IsBusiness(t)
    /\ business_sub_cap_override' = [business_sub_cap_override EXCEPT ![t] = cap]
    /\ UNCHANGED <<ft_allowlist, fee_config, parked_signer_pubkey>>

-----------------------------------------------------------------------------
(* TLAs.                                                                   *)

SetTla(caller, t, entry) ==
    /\ caller \in admins
    /\ tlas' = [tlas EXCEPT ![t] = entry]
    /\ UNCHANGED <<nameVars, saleVars, reclaim_pending, anchorVars, countVars,
                   funds, roleVars, configVars, chains, worldVars>>

register_tla(caller, t, tla_type, premium, licensee) ==
    /\ tlas[t] = None
    /\ tla_type = "Business" => licensee # None
    /\ SetTla(caller, t, [tla_type |-> tla_type, status |-> "Registered",
                          licensee |-> licensee, premium_category |-> premium,
                          expires_at |-> 0])

suspend_tla(caller, t) ==
    /\ tlas[t] # None
    /\ tlas[t].status # "Registered"
    /\ SetTla(caller, t, [tlas[t] EXCEPT !.status = "Suspended"])

\* Variant: a TLA that comes back starts a new lease.
unsuspend_tla_restarts(caller, t) ==
    /\ tlas[t] # None
    /\ tlas[t].status = "Suspended"
    /\ SetTla(caller, t, [tlas[t] EXCEPT !.status = "Active", !.expires_at = now + Year])

unsuspend_tla(caller, t) ==
    /\ tlas[t] # None
    /\ tlas[t].status = "Suspended"
    /\ IsBusiness(t) => tlas[t].licensee # None
    /\ SetTla(caller, t, [tlas[t] EXCEPT !.status = "Active"])

activate_open_tla(caller, t) ==
    /\ tlas[t] # None
    /\ tlas[t].status = "Registered"
    /\ ~IsBusiness(t)
    /\ SetTla(caller, t, [tlas[t] EXCEPT !.status = "Active", !.expires_at = now + Year])

-----------------------------------------------------------------------------
(* The admins' escape hatches: they clear a lock whatever is in flight.    *)

Overridden(w) == IF \E c \in Slots : InFlight(c) /\ chains[c].wallet = w
                   THEN overridden \cup {w}
                   ELSE overridden

admin_clear_settling(caller, w) ==
    /\ caller \in admins
    /\ clear_settling(w)
    /\ overridden' = Overridden(w)
    /\ UNCHANGED <<tlas, nameVars, reclaim_pending, anchorVars, countVars, funds,
                   roleVars, configVars, chains, ownershipVars, tokenVars, now>>

admin_clear_reclaim_pending(caller, w) ==
    /\ caller \in admins
    /\ reclaim_pending' = reclaim_pending \ {w}
    /\ overridden' = Overridden(w)
    /\ UNCHANGED <<tlas, nameVars, saleVars, anchorVars, countVars, funds,
                   roleVars, configVars, chains, ownershipVars, tokenVars, now>>

-----------------------------------------------------------------------------
(* Retraction of a name under a Business TLA.                              *)

SetRetraction(w, at) ==
    /\ sub_accounts' = [sub_accounts EXCEPT ![w] = [@ EXCEPT !.retraction_at = at]]
    /\ UNCHANGED <<tlas, parked_names, signer_pending, saleVars, reclaim_pending, anchorVars,
                   countVars, funds, roleVars, configVars, chains, worldVars>>

schedule_retraction(caller, w) ==
    /\ ~paused
    /\ Tla(w) # None /\ IsBusiness(TlaOf[w])
    /\ Rented(w)
    /\ caller = sub_accounts[w].owner
    /\ sub_accounts[w].retraction_at = None
    /\ SetRetraction(w, now)

\* Not any more once the notice has elapsed.
cancel_retraction(caller, w) ==
    /\ ~paused
    /\ Rented(w)
    /\ caller = sub_accounts[w].owner
    /\ sub_accounts[w].retraction_at # None
    /\ now < sub_accounts[w].retraction_at + fee_config.retraction_notice_ns
    /\ SetRetraction(w, None)

-----------------------------------------------------------------------------
(* Mothers.                                                                *)

\* set_mother with set_mother_internal.
set_mother(caller, new_mother) ==
    LET old      == mothers[caller]
        released == IF old # None /\ Managed(old)
                      THEN decrement_mother_use(mother_use_count, old)
                      ELSE mother_use_count
    IN  /\ ~paused
        /\ Managed(new_mother)
        /\ sub_accounts[new_mother].owner = caller
        /\ Tla(new_mother) # None
        /\ effective_sub_lifecycle(new_mother) # "Reclaimable"
        /\ old # new_mother
        /\ mothers' = [mothers EXCEPT ![caller] = new_mother]
        /\ mother_use_count' = increment_mother_use(released, new_mother)
        /\ UNCHANGED <<tlas, nameVars, saleVars, reclaim_pending, countVars, funds,
                       roleVars, configVars, chains, worldVars>>

admin_clear_mother(caller, user) ==
    /\ caller \in admins
    /\ mothers[user] # None
    /\ mothers' = [mothers EXCEPT ![user] = None]
    /\ mother_use_count' = IF Managed(mothers[user])
                             THEN decrement_mother_use(mother_use_count, mothers[user])
                             ELSE mother_use_count
    /\ UNCHANGED <<tlas, nameVars, saleVars, reclaim_pending, countVars, funds,
                   roleVars, configVars, chains, worldVars>>

-----------------------------------------------------------------------------
(* Money out: revenue is withdrawn as a refund, refunds are claimed.       *)

withdraw(caller, amount, recipient) ==
    /\ caller \in admins
    /\ amount > 0
    /\ amount <= funds.revenue
    /\ funds.total_refunds + amount <= funds.balance
    /\ funds' = Refund([funds EXCEPT !.revenue = @ - amount], recipient, amount)
    /\ UNCHANGED <<tlas, nameVars, saleVars, reclaim_pending, anchorVars, countVars,
                   roleVars, configVars, chains, worldVars>>

claim_refund(c, caller) ==
    LET amount == funds.refunds[caller]
    IN  /\ amount # 0
        /\ amount <= funds.balance
        /\ funds' = [funds EXCEPT !.refunds = [@ EXCEPT ![caller] = 0],
                                  !.total_refunds = saturating_sub(@, amount),
                                  !.balance = @ - amount]
        /\ Start(c, [Chain("claim", "pay", None) EXCEPT !.user = caller, !.deposit = amount])
        /\ UNCHANGED <<tlas, nameVars, saleVars, reclaim_pending, anchorVars, countVars,
                       roleVars, configVars, worldVars>>

\* Variant: a payment that bounced is not booked back.
on_claim_refund_settled_lost(c) ==
    /\ CallbackDue(c, {"claim"}, {"pay"})
    /\ End(c)
    /\ UNCHANGED <<tlas, nameVars, saleVars, reclaim_pending, anchorVars, countVars,
                   funds, roleVars, configVars, worldVars>>

on_claim_refund_settled(c) ==
    /\ CallbackDue(c, {"claim"}, {"pay"})
    /\ funds' = IF chains[c].result = "ok" THEN funds
                ELSE Refund(funds, chains[c].user, chains[c].deposit)
    /\ End(c)
    /\ UNCHANGED <<tlas, nameVars, saleVars, reclaim_pending, anchorVars, countVars,
                   roleVars, configVars, worldVars>>

=============================================================================
