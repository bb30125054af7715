----------------------------- MODULE TlaManager -----------------------------
(***************************************************************************)
(* contracts/tla-manager: the contract of a TLA, which mints wallets for   *)
(* the registry: derive the MPC key, create and fund the account, install  *)
(* the owner's key in the active signer.  The manager keeps no state, so a *)
(* call it makes and the callback chained to it are one step here.  The    *)
(* deposit travels with the chain (`funding') and comes back to the        *)
(* registry when nothing was created.                                      *)
(*                                                                         *)
(* Every receipt has the gas it needs: a chain that stops half-way for     *)
(* lack of gas is not modelled.                                            *)
(***************************************************************************)
EXTENDS RegistryState

CONSTANTS
    MinBalance   \* min_balance, fixed at deployment

ASSUME ManagerConstants == MinBalance \in Nat

unchangedByManager == <<tlas, nameVars, saleVars, reclaim_pending, anchorVars,
                        countVars, roleVars, configVars, tokenVars, now, overridden>>

\* Variant: the manager keeps the deposit of a mint that failed.
GiveBack_not(c, result) ==
    /\ chains' = [chains EXCEPT ![c] = [@ EXCEPT !.result = result, !.funding = 0]]
    /\ UNCHANGED funds

\* The deposit is back with the registry before the chain answers.
GiveBack(c, result) ==
    /\ chains' = [chains EXCEPT ![c] = [@ EXCEPT !.result = result, !.funding = 0]]
    /\ funds' = Receive(funds, chains[c].funding)

\* Too small a deposit, or a TLA account without the contract, fails the
\* receipt and returns the deposit with the failure.
create_sub_account(c) ==
    /\ Pending(c, "create")
    /\ \/ /\ chains[c].funding >= MinBalance
          /\ Proceed(c, "derive")
          /\ UNCHANGED funds
       \/ GiveBack(c, "err")
    /\ UNCHANGED <<unchangedByManager, ownershipVars>>

on_key_derived(c) ==
    /\ Pending(c, "derive")
    /\ \E derived \in BOOLEAN : Proceed(c, IF derived THEN "account" ELSE "return")
    /\ UNCHANGED <<unchangedByManager, funds, ownershipVars>>

on_wallet_created(c) ==
    /\ Pending(c, "account")
    /\ \E created \in BOOLEAN : Proceed(c, IF created THEN "install" ELSE "return")
    /\ UNCHANGED <<unchangedByManager, funds, ownershipVars>>

\* install_signer refuses a wallet that has a signer.
on_signer_settled(c) ==
    /\ Pending(c, "install")
    /\ \/ /\ FirstOwner(chains[c].wallet, chains[c].key)
          /\ AnsweredWith(c, "Active")
       \/ /\ AnsweredWith(c, "SignerPending")
          /\ UNCHANGED ownershipVars
    /\ UNCHANGED <<unchangedByManager, funds>>

\* refund_and_fail
on_creation_failed(c) ==
    /\ Pending(c, "return")
    /\ GiveBack(c, "CreationFailed")
    /\ UNCHANGED <<unchangedByManager, ownershipVars>>

\* A refused call or a key that cannot be derived fails the chain.
retry_install(c) ==
    /\ Pending(c, "retry_install")
    /\ Proceed(c, "retry_key") \/ AnsweredWith(c, "err")
    /\ UNCHANGED <<unchangedByManager, funds, ownershipVars>>

on_retry_key_derived(c) ==
    /\ Pending(c, "retry_key")
    /\ \/ /\ FirstOwner(chains[c].wallet, chains[c].key)
          /\ AnsweredWith(c, "ok")
       \/ /\ AnsweredWith(c, "err")
          /\ UNCHANGED ownershipVars
    /\ UNCHANGED <<unchangedByManager, funds>>

ManagerStep(c) ==
    \/ create_sub_account(c) \/ on_key_derived(c) \/ on_wallet_created(c)
    \/ on_signer_settled(c) \/ on_creation_failed(c)
    \/ retry_install(c) \/ on_retry_key_derived(c)

=============================================================================
