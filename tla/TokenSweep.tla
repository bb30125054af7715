----------------------------- MODULE TokenSweep -----------------------------
(***************************************************************************)
(* The extension and the active signer together, for the sweep of a token: *)
(* the extension asks the signer for a transaction of the wallet, the      *)
(* signer asks the MPC network, and on_signed hands the signature back.    *)
(* Meanwhile the wallet is installed, frozen, released and re-keyed by     *)
(* whoever may do so, and the extension is paused and skimmed.             *)
(*                                                                         *)
(* The signature is handed to whoever called reclaim_sweep_ft; sending the *)
(* transaction, and so the tokens' move, is outside the contracts.         *)
(***************************************************************************)
EXTENDS ActiveSigner, FtSweep

tokenSweepVars == <<signerVars, extensionVars, sweepVars>>

TokenSweepInit == SignerInit /\ ExtensionInit /\ FtSweepInit

-----------------------------------------------------------------------------
(* Receipts on the active signer.                                          *)

\* A refused call returns its yocto, which stays with the extension.
authority_sign_tx(s) ==
    /\ At(s, "sign")
    /\ IF AuthoritySignOutcome("marketplace", sweeps[s].wallet) = "ok"
         THEN Goes(s, "mpc") /\ UNCHANGED <<ext_balance, own>>
         ELSE /\ Reply(s, "settle", "err")
              /\ ext_balance' = ext_balance + 1
              /\ own' = own + 1
    /\ UNCHANGED given_back

\* The MPC network signs, or its receipt fails; the callback answers both.
on_signed(s) ==
    /\ At(s, "mpc")
    /\ \E answer \in {"signed", "none"} : Reply(s, "settle", answer)
    /\ UNCHANGED <<ext_balance, given_back, own>>

-----------------------------------------------------------------------------

SignerStep == SignerNext /\ UNCHANGED <<extensionVars, sweepVars>>

ExtensionStep == ExtensionAdministration /\ UNCHANGED <<signerVars, sweepVars>>

Skim ==
    /\ \E caller \in Admins, amount \in 1..ext_balance : skim(caller, amount)
    /\ UNCHANGED <<signerVars, extensionVars>>

Sweep ==
    /\ \E s \in Sweeps, caller \in {"registry", "stranger"}, w \in Wallets,
          attached \in {StorageDeposit, MinSweepAttached} :
            sweep_ft(s, caller, w, attached)
    /\ UNCHANGED <<signerVars, extensionVars>>

RunSweep(s) ==
    /\ \/ RunBalanceOf(s) \/ after_balance_for_sweep(s)
       \/ RunStorageDeposit(s) \/ after_storage_for_sweep(s)
       \/ authority_sign_tx(s) \/ on_signed(s) \/ after_sweep_settled(s)
    /\ UNCHANGED <<signerVars, extensionVars>>

TokenSweepNext ==
    \/ SignerStep
    \/ ExtensionStep
    \/ Skim
    \/ Sweep
    \/ \E s \in Sweeps : RunSweep(s)

\* NEAR delivers every receipt and runs the callback chained to it.
SweepDelivery == \A s \in Sweeps : WF_tokenSweepVars(RunSweep(s))

TokenSweepSpec == TokenSweepInit /\ [][TokenSweepNext]_tokenSweepVars /\ SweepDelivery

-----------------------------------------------------------------------------
(* Properties.                                                             *)

\* The balance of the extension is exactly its own money and the deposits of
\* the sweeps that have not spent them or given them back (sweep_ft, the
\* callbacks of the sweep, abort_and_refund, skim): while skims leave the
\* deposits alone, a sweep that aborts can always pay its deposit back, from
\* no other sweep's deposit, and nothing is stranded that a sweep could still
\* return.
DepositsCovered == ext_balance = own + Deposits

\* Where the deposit of a sweep is, for the registry: spent as soon as the
\* token has taken the storage deposit.
StatusOf(s) ==
    CASE sweeps[s].stage \in {"unused", "returned"} -> sweeps[s].stage
      [] \/ sweeps[s].stage \in {"balance", "balance_cb", "storage"}
         \/ At(s, "storage_cb") /\ sweeps[s].result = "err" -> "out"
      [] OTHER -> "kept"

Registry == INSTANCE SweepDeposits WITH
    SweepDeposit <- MinSweepAttached,
    sweep_status <- [s \in Sweeps |-> StatusOf(s)],
    sweep_back   <- given_back

\* The extension keeps what SweepDeposits promises the registry: the deposit
\* of a sweep comes back at most once, whole, and never after the token has
\* taken it, whatever fails and whoever freezes, pauses or skims meanwhile
\* (sweep_ft, abort_and_refund and its callers, after_sweep_settled).
ImplementsSweepDeposits == Registry!DepositsSpec

\* A sweep that was started is over one day, through a refused storage
\* deposit, a frozen wallet or a signature that never comes.
SweepsEnd == \A s \in Sweeps : At(s, "balance") ~> sweeps[s].stage \in SweepOver

=============================================================================
