------------------------------ MODULE Custody -------------------------------
(***************************************************************************)
(* The three contracts that together decide who owns a wallet: the active  *)
(* signer holds the key, the extension moves it for a sale or a reclaim,   *)
(* the recovery contract moves it for an approved recovery.  Every call    *)
(* between them is a receipt that runs at some later time, in any order    *)
(* with everything else, and may fail (running out of gas, for one) with   *)
(* no effect; the callback chained to it then sees the failure.            *)
(*                                                                         *)
(* The registry is the environment here: force_transfer comes at any time  *)
(* with any arguments.                                                     *)
(***************************************************************************)
EXTENDS ActiveSigner, MpcRecovery, HosExtension

custodyVars == <<signerVars, recoveryVars, extensionVars>>

CustodyInit == SignerInit /\ RecoveryInit /\ ExtensionInit

-----------------------------------------------------------------------------
(* Calls from outside.                                                     *)

\* Requests signed by the owner (OwnerRequest) only touch the signing nonces,
\* which no other contract reads; they are checked with the signer alone.
SignerStep ==
    /\ SignerAdministration \/ Mint \/ SelfFreeze
    /\ UNCHANGED <<recoveryVars, extensionVars>>

RecoveryStep ==
    /\ RecoveryCall \/ RecoveryMessage \/ Tick
    /\ UNCHANGED <<signerVars, extensionVars>>

ExtensionStep ==
    /\ ExtensionAdministration \/ ForceTransfer
    /\ UNCHANGED <<signerVars, recoveryVars>>

-----------------------------------------------------------------------------
(* Receipts of the recovery contract on the active signer.                 *)

AsAnswer(outcome) == IF outcome = "panic" THEN "err" ELSE outcome

RunFreeze(p) ==
    /\ p.method = "freeze" /\ p.result = "pending"
    /\ freeze("recovery", p.account, p.expected)
    /\ Answered(p, AsAnswer(FreezeOutcome("recovery", p.account, p.expected)))
    /\ UNCHANGED <<accounts, round_floor, now, requests, extensionVars>>

RunUnfreeze(p) ==
    /\ p.method = "unfreeze" /\ p.result = "pending"
    /\ unfreeze("recovery", p.account)
    /\ Answered(p, AsAnswer(UnfreezeOutcome("recovery", p.account)))
    /\ UNCHANGED <<accounts, round_floor, now, requests, extensionVars>>

RunRecoverySwap(p) ==
    /\ p.method = "swap_owner" /\ p.result = "pending"
    /\ swap_owner("recovery", p.account, p.new_owner, p.expected)
    /\ Answered(p, AsAnswer(SwapOutcome("recovery", p.account, p.expected)))
    /\ UNCHANGED <<accounts, round_floor, now, requests, extensionVars>>

\* The MPC network signs an AddKey transaction of a native account.
RunSign(p) ==
    /\ p.method = "sign" /\ p.result = "pending"
    /\ Answered(p, "ok")
    /\ UNCHANGED <<accounts, round_floor, now, requests, signerVars, extensionVars>>

RunFails(p) ==
    /\ p.result = "pending"
    /\ Answered(p, "err")
    /\ UNCHANGED <<accounts, round_floor, now, requests, signerVars, extensionVars>>

RunCall(p) ==
    RunFreeze(p) \/ RunUnfreeze(p) \/ RunRecoverySwap(p) \/ RunSign(p) \/ RunFails(p)

RunCallback(p) == Callback(p) /\ UNCHANGED <<signerVars, extensionVars>>

-----------------------------------------------------------------------------
(* Receipts of the extension.                                              *)

RunMarketplaceSwap(t) ==
    LET c == transfers[t]
    IN  /\ c.stage = "swap"
        /\ swap_owner("marketplace", c.wallet, c.new_key, c.expected)
        /\ SwapAnswered(t, AsAnswer(SwapOutcome("marketplace", c.wallet, c.expected)))
        /\ UNCHANGED recoveryVars

RunMarketplaceSwapFails(t) ==
    /\ transfers[t].stage = "swap"
    /\ SwapAnswered(t, "err")
    /\ UNCHANGED <<signerVars, recoveryVars>>

RunAfterForceSwap(t) ==
    /\ after_force_swap(t)
    /\ UNCHANGED <<signerVars, recoveryVars>>

RunReset(t) ==
    /\ transfers[t].stage = "reset"
    /\ on_wallet_transferred(transfers[t].wallet)
    /\ ResetDelivered(t)
    /\ UNCHANGED signerVars

RunResetFails(t) ==
    /\ transfers[t].stage = "reset"
    /\ ResetDelivered(t)
    /\ UNCHANGED <<signerVars, recoveryVars>>

RunTransfer(t) ==
    \/ RunMarketplaceSwap(t) \/ RunMarketplaceSwapFails(t)
    \/ RunAfterForceSwap(t)
    \/ RunReset(t) \/ RunResetFails(t)

CustodyNext ==
    \/ SignerStep
    \/ RecoveryStep
    \/ ExtensionStep
    \/ \E p \in promises : RunCall(p) \/ RunCallback(p)
    \/ \E t \in Transfers : RunTransfer(t)

CustodySpec == CustodyInit /\ [][CustodyNext]_custodyVars

-----------------------------------------------------------------------------
(* The wallet is held for a recovery from the run of the freeze until the  *)
(* run of the swap or of the unfreeze: across two callbacks, a finalize or *)
(* an abort, and any number of failed attempts.                            *)

Held(w) ==
    /\ HasPolicy(w)
    /\ accounts[w].target = "Wallet"
    /\ \/ Tag(w) = "Approved"
       \/ /\ Tag(w) = "Approving"
          /\ \E p \in promises : p.account = w /\ p.result = "ok"
       \/ /\ Tag(w) = "Resolving"
          /\ \E p \in promises : p.account = w /\ p.result \in {"pending", "err"}

-----------------------------------------------------------------------------
(* Properties.                                                             *)

CustodyTypeOK == SignerTypeOK /\ RecoveryTypeOK /\ ExtensionTypeOK

\* While a recovery holds a wallet, the wallet is frozen and its key is still
\* the key the policy is bound to (submit_verdict, freeze, swap_owner): no
\* sale, reclaim or reset in flight moves it away underneath.
HeldWalletIsFrozen ==
    \A w \in Wallets :
        Held(w) => /\ HasSigner(w)
                   /\ signers[w].frozen # "Unfrozen"
                   /\ signers[w].public_key = accounts[w].bound_owner

\* No freeze is orphaned (freeze, on_frozen, on_finalized, on_aborted,
\* on_wallet_transferred): a wallet frozen by the recovery contract is held
\* by a policy that can still finalize or abort, so it can be unfrozen.
FreezeIsHeld ==
    \A w \in Wallets :
        HasSigner(w) /\ signers[w].frozen = "RecoveryFrozen" => Held(w)

\* A finalize never finds that the owner changed (finalize_recovery,
\* swap_owner, on_finalized): the branch that voids a recovery, and that
\* would leave its wallet frozen under an idle policy, is never taken.
NeverVoided ==
    \A p \in promises : p.method = "swap_owner" => p.result # "false"

\* Every change of an installed key is a sale or reclaim that the extension
\* was asked for, on a wallet nothing has frozen, or the end of a recovery
\* that was requested for exactly that key, whose timelock has passed, on a
\* wallet that still belongs to the owner it was bound to (swap_owner by
\* either authority).
SaleChange(w) ==
    /\ signers[w].frozen = "Unfrozen"
    /\ \E t \in Transfers :
          /\ transfers[t].stage = "swap"
          /\ transfers[t].wallet = w
          /\ transfers[t].new_key = signers'[w].public_key
          /\ transfers[t].expected \in {None, signers[w].public_key}

RecoveryChange(w) ==
    /\ Held(w)
    /\ signers[w].public_key = accounts[w].bound_owner
    /\ requests[w] # None
    /\ requests[w].new_owner = signers'[w].public_key
    /\ requests[w].at + requests[w].timelock <= now
    /\ requests[w].timelock >= MinTimelock

GrantedStep ==
    \A w \in Wallets :
        /\ HasSigner(w)
        /\ signers'[w].public_key # signers[w].public_key
        => SaleChange(w) \/ RecoveryChange(w)

OwnerChangesAreGranted == [][GrantedStep]_custodyVars

\* "only a recovery swap_owner that rotates the key clears a self-freeze": a
\* wallet whose owner halted it leaves the halt with another key (self_freeze,
\* swap_owner, request_recovery).
RotationStep ==
    \A w \in Wallets :
        /\ HasSigner(w)
        /\ signers[w].frozen = "SelfFrozen"
        /\ signers'[w].frozen # "SelfFrozen"
        => signers'[w].public_key # signers[w].public_key

SelfFreezeEndsWithRotation == [][RotationStep]_custodyVars

\* What a wallet is in the terms of WalletOwnership.
OwnerOf(w) == IF HasSigner(w) THEN signers[w].public_key ELSE None

HoldOf(w) ==
    CASE HasSigner(w) /\ signers[w].frozen = "SelfFrozen"     -> "halted"
      [] HasSigner(w) /\ signers[w].frozen = "RecoveryFrozen" -> "held"
      [] OTHER                                               -> "open"

BeneficiaryOf(w) == IF Held(w) THEN accounts[w].phase.new_owner ELSE None

\* The custody contracts together implement WalletOwnership: receipts,
\* callbacks, retries and resets included, a wallet is sold only while open
\* and a held wallet goes only to its beneficiary or back to its owner.
Ownership == INSTANCE WalletOwnership WITH
    owner       <- [w \in Wallets |-> OwnerOf(w)],
    hold        <- [w \in Wallets |-> HoldOf(w)],
    beneficiary <- [w \in Wallets |-> BeneficiaryOf(w)]

ImplementsOwnership == Ownership!OwnershipSpec

=============================================================================
