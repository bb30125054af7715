------------------------------- MODULE FtSweep ------------------------------
(***************************************************************************)
(* contracts/hos-extension, the sweep of a fungible token from a wallet:   *)
(*                                                                         *)
(*   ft_balance_of (token)            -> after_balance_for_sweep (here)    *)
(*   storage_deposit (token)          -> after_storage_for_sweep (here)    *)
(*   authority_sign_tx (active signer) -> after_sweep_settled (here)       *)
(*                                                                         *)
(* The deposit of a sweep lies in the balance of the extension, with those *)
(* of other sweeps and with what is the extension's own, until a step of   *)
(* the chain spends it or gives it back.  Nothing in the contract's state  *)
(* says whose it is, and skim looks at the balance alone.                  *)
(*                                                                         *)
(* Abstracted: the amount swept and its destination (arguments carried     *)
(* along the chain), the share of the balance that storage reserves (only  *)
(* what lies above it is modelled), the recipient of a skim.  A receipt    *)
(* that fails has its deposit back with the sender before the callback     *)
(* chained to it runs; every receipt has the gas it needs.                 *)
(***************************************************************************)
EXTENDS HosExtension, Integers, Functions

CONSTANTS
    Sweeps,          \* bound: the sweeps of a behaviour, by name
    StorageDeposit,  \* FT_STORAGE_DEPOSIT_YOCTO
    OwnBalance       \* what the extension holds of its own at the start

VARIABLES
    sweeps,          \* sweep -> its chain of receipts
    ext_balance,     \* the extension's balance above its storage reserve
    given_back,      \* history: what the registry got back
    own              \* history: the share of the balance that is nobody's
                     \* deposit; below zero when skims took deposits too

sweepVars == <<sweeps, ext_balance, given_back, own>>

ASSUME FtSweepConstants ==
    /\ StorageDeposit \in Nat \ {0}
    /\ OwnBalance \in Nat

\* MIN_SWEEP_ATTACHED: the storage deposit, and the yocto of ft_transfer.
MinSweepAttached == StorageDeposit + 1

SweepAt(stages, wallets, results) ==
    [stage : stages, wallet : wallets, result : results]

\* A sweep is over when its deposit was given back, when the signer answered
\* ("signed", "unsigned"), or when the deposit was no longer there ("failed").
SweepOver == {"returned", "signed", "unsigned", "failed"}

SweepChain ==
    SweepAt({"unused"} \cup SweepOver, {None}, {"none"})
    \cup SweepAt({"balance", "storage", "sign", "mpc"}, Wallets, {"none"})
    \cup SweepAt({"balance_cb"}, Wallets, {"zero", "some", "err"})
    \cup SweepAt({"storage_cb"}, Wallets, {"ok", "err"})
    \cup SweepAt({"settle"}, Wallets, {"signed", "none", "err"})

NoSweep(stage) == [stage |-> stage, wallet |-> None, result |-> "none"]

FtSweepInit ==
    /\ sweeps      = [s \in Sweeps |-> NoSweep("unused")]
    /\ ext_balance = OwnBalance
    /\ given_back  = 0
    /\ own         = OwnBalance

At(s, stage)     == sweeps[s].stage = stage
Goes(s, stage)   == sweeps' = [sweeps EXCEPT ![s].stage = stage, ![s].result = "none"]
Reply(s, stage, result) ==
    sweeps' = [sweeps EXCEPT ![s].stage = stage, ![s].result = result]
Ends(s, stage)   == sweeps' = [sweeps EXCEPT ![s] = NoSweep(stage)]

\* The part of the balance that is the deposit of sweep s; that of a sweep
\* that failed is still there.
InHand(s) ==
    CASE sweeps[s].stage \in {"balance", "balance_cb", "failed"} -> MinSweepAttached
      [] At(s, "storage") -> 1
      [] At(s, "storage_cb") ->
           IF sweeps[s].result = "err" THEN MinSweepAttached ELSE 1
      [] OTHER -> 0

Deposits == SumFunction([s \in Sweeps |-> InHand(s)])

-----------------------------------------------------------------------------
(* The chain of a sweep.                                                   *)

sweep_ft(s, caller, w, attached) ==
    /\ At(s, "unused")
    /\ caller = "registry"
    /\ ~paused
    /\ attached = MinSweepAttached
    /\ sweeps' = [sweeps EXCEPT ![s] = [stage |-> "balance", wallet |-> w, result |-> "none"]]
    /\ ext_balance' = ext_balance + attached
    /\ UNCHANGED <<given_back, own>>

\* The callback panics when the balance cannot pay what it sends.
abort_and_refund(s) ==
    IF ext_balance >= MinSweepAttached
      THEN /\ Ends(s, "returned")
           /\ ext_balance' = ext_balance - MinSweepAttached
           /\ given_back' = given_back + MinSweepAttached
           /\ UNCHANGED own
      ELSE /\ Ends(s, "failed")
           /\ UNCHANGED <<ext_balance, given_back, own>>

\* Variant: a wallet without tokens ends the sweep and nothing is sent back.
after_balance_for_sweep_strands(s) ==
    /\ At(s, "balance_cb")
    /\ CASE sweeps[s].result = "err" -> abort_and_refund(s)
         [] sweeps[s].result = "zero" ->
              Ends(s, "signed") /\ UNCHANGED <<ext_balance, given_back, own>>
         [] sweeps[s].result = "some" /\ ext_balance >= StorageDeposit ->
              /\ Goes(s, "storage")
              /\ ext_balance' = ext_balance - StorageDeposit
              /\ UNCHANGED <<given_back, own>>
         [] OTHER ->
              Ends(s, "failed") /\ UNCHANGED <<ext_balance, given_back, own>>

after_balance_for_sweep(s) ==
    /\ At(s, "balance_cb")
    /\ CASE sweeps[s].result \in {"zero", "err"} -> abort_and_refund(s)
         [] sweeps[s].result = "some" /\ ext_balance >= StorageDeposit ->
              /\ Goes(s, "storage")
              /\ ext_balance' = ext_balance - StorageDeposit
              /\ UNCHANGED <<given_back, own>>
         [] OTHER ->
              Ends(s, "failed") /\ UNCHANGED <<ext_balance, given_back, own>>

\* Variant: a storage deposit that failed is sent again.
after_storage_for_sweep_retries(s) ==
    /\ At(s, "storage_cb")
    /\ CASE sweeps[s].result = "err" ->
              /\ Goes(s, "storage")
              /\ ext_balance' = ext_balance - StorageDeposit
              /\ UNCHANGED <<given_back, own>>
         [] sweeps[s].result = "ok" /\ ext_balance >= 1 ->
              /\ Goes(s, "sign")
              /\ ext_balance' = ext_balance - 1
              /\ UNCHANGED <<given_back, own>>
         [] OTHER ->
              Ends(s, "unsigned") /\ own' = own + 1 /\ UNCHANGED <<ext_balance, given_back>>

\* A callback that cannot pay the yocto fails, and the yocto stays.
after_storage_for_sweep(s) ==
    /\ At(s, "storage_cb")
    /\ CASE sweeps[s].result = "err" -> abort_and_refund(s)
         [] sweeps[s].result = "ok" /\ ext_balance >= 1 ->
              /\ Goes(s, "sign")
              /\ ext_balance' = ext_balance - 1
              /\ UNCHANGED <<given_back, own>>
         [] OTHER ->
              Ends(s, "unsigned") /\ own' = own + 1 /\ UNCHANGED <<ext_balance, given_back>>

\* Variant: a sweep that was not signed gives its deposit back too.
after_sweep_settled_refunds(s) ==
    /\ At(s, "settle")
    /\ IF sweeps[s].result = "signed"
         THEN Ends(s, "signed") /\ UNCHANGED <<ext_balance, given_back, own>>
         ELSE abort_and_refund(s)

after_sweep_settled(s) ==
    /\ At(s, "settle")
    /\ Ends(s, IF sweeps[s].result = "signed" THEN "signed" ELSE "unsigned")
    /\ UNCHANGED <<ext_balance, given_back, own>>

\* An admin takes what the balance allows.
skim(caller, amount) ==
    /\ caller \in ext_admins
    /\ amount <= ext_balance
    /\ ext_balance' = ext_balance - amount
    /\ own' = own - amount
    /\ UNCHANGED <<sweeps, given_back>>

-----------------------------------------------------------------------------
(* The token.                                                              *)

RunBalanceOf(s) ==
    /\ At(s, "balance")
    /\ \E answer \in {"zero", "some", "err"} : Reply(s, "balance_cb", answer)
    /\ UNCHANGED <<ext_balance, given_back, own>>

\* A token keeps the deposit, or returns it when the destination was
\* registered before; one that refuses returns it with the failure.
RunStorageDeposit(s) ==
    /\ At(s, "storage")
    /\ \/ Reply(s, "storage_cb", "ok") /\ UNCHANGED <<ext_balance, own>>
       \/ /\ Reply(s, "storage_cb", "ok")
          /\ ext_balance' = ext_balance + StorageDeposit
          /\ own' = own + StorageDeposit
       \/ /\ Reply(s, "storage_cb", "err")
          /\ ext_balance' = ext_balance + StorageDeposit
          /\ UNCHANGED own
    /\ UNCHANGED given_back

-----------------------------------------------------------------------------

FtSweepTypeOK ==
    /\ sweeps      \in [Sweeps -> SweepChain]
    /\ ext_balance \in Nat
    /\ given_back  \in Nat
    /\ own         \in Int

=============================================================================
