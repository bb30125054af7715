---------------------------- MODULE HosExtension ----------------------------
(***************************************************************************)
(* contracts/hos-extension: the marketplace authority of the active        *)
(* signer.  The registry alone may drive it.  force_transfer starts a      *)
(* chain of receipts                                                       *)
(*                                                                         *)
(*   swap_owner (active signer) -> after_force_swap (here)                 *)
(*                              -> on_wallet_transferred (recovery)        *)
(*                                                                         *)
(* which is one element of `transfers'; its stage says which receipt of    *)
(* the chain is due.  The last receipt is detached: nobody sees it fail.   *)
(* The sweep of fungible tokens is in FtSweep.                             *)
(***************************************************************************)
EXTENDS HosAccounts

CONSTANTS
    Transfers   \* bound: the force transfers of a behaviour, by name

VARIABLES
    paused,     \* the contract's pause switch
    ext_admins, \* admins of the extension
    transfers   \* force transfer -> its chain of receipts

extensionVars == <<paused, ext_admins, transfers>>

\* A chain keeps what its next receipt needs, and nothing before and after.
ChainAt(stages, wallets, new_keys, expecteds, results) ==
    [stage : stages, wallet : wallets, new_key : new_keys,
     expected : expecteds, result : results]

Chain ==
    ChainAt({"unused", "done"}, {None}, {None}, {None}, {"none"})
    \cup ChainAt({"swap"}, Wallets, Keys, KeyOrNone, {"none"})
    \cup ChainAt({"callback"}, Wallets, {None}, {None}, {"true", "false", "err"})
    \cup ChainAt({"reset"}, Wallets, {None}, {None}, {"none"})

NoChain(stage) == [stage |-> stage, wallet |-> None, new_key |-> None,
                   expected |-> None, result |-> "none"]

ExtensionInit ==
    /\ paused     = FALSE
    /\ ext_admins = {FirstAdmin}
    /\ transfers  = [t \in Transfers |-> NoChain("unused")]

-----------------------------------------------------------------------------
(* Administration.                                                         *)

pause(caller) ==
    /\ caller \in ext_admins
    /\ paused' = TRUE
    /\ UNCHANGED <<ext_admins, transfers>>

unpause(caller) ==
    /\ caller \in ext_admins
    /\ paused' = FALSE
    /\ UNCHANGED <<ext_admins, transfers>>

ext_add_admin(caller, a) ==
    /\ caller \in ext_admins
    /\ ext_admins' = ext_admins \cup {a}
    /\ UNCHANGED <<paused, transfers>>

ext_remove_admin(caller, a) ==
    /\ caller \in ext_admins
    /\ Cardinality(ext_admins) > 1
    /\ ext_admins' = ext_admins \ {a}
    /\ UNCHANGED <<paused, transfers>>

-----------------------------------------------------------------------------
(* The chain of a force transfer.                                          *)

force_transfer(t, caller, w, new_key, expected) ==
    /\ transfers[t].stage = "unused"
    /\ caller = "registry"
    /\ ~paused
    /\ transfers' = [transfers EXCEPT ![t] =
         [stage |-> "swap", wallet |-> w, new_key |-> new_key,
          expected |-> expected, result |-> "none"]]
    /\ UNCHANGED <<paused, ext_admins>>

\* The active signer's answer to the swap of chain t.
SwapAnswered(t, result) ==
    /\ transfers' = [transfers EXCEPT ![t] =
         [stage |-> "callback", wallet |-> transfers[t].wallet, new_key |-> None,
          expected |-> None, result |-> result]]
    /\ UNCHANGED <<paused, ext_admins>>

\* What the registry gets: the callback itself never fails.
Transferred(t) == transfers[t].result = "true"

after_force_swap(t) ==
    /\ transfers[t].stage = "callback"
    /\ transfers' = [transfers EXCEPT ![t] =
         IF Transferred(t)
           THEN [stage |-> "reset", wallet |-> transfers[t].wallet, new_key |-> None,
                 expected |-> None, result |-> "none"]
           ELSE NoChain("done")]
    /\ UNCHANGED <<paused, ext_admins>>

\* The detached receipt to the recovery contract has run.
ResetDelivered(t) ==
    /\ transfers' = [transfers EXCEPT ![t] = NoChain("done")]
    /\ UNCHANGED <<paused, ext_admins>>

-----------------------------------------------------------------------------

ExtensionAdministration ==
    \E caller \in Admins :
        \/ pause(caller)
        \/ unpause(caller)
        \/ \E a \in Admins : ext_add_admin(caller, a) \/ ext_remove_admin(caller, a)

ForceTransfer ==
    \E t \in Transfers, caller \in {"registry", "stranger"},
       w \in Wallets, k \in Keys, expected \in KeyOrNone :
        force_transfer(t, caller, w, k, expected)

ExtensionTypeOK ==
    /\ paused     \in BOOLEAN
    /\ ext_admins \subseteq Admins
    /\ transfers  \in [Transfers -> Chain]

=============================================================================
