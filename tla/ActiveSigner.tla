---------------------------- MODULE ActiveSigner ----------------------------
(***************************************************************************)
(* contracts/active-signer: the contract that holds, for every rented      *)
(* wallet, the operating key of its owner, the freeze flag and two nonce   *)
(* windows, and that asks the MPC network to sign what the owner (or the   *)
(* marketplace) authorised.                                                *)
(*                                                                         *)
(* A public method is one atomic action: a NEAR receipt either runs to its *)
(* end or panics and changes nothing.  A method that returns a value to a  *)
(* promise callback is written as an outcome operator ("panic" for a       *)
(* failed receipt) and an action that has the effect of that outcome, so   *)
(* that the callers' modules can use both.                                 *)
(*                                                                         *)
(* Abstracted: the MPC-derived key of a wallet (never changes after        *)
(* install), last_signed_at (written, and read only by a view), the        *)
(* contents of transactions and messages (their bytes are in TxEncoding),  *)
(* the owner's requests to the MPC network (on_signed changes no state;    *)
(* those of a sweep are in TokenSweep), and the expiry of an envelope: the *)
(* window of defuse_wallet remembers a nonce for as long as an envelope    *)
(* that uses it is valid.                                                  *)
(***************************************************************************)
EXTENDS HosAccounts

CONSTANTS
    Nonces,     \* envelope nonces
    Minters,    \* accounts that may be registered as minters (the TLAs)
    Parent      \* the TLA a wallet's name is directly under

VARIABLES
    signers,    \* wallet -> signer entry, or None before install_signer
    minters,    \* registered minters
    admins,     \* registered admins
    honoured    \* history: requests honoured per nonce in the current tenure

signerVars == <<signers, minters, admins, honoured>>

FreezeState == {"Unfrozen", "SelfFrozen", "RecoveryFrozen"}

SignerEntry == [public_key    : Keys,
                frozen        : FreezeState,
                nonces        : SUBSET Nonces,
                freeze_nonces : SUBSET Nonces]

\* Who calls: the two authorities of the contract, or anybody else.
Callers == {"marketplace", "recovery", "stranger"}

\* An owner-signed envelope; the domain tag is part of what is signed.
Envelope == [domain    : {"TX", "MSG", "FREEZE"},
             signer_id : Wallets,
             key       : Keys,
             nonce     : Nonces]

ASSUME SignerConstants ==
    /\ Parent \in [Wallets -> Minters]
    /\ None \notin SignerEntry

-----------------------------------------------------------------------------

HasSigner(w) == signers[w] # None

\* The entry of a wallet whose key belongs to a new tenant: nonce windows
\* start empty and nothing is frozen.
FreshEntry(k) == [public_key    |-> k,
                  frozen        |-> "Unfrozen",
                  nonces        |-> {},
                  freeze_nonces |-> {}]

NothingHonoured == [n \in Nonces |-> 0]

SignerInit ==
    /\ signers  = [w \in Wallets |-> None]
    /\ minters  = {}
    /\ admins   = {FirstAdmin}
    /\ honoured = [w \in Wallets |-> NothingHonoured]

-----------------------------------------------------------------------------
(* Administration.                                                         *)

add_minter(caller, m) ==
    /\ caller \in admins
    /\ minters' = minters \cup {m}
    /\ UNCHANGED <<signers, admins, honoured>>

remove_minter(caller, m) ==
    /\ caller \in admins
    /\ minters' = minters \ {m}
    /\ UNCHANGED <<signers, admins, honoured>>

add_admin(caller, a) ==
    /\ caller \in admins
    /\ admins' = admins \cup {a}
    /\ UNCHANGED <<signers, minters, honoured>>

remove_admin(caller, a) ==
    /\ caller \in admins
    /\ Cardinality(admins) > 1
    /\ admins' = admins \ {a}
    /\ UNCHANGED <<signers, minters, honoured>>

-----------------------------------------------------------------------------
(* A wallet's signer entry is installed once, by the TLA it is under.      *)

\* Variant: a second installation is not refused.
install_signer_again(caller, w, k) ==
    /\ caller \in minters
    /\ Parent[w] = caller
    /\ signers' = [signers EXCEPT ![w] = FreshEntry(k)]
    /\ UNCHANGED <<minters, admins, honoured>>

install_signer(caller, w, k) ==
    /\ caller \in minters
    /\ Parent[w] = caller
    /\ ~HasSigner(w)
    /\ signers' = [signers EXCEPT ![w] = FreshEntry(k)]
    /\ UNCHANGED <<minters, admins, honoured>>

-----------------------------------------------------------------------------
(* Requests signed by the owner.  Transactions and messages share the      *)
(* window `nonces'; freezes have a window of their own.                    *)

authorize(w, env) ==
    /\ HasSigner(w)
    /\ signers[w].frozen = "Unfrozen"
    /\ env.key = signers[w].public_key
    /\ env.nonce \notin signers[w].nonces
    /\ signers'  = [signers EXCEPT ![w].nonces = @ \cup {env.nonce}]
    /\ honoured' = [honoured EXCEPT ![w][env.nonce] = @ + 1]

submit_signed_tx(w, env) ==
    /\ env.domain = "TX"
    /\ env.signer_id = w
    /\ authorize(w, env)
    /\ UNCHANGED <<minters, admins>>

submit_signed_message(w, env) ==
    /\ env.domain = "MSG"
    /\ env.signer_id = w
    /\ authorize(w, env)
    /\ UNCHANGED <<minters, admins>>

HaltedEntry(entry, nonce) ==
    [entry EXCEPT !.freeze_nonces = @ \cup {nonce}, !.frozen = "SelfFrozen"]

self_freeze(w, env) ==
    /\ env.domain = "FREEZE"
    /\ env.signer_id = w
    /\ HasSigner(w)
    /\ env.key = signers[w].public_key
    /\ env.nonce \notin signers[w].freeze_nonces
    /\ signers' = [signers EXCEPT ![w] = HaltedEntry(@, env.nonce)]
    /\ UNCHANGED <<minters, admins, honoured>>

-----------------------------------------------------------------------------
(* Methods of the two authorities.  Each is the outcome its caller's       *)
(* callback sees and the effect it has.                                    *)

\* Variant: a sale does not ask whether the wallet is frozen.
SwapAllowed_frozen(caller, w) ==
    /\ HasSigner(w)
    /\ \/ caller = "marketplace"
       \/ caller = "recovery" /\ signers[w].frozen # "Unfrozen"

SwapAllowed(caller, w) ==
    /\ HasSigner(w)
    /\ \/ caller = "marketplace" /\ signers[w].frozen = "Unfrozen"
       \/ caller = "recovery"    /\ signers[w].frozen # "Unfrozen"

\* Variant: the expected owner is not compared.
OwnerIs_unchecked(w, expected) == expected = None \/ HasSigner(w)

OwnerIs(w, expected) == expected = None \/ signers[w].public_key = expected

SwapOutcome(caller, w, expected) ==
    CASE ~SwapAllowed(caller, w) -> "panic"
      [] SwapAllowed(caller, w) /\ ~OwnerIs(w, expected) -> "false"
      [] OTHER -> "true"

\* Variant: the two keys of a swap are mixed up.
swap_owner_mixed(caller, w, new_public_key, expected) ==
    LET swapped == SwapOutcome(caller, w, expected) = "true"
    IN  /\ signers' = IF swapped
                        THEN [signers EXCEPT ![w] = FreshEntry(expected)]
                        ELSE signers
        /\ honoured' = IF swapped
                         THEN [honoured EXCEPT ![w] = NothingHonoured]
                         ELSE honoured
        /\ UNCHANGED <<minters, admins>>

\* A swap that returns true starts a new tenure of the wallet.
swap_owner(caller, w, new_public_key, expected) ==
    LET swapped == SwapOutcome(caller, w, expected) = "true"
    IN  /\ signers' = IF swapped
                        THEN [signers EXCEPT ![w] = FreshEntry(new_public_key)]
                        ELSE signers
        /\ honoured' = IF swapped
                         THEN [honoured EXCEPT ![w] = NothingHonoured]
                         ELSE honoured
        /\ UNCHANGED <<minters, admins>>

\* Variant: the freeze does not compare the owner.
FreezeOutcome_unchecked(caller, w, expected) ==
    IF caller = "recovery" /\ HasSigner(w) THEN "ok" ELSE "panic"

FreezeOutcome(caller, w, expected) ==
    IF caller = "recovery" /\ HasSigner(w) /\ OwnerIs(w, expected)
      THEN "ok"
      ELSE "panic"

\* A freeze never overwrites the owner's own freeze.
freeze(caller, w, expected) ==
    /\ signers' = IF /\ FreezeOutcome(caller, w, expected) = "ok"
                     /\ signers[w].frozen # "SelfFrozen"
                    THEN [signers EXCEPT ![w].frozen = "RecoveryFrozen"]
                    ELSE signers
    /\ UNCHANGED <<minters, admins, honoured>>

UnfreezeOutcome(caller, w) ==
    IF caller = "recovery" /\ HasSigner(w) THEN "ok" ELSE "panic"

\* Variant: the owner's own freeze is cleared too.
unfreeze_any(caller, w) ==
    /\ signers' = IF UnfreezeOutcome(caller, w) = "ok"
                    THEN [signers EXCEPT ![w].frozen = "Unfrozen"]
                    ELSE signers
    /\ UNCHANGED <<minters, admins, honoured>>

\* Variant: the entry is rebuilt, and forgets the nonces that were used.
unfreeze_rebuilt(caller, w) ==
    /\ signers' = IF /\ UnfreezeOutcome(caller, w) = "ok"
                     /\ signers[w].frozen # "SelfFrozen"
                    THEN [signers EXCEPT ![w] = FreshEntry(@.public_key)]
                    ELSE signers
    /\ UNCHANGED <<minters, admins, honoured>>

\* Refusing to clear the owner's own freeze is not a failure of the call.
unfreeze(caller, w) ==
    /\ signers' = IF /\ UnfreezeOutcome(caller, w) = "ok"
                     /\ signers[w].frozen # "SelfFrozen"
                    THEN [signers EXCEPT ![w].frozen = "Unfrozen"]
                    ELSE signers
    /\ UNCHANGED <<minters, admins, honoured>>

\* The marketplace has a transaction of the wallet signed.  Only
\* last_signed_at changes; the signature comes from the MPC network later.
AuthoritySignOutcome(caller, w) ==
    IF caller = "marketplace" /\ HasSigner(w) /\ signers[w].frozen = "Unfrozen"
      THEN "ok"
      ELSE "panic"

-----------------------------------------------------------------------------
(* What anybody can do to the contract without an authority's role.        *)

SignerAdministration ==
    \E caller \in Admins :
        \/ \E m \in Minters : add_minter(caller, m) \/ remove_minter(caller, m)
        \/ \E a \in Admins  : add_admin(caller, a) \/ remove_admin(caller, a)

Mint == \E caller \in Minters, w \in Wallets, k \in Keys :
            install_signer(caller, w, k)

OwnerRequest ==
    \E w \in Wallets, env \in Envelope :
        submit_signed_tx(w, env) \/ submit_signed_message(w, env)

SelfFreeze == \E w \in Wallets, env \in Envelope : self_freeze(w, env)

\* Calls of the authorities, with any arguments: the standalone contract
\* trusts its authorities with nothing beyond their identity.
AuthorityCall ==
    \E caller \in Callers, w \in Wallets, expected \in KeyOrNone :
        \/ \E k \in Keys : swap_owner(caller, w, k, expected)
        \/ freeze(caller, w, expected)
        \/ unfreeze(caller, w)

SignerNext ==
    \/ SignerAdministration
    \/ Mint
    \/ OwnerRequest
    \/ SelfFreeze
    \/ AuthorityCall

SignerSpec == SignerInit /\ [][SignerNext]_signerVars

-----------------------------------------------------------------------------
(* Properties of the contract on its own.                                  *)

SignerTypeOK ==
    /\ signers  \in [Wallets -> SignerEntry \cup {None}]
    /\ minters  \subseteq Minters
    /\ admins   \subseteq Admins
    /\ honoured \in [Wallets -> [Nonces -> Nat]]

\* Within one tenure of a wallet every nonce is honoured at most once, a
\* transaction and a message counted together (authorize, submit_signed_tx,
\* submit_signed_message): freezes, unfreezes and refused swaps in between
\* never make a used envelope good again.
HonouredOnce ==
    \A w \in Wallets, n \in Nonces : honoured[w][n] <= 1

\* The owner's freeze is one-way (self_freeze, freeze, unfreeze, swap_owner):
\* a self-frozen wallet stays self-frozen until a swap by the recovery
\* authority, and that swap leaves it unfrozen with empty nonce windows.
HaltStep ==
    \A w \in Wallets :
        /\ HasSigner(w)
        /\ signers[w].frozen = "SelfFrozen"
        /\ signers'[w] # signers[w]
        => \/ signers'[w].frozen = "SelfFrozen"
           \/ \E k \in Keys, e \in KeyOrNone :
                 /\ swap_owner("recovery", w, k, e)
                 /\ signers'[w] = FreshEntry(k)

HaltIsOneWay == [][HaltStep]_signerVars

\* Whoever is a minter or an admin, the operating key of an installed wallet
\* changes only by a swap of the marketplace while nothing is frozen or of
\* the recovery while it is frozen (install_signer, swap_owner).
RekeyStep ==
    \A w \in Wallets :
        /\ HasSigner(w)
        /\ signers'[w] = None \/ signers'[w].public_key # signers[w].public_key
        => \E k \in Keys, e \in KeyOrNone :
              \/ /\ signers[w].frozen = "Unfrozen"
                 /\ swap_owner("marketplace", w, k, e)
              \/ /\ signers[w].frozen # "Unfrozen"
                 /\ swap_owner("recovery", w, k, e)

RekeyedByAuthority == [][RekeyStep]_signerVars

=============================================================================
