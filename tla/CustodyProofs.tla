---------------------------- MODULE CustodyProofs ---------------------------
(* Proofs about the custody contracts, for any number of wallets, keys,    *)
(* nonces, admins and transfers in flight: the active signer by itself     *)
(* first, then the three contracts together.                               *)
EXTENDS Custody, MpcRecoveryProofs

-----------------------------------------------------------------------------
(* The active signer: type correctness.                                    *)

LEMMA FreshEntryType ==
    \A k \in Keys : FreshEntry(k) \in SignerEntry
BY DEF FreshEntry, SignerEntry, FreezeState

\* What a step of one wallet's entry leaves well typed.
LEMMA EntryType ==
    ASSUME SignerTypeOK, NEW w \in Wallets, HasSigner(w)
    PROVE  signers[w] \in SignerEntry
BY DEF SignerTypeOK, HasSigner

LEMMA NoneIsNoEntry == None \notin SignerEntry
BY SignerConstants

\* The entry self_freeze leaves differs in the freeze only.
LEMMA HaltedEntryType ==
    ASSUME NEW e \in SignerEntry, NEW n \in Nonces
    PROVE  /\ HaltedEntry(e, n) \in SignerEntry
           /\ HaltedEntry(e, n).frozen = "SelfFrozen"
           /\ HaltedEntry(e, n).public_key = e.public_key
           /\ HaltedEntry(e, n).nonces = e.nonces
<1>1. PICK y : y = [e EXCEPT !.freeze_nonces = @ \cup {n}]
  OBVIOUS
<1>2. y \in SignerEntry /\ y.public_key = e.public_key /\ y.nonces = e.nonces
  BY <1>1 DEF SignerEntry
<1>3. HaltedEntry(e, n) = [y EXCEPT !.frozen = "SelfFrozen"]
  BY <1>1 DEF HaltedEntry
<1> QED BY <1>2, <1>3 DEF SignerEntry, FreezeState

\* Every step of the contract keeps its state well typed.
LEMMA SignerTypeStep ==
    ASSUME SignerTypeOK, [SignerNext]_signerVars
    PROVE  SignerTypeOK'
<1>1. CASE SignerAdministration
  BY <1>1 DEF SignerAdministration, add_minter, remove_minter, add_admin,
              remove_admin, SignerTypeOK
<1>2. CASE Mint
  BY <1>2, FreshEntryType DEF Mint, install_signer, SignerTypeOK
<1>3. CASE OwnerRequest
  <2> PICK w \in Wallets, env \in Envelope :
           authorize(w, env) /\ UNCHANGED <<minters, admins>>
    BY <1>3 DEF OwnerRequest, submit_signed_tx, submit_signed_message
  <2>1. signers[w] \in SignerEntry /\ env.nonce \in Nonces
    BY EntryType DEF authorize, Envelope
  <2>2. [signers[w] EXCEPT !.nonces = @ \cup {env.nonce}] \in SignerEntry
    BY <2>1 DEF SignerEntry
  <2>3. signers' \in [Wallets -> SignerEntry \cup {None}]
    BY <2>2 DEF authorize, SignerTypeOK
  <2>4. honoured' \in [Wallets -> [Nonces -> Nat]]
    BY <2>1 DEF authorize, SignerTypeOK
  <2> QED BY <2>3, <2>4 DEF SignerTypeOK
<1>4. CASE SelfFreeze
  <2> PICK w \in Wallets, env \in Envelope : self_freeze(w, env)
    BY <1>4 DEF SelfFreeze
  <2>1. signers[w] \in SignerEntry /\ env.nonce \in Nonces
    BY EntryType DEF self_freeze, Envelope
  <2>2. HaltedEntry(signers[w], env.nonce) \in SignerEntry
    BY <2>1, HaltedEntryType
  <2> QED BY <2>2 DEF self_freeze, SignerTypeOK
<1>5. CASE AuthorityCall
  <2> PICK caller \in Callers, w \in Wallets, expected \in KeyOrNone :
           \/ \E k \in Keys : swap_owner(caller, w, k, expected)
           \/ freeze(caller, w, expected)
           \/ unfreeze(caller, w)
    BY <1>5 DEF AuthorityCall
  <2>1. ASSUME NEW k \in Keys, swap_owner(caller, w, k, expected)
        PROVE  SignerTypeOK'
    BY <2>1, FreshEntryType DEF swap_owner, SignerTypeOK, NothingHonoured
  <2>2. ASSUME NEW f \in FreezeState, HasSigner(w)
        PROVE  [signers[w] EXCEPT !.frozen = f] \in SignerEntry
    BY <2>2, EntryType DEF SignerEntry
  <2>3. CASE freeze(caller, w, expected)
    BY <2>2, <2>3 DEF freeze, FreezeOutcome, SignerTypeOK, FreezeState
  <2>4. CASE unfreeze(caller, w)
    BY <2>2, <2>4 DEF unfreeze, UnfreezeOutcome, SignerTypeOK, FreezeState
  <2> QED BY <2>1, <2>3, <2>4
<1>6. CASE UNCHANGED signerVars
  BY <1>6 DEF signerVars, SignerTypeOK
<1> QED BY <1>1, <1>2, <1>3, <1>4, <1>5, <1>6 DEF SignerNext

\* Type correctness of the active signer.
THEOREM SignerTypeCorrect == SignerSpec => []SignerTypeOK
<1>1. SignerInit => SignerTypeOK
  BY AccountConstants DEF SignerInit, SignerTypeOK, NothingHonoured
<1>2. SignerTypeOK /\ [SignerNext]_signerVars => SignerTypeOK'
  BY SignerTypeStep
<1> QED BY <1>1, <1>2, PTL DEF SignerSpec

-----------------------------------------------------------------------------
(* A nonce is honoured once in a tenure.  The inductive invariant says     *)
(* that the window of the entry is the exact record of what was honoured.  *)

WindowIsRecord ==
    \A w \in Wallets, n \in Nonces :
        honoured[w][n] = IF HasSigner(w) /\ n \in signers[w].nonces THEN 1 ELSE 0

LEMMA WindowStep ==
    ASSUME SignerTypeOK, WindowIsRecord, [SignerNext]_signerVars
    PROVE  WindowIsRecord'
<1>1. CASE SignerAdministration
  BY <1>1 DEF SignerAdministration, add_minter, remove_minter, add_admin,
              remove_admin, WindowIsRecord, HasSigner
<1>2. CASE Mint
  <2> PICK c \in Minters, w \in Wallets, k \in Keys : install_signer(c, w, k)
    BY <1>2 DEF Mint
  <2>1. signers'[w].nonces = {} /\ \A v \in Wallets \ {w} : signers'[v] = signers[v]
    BY DEF install_signer, FreshEntry, SignerTypeOK
  <2>2. \A n \in Nonces : honoured[w][n] = 0
    BY DEF install_signer, WindowIsRecord
  <2> QED BY <2>1, <2>2 DEF install_signer, WindowIsRecord, HasSigner
<1>3. CASE OwnerRequest
  <2> PICK w \in Wallets, env \in Envelope : authorize(w, env)
    BY <1>3 DEF OwnerRequest, submit_signed_tx, submit_signed_message
  <2>1. signers[w] \in SignerEntry /\ env.nonce \in Nonces
    BY EntryType DEF authorize, Envelope
  <2>2. /\ signers'[w] = [signers[w] EXCEPT !.nonces = @ \cup {env.nonce}]
        /\ \A v \in Wallets \ {w} : signers'[v] = signers[v]
    BY DEF authorize, SignerTypeOK
  <2>3. signers'[w] \in SignerEntry /\ signers'[w].nonces = signers[w].nonces \cup {env.nonce}
    BY <2>1, <2>2 DEF SignerEntry
  <2>4. /\ honoured'[w][env.nonce] = honoured[w][env.nonce] + 1
        /\ \A n \in Nonces \ {env.nonce} : honoured'[w][n] = honoured[w][n]
        /\ \A v \in Wallets \ {w} : honoured'[v] = honoured[v]
    BY <2>1 DEF authorize, SignerTypeOK
  <2>5. honoured[w][env.nonce] = 0
    BY <2>1 DEF authorize, WindowIsRecord
  <2>6. HasSigner(w)'
    BY <2>3, NoneIsNoEntry DEF HasSigner
  <2> QED BY <2>1, <2>2, <2>3, <2>4, <2>5, <2>6 DEF WindowIsRecord, HasSigner, authorize
<1>4. CASE SelfFreeze
  <2> PICK w \in Wallets, env \in Envelope : self_freeze(w, env)
    BY <1>4 DEF SelfFreeze
  <2>1. signers[w] \in SignerEntry /\ env.nonce \in Nonces
    BY EntryType DEF self_freeze, Envelope
  <2>2. /\ signers'[w] = HaltedEntry(signers[w], env.nonce)
        /\ \A v \in Wallets \ {w} : signers'[v] = signers[v]
    BY DEF self_freeze, SignerTypeOK
  <2>3. signers'[w] \in SignerEntry /\ signers'[w].nonces = signers[w].nonces
    BY <2>1, <2>2, HaltedEntryType
  <2> QED BY <2>1, <2>2, <2>3, NoneIsNoEntry DEF WindowIsRecord, HasSigner, self_freeze
<1>5. CASE AuthorityCall
  <2> PICK caller \in Callers, w \in Wallets, expected \in KeyOrNone :
           \/ \E k \in Keys : swap_owner(caller, w, k, expected)
           \/ freeze(caller, w, expected)
           \/ unfreeze(caller, w)
    BY <1>5 DEF AuthorityCall
  <2>1. ASSUME NEW k \in Keys, swap_owner(caller, w, k, expected)
        PROVE  WindowIsRecord'
    BY <2>1 DEF swap_owner, SignerTypeOK, NothingHonoured, FreshEntry,
                WindowIsRecord, HasSigner
  <2>2. ASSUME NEW f \in FreezeState, HasSigner(w),
               signers' = [signers EXCEPT ![w].frozen = f], UNCHANGED honoured
        PROVE  WindowIsRecord'
    <3>1. /\ signers'[w] = [signers[w] EXCEPT !.frozen = f]
          /\ \A v \in Wallets \ {w} : signers'[v] = signers[v]
      BY <2>2 DEF SignerTypeOK
    <3>2. signers'[w] \in SignerEntry /\ signers'[w].nonces = signers[w].nonces
      BY <2>2, <3>1, EntryType DEF SignerEntry
    <3> QED BY <2>2, <3>1, <3>2, NoneIsNoEntry DEF WindowIsRecord, HasSigner
  <2>3. ASSUME UNCHANGED <<signers, honoured>> PROVE WindowIsRecord'
    BY <2>3 DEF WindowIsRecord, HasSigner
  <2>4. CASE freeze(caller, w, expected)
    BY <2>2, <2>3, <2>4 DEF freeze, FreezeOutcome, FreezeState
  <2>5. CASE unfreeze(caller, w)
    BY <2>2, <2>3, <2>5 DEF unfreeze, UnfreezeOutcome, FreezeState
  <2> QED BY <2>1, <2>4, <2>5
<1>6. CASE UNCHANGED signerVars
  BY <1>6 DEF signerVars, WindowIsRecord, HasSigner
<1> QED BY <1>1, <1>2, <1>3, <1>4, <1>5, <1>6 DEF SignerNext

\* Within a tenure a nonce is honoured at most once, for any number of
\* wallets, keys and nonces (authorize and every method that touches the
\* window it commits to).
THEOREM NonceHonouredOnce == SignerSpec => []HonouredOnce
<1>1. SignerInit => WindowIsRecord
  BY DEF SignerInit, WindowIsRecord, HasSigner, NothingHonoured
<1>2. SignerTypeOK /\ WindowIsRecord /\ [SignerNext]_signerVars => WindowIsRecord'
  BY WindowStep
<1>3. WindowIsRecord => HonouredOnce
  BY DEF WindowIsRecord, HonouredOnce
<1> QED BY <1>1, <1>2, <1>3, SignerTypeCorrect, PTL DEF SignerSpec

-----------------------------------------------------------------------------
(* Action properties.                                                      *)

\* What any step can do to the entry of a wallet that has one.
LEMMA EntryChange ==
    ASSUME SignerTypeOK, SignerNext, NEW w \in Wallets, HasSigner(w),
           signers'[w] # signers[w]
    PROVE  \/ /\ signers'[w] \in SignerEntry
              /\ signers'[w].public_key = signers[w].public_key
              /\ signers[w].frozen = "SelfFrozen" => signers'[w].frozen = "SelfFrozen"
           \/ \E caller \in {"marketplace", "recovery"}, k \in Keys, e \in KeyOrNone :
                 /\ swap_owner(caller, w, k, e)
                 /\ SwapAllowed(caller, w)
                 /\ signers'[w] = FreshEntry(k)
<1> DEFINE Kept == /\ signers'[w] \in SignerEntry
                   /\ signers'[w].public_key = signers[w].public_key
                   /\ signers[w].frozen = "SelfFrozen" => signers'[w].frozen = "SelfFrozen"
<1>0. signers[w] \in SignerEntry
  BY EntryType
<1>1. CASE SignerAdministration
  BY <1>1 DEF SignerAdministration, add_minter, remove_minter, add_admin, remove_admin
<1>2. CASE Mint
  BY <1>2 DEF Mint, install_signer, SignerTypeOK
<1>3. CASE OwnerRequest
  <2> PICK v \in Wallets, env \in Envelope : authorize(v, env)
    BY <1>3 DEF OwnerRequest, submit_signed_tx, submit_signed_message
  <2>1. v = w /\ env.nonce \in Nonces
    BY DEF authorize, SignerTypeOK, Envelope
  <2>2. signers'[w] = [signers[w] EXCEPT !.nonces = @ \cup {env.nonce}]
    BY <2>1 DEF authorize, SignerTypeOK
  <2>3. Kept
    BY <1>0, <2>1, <2>2 DEF SignerEntry
  <2> QED BY <2>3
<1>4. CASE SelfFreeze
  <2> PICK v \in Wallets, env \in Envelope : self_freeze(v, env)
    BY <1>4 DEF SelfFreeze
  <2>1. v = w /\ env.nonce \in Nonces
    BY DEF self_freeze, SignerTypeOK, Envelope
  <2>2. signers'[w] = HaltedEntry(signers[w], env.nonce)
    BY <2>1 DEF self_freeze, SignerTypeOK
  <2>3. Kept
    BY <1>0, <2>1, <2>2, HaltedEntryType
  <2> QED BY <2>3
<1>5. CASE AuthorityCall
  <2> PICK caller \in Callers, v \in Wallets, e \in KeyOrNone :
           \/ \E k \in Keys : swap_owner(caller, v, k, e)
           \/ freeze(caller, v, e)
           \/ unfreeze(caller, v)
    BY <1>5 DEF AuthorityCall
  <2>1. ASSUME NEW k \in Keys, swap_owner(caller, v, k, e)
        PROVE  /\ v = w
               /\ caller \in {"marketplace", "recovery"}
               /\ SwapAllowed(caller, w)
               /\ signers'[w] = FreshEntry(k)
    BY <2>1 DEF swap_owner, SwapOutcome, SwapAllowed, SignerTypeOK
  <2>2. ASSUME NEW f \in FreezeState, signers[v].frozen # "SelfFrozen",
               signers' = [signers EXCEPT ![v].frozen = f]
        PROVE  Kept
    <3>1. v = w /\ signers'[w] = [signers[w] EXCEPT !.frozen = f]
      BY <2>2 DEF SignerTypeOK
    <3> QED BY <1>0, <2>2, <3>1 DEF SignerEntry
  <2>3. CASE freeze(caller, v, e)
    <3>1. Kept
      BY <2>2, <2>3 DEF freeze, FreezeState
    <3> QED BY <3>1
  <2>4. CASE unfreeze(caller, v)
    <3>1. Kept
      BY <2>2, <2>4 DEF unfreeze, FreezeState
    <3> QED BY <3>1
  <2> QED BY <2>1, <2>3, <2>4
<1> QED BY <1>1, <1>2, <1>3, <1>4, <1>5 DEF SignerNext

\* Only a recovery swap ends the owner's own freeze.
THEOREM OwnerFreezeIsOneWay == SignerSpec => HaltIsOneWay
<1>1. ASSUME SignerTypeOK, SignerNext
      PROVE  HaltStep
  <2> SUFFICES ASSUME NEW w \in Wallets, HasSigner(w),
                      signers[w].frozen = "SelfFrozen", signers'[w] # signers[w]
               PROVE  \/ signers'[w].frozen = "SelfFrozen"
                      \/ \E k \in Keys, e \in KeyOrNone :
                            /\ swap_owner("recovery", w, k, e)
                            /\ signers'[w] = FreshEntry(k)
    BY DEF HaltStep
  <2>1. ~SwapAllowed("marketplace", w)
    BY DEF SwapAllowed
  <2> QED BY <1>1, <2>1, EntryChange
<1> QED BY <1>1, SignerTypeCorrect, PTL DEF SignerSpec, HaltIsOneWay

\* Only an authority changes the key of an installed wallet, the marketplace
\* while it is unfrozen and the recovery while it is frozen; in particular no
\* second install_signer ever does.
THEOREM OnlyAuthoritiesRekey == SignerSpec => RekeyedByAuthority
<1>1. ASSUME SignerTypeOK, SignerNext
      PROVE  RekeyStep
  <2> SUFFICES ASSUME NEW w \in Wallets, HasSigner(w),
                      \/ signers'[w] = None
                      \/ signers'[w].public_key # signers[w].public_key
               PROVE  \E k \in Keys, e \in KeyOrNone :
                         \/ /\ signers[w].frozen = "Unfrozen"
                            /\ swap_owner("marketplace", w, k, e)
                         \/ /\ signers[w].frozen # "Unfrozen"
                            /\ swap_owner("recovery", w, k, e)
    BY DEF RekeyStep
  <2>1. signers'[w] # signers[w]
    BY DEF HasSigner
  <2>2. PICK caller \in {"marketplace", "recovery"}, k \in Keys, e \in KeyOrNone :
             swap_owner(caller, w, k, e) /\ SwapAllowed(caller, w)
    BY <1>1, <2>1, EntryChange, NoneIsNoEntry
  <2>3. \/ caller = "marketplace" /\ signers[w].frozen = "Unfrozen"
        \/ caller = "recovery" /\ signers[w].frozen # "Unfrozen"
    BY <2>2 DEF SwapAllowed
  <2> QED BY <2>2, <2>3
<1> QED BY <1>1, SignerTypeCorrect, PTL DEF SignerSpec, RekeyedByAuthority

-----------------------------------------------------------------------------
(* The inductive invariant: the contracts' own invariants, and for every   *)
(* wallet the agreement of the freeze with the recovery that holds it.     *)

WalletInv(w) ==
    /\ Held(w) => /\ HasSigner(w)
                  /\ signers[w].frozen # "Unfrozen"
                  /\ signers[w].public_key = accounts[w].bound_owner
    /\ HasSigner(w) /\ signers[w].frozen = "RecoveryFrozen" => Held(w)

\* A call is answered in its own way, and a swap never with false.
ResultsFit ==
    \A p \in promises :
        \/ p.result = "pending"
        \/ p.result \in Answers(p.method) \ {"false"}

CustodyInv ==
    /\ SignerTypeOK
    /\ ExtensionTypeOK
    /\ RecoveryInv
    /\ ResultsFit
    /\ \A w \in Wallets : WalletInv(w)

\* The step leaves alone whether and for whom a recovery holds the wallet.
SameHold(w) ==
    /\ Held(w)' <=> Held(w)
    /\ Held(w) => /\ accounts'[w].bound_owner = accounts[w].bound_owner
                  /\ accounts'[w].phase.new_owner = accounts[w].phase.new_owner

-----------------------------------------------------------------------------
(* Types of the extension.                                                 *)

LEMMA ChainFields ==
    ASSUME ExtensionTypeOK, NEW t \in Transfers
    PROVE  /\ transfers[t] \in Chain
           /\ transfers[t].stage = "swap" =>
                /\ transfers[t].wallet \in Wallets
                /\ transfers[t].new_key \in Keys
                /\ transfers[t].expected \in KeyOrNone
           /\ transfers[t].stage \in {"callback", "reset"} =>
                transfers[t].wallet \in Wallets
<1>1. transfers[t] \in Chain
  BY DEF ExtensionTypeOK
<1> QED BY <1>1 DEF Chain, ChainAt

LEMMA ExtensionTypeStep ==
    ASSUME ExtensionTypeOK,
           \/ ExtensionAdministration \/ ForceTransfer
           \/ UNCHANGED extensionVars
           \/ \E t \in Transfers :
                \/ \E res \in {"true", "false", "err"} :
                      transfers[t].stage = "swap" /\ SwapAnswered(t, res)
                \/ after_force_swap(t)
                \/ ResetDelivered(t)
    PROVE  ExtensionTypeOK'
<1>1. CASE ExtensionAdministration
  BY <1>1 DEF ExtensionAdministration, pause, unpause, ext_add_admin,
              ext_remove_admin, ExtensionTypeOK
<1>2. CASE ForceTransfer
  BY <1>2 DEF ForceTransfer, force_transfer, ExtensionTypeOK, Chain, ChainAt
<1>3. CASE UNCHANGED extensionVars
  BY <1>3 DEF extensionVars, ExtensionTypeOK
<1>4. ASSUME NEW t \in Transfers, NEW res \in {"true", "false", "err"},
             transfers[t].stage = "swap", SwapAnswered(t, res)
      PROVE  ExtensionTypeOK'
  BY <1>4, ChainFields DEF SwapAnswered, ExtensionTypeOK, Chain, ChainAt
<1>5. ASSUME NEW t \in Transfers, after_force_swap(t)
      PROVE  ExtensionTypeOK'
  BY <1>5, ChainFields DEF after_force_swap, NoChain, ExtensionTypeOK, Chain, ChainAt
<1>6. ASSUME NEW t \in Transfers, ResetDelivered(t)
      PROVE  ExtensionTypeOK'
  BY <1>6 DEF ResetDelivered, NoChain, ExtensionTypeOK, Chain, ChainAt
<1> QED BY <1>1, <1>2, <1>3, <1>4, <1>5, <1>6

-----------------------------------------------------------------------------
(* What holds a wallet changes only when the freeze, the swap or the       *)
(* unfreeze itself runs.                                                   *)

LEMMA SameHoldFrame ==
    ASSUME NEW w, accounts'[w] = accounts[w],
           \A p \in promises : p.account = w => p \in promises',
           \A p \in promises' : p.account = w => p \in promises
    PROVE  SameHold(w)
BY DEF SameHold, Held, HasPolicy, Tag

\* A change of phase that neither starts nor ends a hold.
LEMMA PhaseKeepsHold ==
    ASSUME RecoveryInv, NEW a \in Wallets, HasPolicy(a), NEW w \in Wallets,
           NEW ph \in Phase, SetPhase(a, ph),
           \/ /\ ~Held(a)
              /\ \/ ph.tag = "Idle"
                 \/ accounts[a].target = "Native"
                 \/ /\ ph.tag = "Approving"
                    /\ \A p \in promises' : p.account = a => p.result = "pending"
           \/ /\ Held(a)
              /\ ph.new_owner = accounts[a].phase.new_owner
              /\ \/ ph.tag = "Approved"
                 \/ /\ ph.tag = "Resolving"
                    /\ \E p \in promises' : p.account = a /\ p.result \in {"pending", "err"},
           \A p \in promises : p.account # a => p \in promises',
           \A p \in promises' : p.account # a => p \in promises
    PROVE  SameHold(w)
<1>1. PICK x \in Account :
         /\ accounts' = [accounts EXCEPT ![a] = x]
         /\ accounts'[a] = x
         /\ x # None
         /\ x.phase = ph
         /\ x.target = accounts[a].target
         /\ x.bound_owner = accounts[a].bound_owner
  BY PhaseSet
<1>2. CASE w = a
  <2>1. HasPolicy(a)' /\ Tag(a)' = ph.tag
    BY <1>1 DEF HasPolicy, Tag
  <2>2. CASE ~Held(a)
    <3>1. ~Held(a)'
      BY <1>1, <2>1, <2>2 DEF Held
    <3> QED BY <1>2, <2>2, <3>1 DEF SameHold
  <2>3. CASE Held(a)
    <3>1. Held(a)'
      BY <1>1, <2>1, <2>3 DEF Held
    <3> QED BY <1>1, <1>2, <2>3, <3>1 DEF SameHold
  <2> QED BY <2>2, <2>3
<1>3. CASE w # a
  <2>1. accounts'[w] = accounts[w]
    BY <1>1, <1>3 DEF RecoveryInv, RecoveryTypeOK
  <2> QED BY <1>3, <2>1, SameHoldFrame
<1> QED BY <1>2, <1>3

LEMMA CallPending ==
    \A m, a, r, k, e : /\ Call(m, a, r, k, e).account = a
                       /\ Call(m, a, r, k, e).result = "pending"
BY DEF Call

LEMMA MethodKeepsHold ==
    ASSUME RecoveryInv, RecoveryCall \/ RecoveryMessage \/ Tick, NEW w \in Wallets
    PROVE  SameHold(w)
<1>1. ASSUME NEW a \in Wallets, NEW c, NEW target, NEW k, NEW ak, NEW t,
             install_policy(c, a, target, k, ak, t)
      PROVE  SameHold(w)
  <2>1. CASE a = w
    <3>1. ~Held(w)
      BY <1>1, <2>1 DEF install_policy, Held
    <3>2. accounts'[w].phase.tag = "Idle"
      BY <1>1, <2>1, PhaseFields DEF install_policy, RecoveryInv, RecoveryTypeOK
    <3> QED BY <3>1, <3>2 DEF SameHold, Held, Tag
  <2>2. CASE a # w
    <3>1. accounts'[w] = accounts[w] /\ promises' = promises
      BY <1>1, <2>2 DEF install_policy, RecoveryInv, RecoveryTypeOK
    <3> QED BY <3>1, SameHoldFrame
  <2> QED BY <2>1, <2>2
<1>2. ASSUME NEW a \in Wallets, NEW k, NEW r, NEW ak, request_recovery(a, k, r, ak)
      PROVE  SameHold(w)
  <2>1. CASE a = w
    <3>1. ~Held(w) /\ HasPolicy(w) /\ promises' = promises
      BY <1>2, <2>1 DEF request_recovery, Held
    <3>2. PICK x : /\ x = accounts'[w].phase
                   /\ x.tag = "Requested"
      <4>1. accounts'[w] = NextRound(WithPhase(accounts[w], Requested(k, r, now)))
        BY <1>2, <2>1 DEF request_recovery, RecoveryInv, RecoveryTypeOK
      <4>2. accounts'[w].phase = Requested(k, r, now)
        BY <4>1 DEF NextRound, WithPhase
      <4> QED BY <4>2, PhaseFields
    <3> QED BY <3>1, <3>2 DEF SameHold, Held, Tag
  <2>2. CASE a # w
    <3>1. accounts'[w] = accounts[w] /\ promises' = promises
      BY <1>2, <2>2 DEF request_recovery, RecoveryInv, RecoveryTypeOK
    <3> QED BY <3>1, SameHoldFrame
  <2> QED BY <2>1, <2>2
<1>3. ASSUME NEW a \in Wallets, NEW silent \in BOOLEAN, NEW signed,
             submit_verdict(a, silent, signed)
      PROVE  SameHold(w)
  <2>1. HasPolicy(a) /\ Tag(a) = "Requested" /\ ~Held(a) /\ ~Waiting(a)
    BY <1>3 DEF submit_verdict, Held, Waiting
  <2>2. \A p \in promises : p.account # a
    BY <2>1, Quiet
  <2>3. PICK k \in KeyOrNone, r \in Nat :
             k = accounts[a].phase.new_owner /\ r = accounts[a].phase.round
    BY <2>1, PolicyType DEF RecoveryInv
  <2>4. CASE SetPhase(a, Idle) /\ promises' = promises
    BY <2>1, <2>4, PhaseKeepsHold, PhaseFields, PhaseTypes
  <2>5. CASE /\ SetPhase(a, InPhase("Approved", k, r)) /\ promises' = promises
             /\ accounts[a].target = "Native"
    <3>1. InPhase("Approved", k, r) \in Phase
      BY PhaseTypes DEF PhaseTag
    <3> QED BY <2>1, <2>5, <3>1, PhaseKeepsHold
  <2>6. CASE /\ SetPhase(a, InPhase("Approving", k, r))
             /\ promises' = promises \cup {Call("freeze", a, r, None, accounts[a].bound_owner)}
    <3>1. PICK ph \in Phase : ph = InPhase("Approving", k, r) /\ ph.tag = "Approving"
      BY PhaseTypes, PhaseFields DEF PhaseTag
    <3>2. PICK c : /\ c = Call("freeze", a, r, None, accounts[a].bound_owner)
                   /\ c.account = a /\ c.result = "pending"
      BY CallPending
    <3> QED BY <2>1, <2>2, <2>6, <3>1, <3>2, PhaseKeepsHold
  <2> QED BY <1>3, <2>3, <2>4, <2>5, <2>6 DEF submit_verdict
<1>4. ASSUME NEW a \in Wallets, NEW k \in KeyOrNone, NEW r \in Nat, NEW c,
             HasPolicy(a), Tag(a) = "Approved", k = accounts[a].phase.new_owner,
             SetPhase(a, InPhase("Resolving", k, r)), promises' = promises \cup {c},
             c.account = a, c.result = "pending"
      PROVE  SameHold(w)
  <2>1. PICK ph \in Phase : ph = InPhase("Resolving", k, r) /\ ph.tag = "Resolving"
                            /\ ph.new_owner = k
    BY PhaseTypes, PhaseFields DEF PhaseTag
  <2>2. \/ Held(a)
        \/ ~Held(a) /\ accounts[a].target = "Native"
    BY <1>4, PolicyType DEF Held, RecoveryInv
  <2> QED BY <1>4, <2>1, <2>2, PhaseKeepsHold
<1>5. ASSUME NEW a \in Wallets, NEW caller, finalize_recovery(caller, a)
      PROVE  SameHold(w)
  <2>1. HasPolicy(a) /\ Tag(a) = "Approved"
    BY <1>5 DEF finalize_recovery
  <2>2. PICK k \in KeyOrNone, r \in Nat :
             k = accounts[a].phase.new_owner /\ r = accounts[a].phase.round
    BY <2>1, PolicyType DEF RecoveryInv
  <2>3. PICK c : /\ SetPhase(a, InPhase("Resolving", k, r)) /\ promises' = promises \cup {c}
                 /\ c.account = a /\ c.result = "pending"
    <3>1. PICK b \in KeyOrNone : b = accounts[a].bound_owner
      BY <2>1, PolicyType DEF RecoveryInv
    <3>2. PICK c \in {Call("sign", a, r, k, None), Call("swap_owner", a, r, k, b)} :
             SetPhase(a, InPhase("Resolving", k, r)) /\ promises' = promises \cup {c}
      BY <1>5, <2>2, <3>1 DEF finalize_recovery
    <3>3. c.account = a /\ c.result = "pending"
      BY <3>2, CallPending
    <3> QED BY <3>2, <3>3
  <2> QED BY <1>4, <2>1, <2>2, <2>3
<1>6. ASSUME NEW a \in Wallets, NEW caller, abort_recovery(caller, a)
      PROVE  SameHold(w)
  <2>1. CASE /\ SetPhase(a, Idle) /\ UNCHANGED promises
             /\ HasPolicy(a)
             /\ Tag(a) = "Requested" \/ accounts[a].target = "Native"
    <3>1. ~Held(a)
      BY <2>1 DEF Held
    <3> QED BY <2>1, <3>1, PhaseKeepsHold, PhaseFields, PhaseTypes
  <2>2. CASE /\ HasPolicy(a) /\ Tag(a) = "Approved"
             /\ SetPhase(a, InPhase("Resolving", accounts[a].phase.new_owner,
                                                 accounts[a].phase.round))
             /\ promises' = promises \cup
                  {Call("unfreeze", a, accounts[a].phase.round, None, None)}
    <3>1. PICK k \in KeyOrNone, r \in Nat :
               k = accounts[a].phase.new_owner /\ r = accounts[a].phase.round
      BY <2>2, PolicyType DEF RecoveryInv
    <3>2. PICK c : /\ promises' = promises \cup {c}
                   /\ c.account = a /\ c.result = "pending"
      BY <2>2, CallPending
    <3> QED BY <1>4, <2>2, <3>1, <3>2
  <2> QED BY <1>6, <2>1, <2>2 DEF abort_recovery
<1>7. ASSUME NEW a \in Wallets, NEW caller, NEW r, claim_native_finalized(caller, a, r)
      PROVE  SameHold(w)
  <2>1. ~Held(a) /\ HasPolicy(a) /\ SetPhase(a, Idle) /\ UNCHANGED promises
    BY <1>7 DEF claim_native_finalized, Held
  <2> QED BY <2>1, PhaseKeepsHold, PhaseFields, PhaseTypes
<1>8. CASE Tick
  BY <1>8, SameHoldFrame DEF Tick
<1>9. CASE RecoveryCall
  BY <1>1, <1>5, <1>6, <1>7, <1>9 DEF RecoveryCall
<1>10. CASE RecoveryMessage
  BY <1>2, <1>3, <1>10 DEF RecoveryMessage
<1> QED BY <1>8, <1>9, <1>10

LEMMA ResetKeepsHold ==
    ASSUME RecoveryInv, NEW a \in Wallets, on_wallet_transferred(a), NEW w \in Wallets
    PROVE  SameHold(w)
<1>1. CASE w = a /\ HasPolicy(a) /\ Tag(a) \in {"Idle", "Requested"}
  <2>1. accounts'[a] = None
    BY <1>1 DEF on_wallet_transferred, RecoveryInv, RecoveryTypeOK
  <2> QED BY <1>1, <2>1 DEF SameHold, Held, HasPolicy
<1>2. CASE ~(w = a /\ HasPolicy(a) /\ Tag(a) \in {"Idle", "Requested"})
  <2>1. accounts'[w] = accounts[w] /\ promises' = promises
    BY <1>2 DEF on_wallet_transferred, RecoveryInv, RecoveryTypeOK
  <2> QED BY <2>1, SameHoldFrame
<1> QED BY <1>1, <1>2

-----------------------------------------------------------------------------
(* Calls in flight and what they say about the hold.                       *)

\* The one call an account waits for tells whether the wallet is held.
LEMMA HeldByCall ==
    ASSUME RecoveryInv, NEW p \in promises
    PROVE  Held(p.account) <=>
              /\ accounts[p.account].target = "Wallet"
              /\ \/ Tag(p.account) = "Approving" /\ p.result = "ok"
                 \/ Tag(p.account) = "Resolving" /\ p.result \in {"pending", "err"}
BY CallbackFinds DEF Held

\* The answer of a call, with everything else of the recovery contract left
\* alone, changes the hold of its own wallet only.
LEMMA AnswerEffect ==
    ASSUME RecoveryInv, NEW p \in promises, UNCHANGED accounts,
           NEW res \in {"ok", "true", "err"}, Answered(p, res)
    PROVE  /\ Held(p.account)' <=>
                /\ accounts[p.account].target = "Wallet"
                /\ \/ Tag(p.account) = "Approving" /\ res = "ok"
                   \/ Tag(p.account) = "Resolving" /\ res = "err"
           /\ \A w \in Wallets \ {p.account} : SameHold(w)
<1>1. PICK q : /\ q = [p EXCEPT !.result = res]
               /\ q.account = p.account /\ q.result = res
  <2>1. p \in Promise
    BY DEF RecoveryInv, RecoveryTypeOK
  <2>2. /\ [p EXCEPT !.result = res].account = p.account
        /\ [p EXCEPT !.result = res].result = res
    BY <2>1, AnsweredFields
  <2> QED BY <2>2
<1>2. promises' = (promises \ {p}) \cup {q}
  BY <1>1 DEF Answered
<1>3. Held(p.account)' <=>
        /\ accounts[p.account].target = "Wallet"
        /\ \/ Tag(p.account) = "Approving" /\ res = "ok"
           \/ Tag(p.account) = "Resolving" /\ res = "err"
  BY <1>1, <1>2, CallbackFinds DEF Held, HasPolicy, Tag
<1>4. ASSUME NEW w \in Wallets \ {p.account}
      PROVE  SameHold(w)
  BY <1>1, <1>2, <1>4, SameHoldFrame
<1> QED BY <1>3, <1>4

LEMMA CallbackKeepsHold ==
    ASSUME RecoveryInv, ResultsFit, NEW p \in promises, Callback(p), NEW w \in Wallets
    PROVE  SameHold(w)
<1> DEFINE a == p.account
<1>1. /\ a \in Wallets /\ HasPolicy(a) /\ Awaited(a, p)
      /\ Awaits(p, "Approving") <=> Tag(a) = "Approving"
      /\ Awaits(p, "Resolving") <=> Tag(a) = "Resolving"
  BY CallbackFinds DEF Awaits
<1>2. PICK k \in Keys, r \in Nat : k = accounts[a].phase.new_owner /\ r = p.round
  BY CallbackFinds
<1>3. /\ \A q \in promises : q.account # a => q \in promises'
      /\ \A q \in promises' : q.account # a /\ q \in promises
  BY CallbackFinds DEF Callback, on_frozen, on_finalized, on_aborted, on_signed, Consume
<1>4. ASSUME SetPhase(a, Idle), ~Held(a)
      PROVE  SameHold(w)
  BY <1>1, <1>3, <1>4, PhaseKeepsHold, PhaseFields, PhaseTypes
<1>5. ASSUME SetPhase(a, InPhase("Approved", k, r)),
             Held(a) \/ accounts[a].target = "Native"
      PROVE  SameHold(w)
  <2>1. PICK ph \in Phase : ph = InPhase("Approved", k, r) /\ ph.tag = "Approved"
                            /\ ph.new_owner = k
    BY PhaseTypes, PhaseFields DEF PhaseTag, KeyOrNone
  <2>2. \/ Held(a)
        \/ ~Held(a) /\ accounts[a].target = "Native"
    BY <1>5
  <2> QED BY <1>1, <1>2, <1>3, <1>5, <2>1, <2>2, PhaseKeepsHold
<1>6. CASE on_frozen(p)
  <2>1. Tag(a) = "Approving" /\ p.result \in {"ok", "err"} /\ accounts[a].target = "Wallet"
    BY <1>1, <1>6 DEF Awaited, on_frozen, ResultsFit, Answers
  <2>2. Held(a) <=> p.result = "ok"
    BY <2>1, HeldByCall
  <2> QED BY <1>1, <1>2, <1>4, <1>5, <1>6, <2>1, <2>2 DEF on_frozen
<1>7. CASE on_aborted(p)
  <2>1. Tag(a) = "Resolving" /\ p.result \in {"ok", "err"} /\ accounts[a].target = "Wallet"
    BY <1>1, <1>7 DEF Awaited, on_aborted, ResultsFit, Answers
  <2>2. Held(a) <=> p.result = "err"
    BY <2>1, HeldByCall
  <2> QED BY <1>1, <1>2, <1>4, <1>5, <1>7, <2>1, <2>2 DEF on_aborted, settle_resolving
<1>8. CASE on_signed(p)
  <2>1. Tag(a) = "Resolving" /\ accounts[a].target = "Native"
    BY <1>1, <1>8 DEF Awaited, on_signed
  <2> QED BY <1>1, <1>2, <1>5, <1>8, <2>1 DEF on_signed, settle_resolving
<1>9. CASE on_finalized(p)
  <2>1. Tag(a) = "Resolving" /\ p.result \in {"true", "err"} /\ accounts[a].target = "Wallet"
    BY <1>1, <1>9 DEF Awaited, on_finalized, ResultsFit, Answers
  <2>2. Held(a) <=> p.result = "err"
    BY <2>1, HeldByCall
  <2>3. CASE p.result = "err"
    <3>1. SetPhase(a, InPhase("Approved", k, r))
      BY <1>1, <1>2, <1>9, <2>1, <2>3 DEF on_finalized, SetPhase
    <3> QED BY <1>5, <2>2, <2>3, <3>1
  <2>4. CASE p.result = "true"
    <3>1. accounts' = [accounts EXCEPT ![a] = BoundTo(WithPhase(@, Idle), k)]
      BY <1>1, <1>2, <1>9, <2>1, <2>4 DEF on_finalized
    <3>2. PICK x : x = BoundTo(WithPhase(accounts[a], Idle), k) /\ x.phase.tag = "Idle"
      <4>1. accounts[a] \in Account
        BY <1>1, PolicyType DEF RecoveryInv
      <4>2. PICK y \in Account : y = WithPhase(accounts[a], Idle) /\ y.phase = Idle
        BY <4>1, AccountFields, PhaseTypes
      <4>3. BoundTo(y, k).phase = Idle
        BY <1>2, <4>2, AccountFields
      <4> QED BY <4>2, <4>3, PhaseFields
    <3>3. accounts'[a] = x /\ (w # a => accounts'[w] = accounts[w])
      BY <1>1, <3>1, <3>2 DEF RecoveryInv, RecoveryTypeOK
    <3>4. CASE w = a
      BY <2>2, <2>4, <3>2, <3>3, <3>4 DEF SameHold, Held, Tag
    <3>5. CASE w # a
      BY <1>3, <3>3, <3>5, SameHoldFrame
    <3> QED BY <3>4, <3>5
  <2> QED BY <2>1, <2>3, <2>4
<1> QED BY <1>6, <1>7, <1>8, <1>9 DEF Callback

-----------------------------------------------------------------------------
(* Every step of the system does one of seven things to one wallet, and    *)
(* nothing to the others.                                                  *)

Untouched(w) == SameHold(w) /\ signers'[w] = signers[w]

Minted(w) ==
    /\ ~HasSigner(w)
    /\ \E k \in Keys : signers'[w] = FreshEntry(k)
    /\ SameHold(w)

Sold(w) ==
    /\ HasSigner(w)
    /\ signers[w].frozen = "Unfrozen"
    /\ \E k \in Keys, t \in Transfers :
          /\ signers'[w] = FreshEntry(k)
          /\ transfers[t].stage = "swap" /\ transfers[t].wallet = w
          /\ transfers[t].new_key = k
          /\ transfers[t].expected \in {None, signers[w].public_key}
    /\ SameHold(w)

Halted(w) ==
    /\ HasSigner(w)
    /\ signers'[w] \in SignerEntry
    /\ signers'[w].public_key = signers[w].public_key
    /\ signers'[w].frozen = "SelfFrozen"
    /\ SameHold(w)

HoldBegun(w) ==
    /\ HasSigner(w)
    /\ signers'[w] \in SignerEntry
    /\ signers[w].public_key = accounts[w].bound_owner
    /\ signers'[w].public_key = signers[w].public_key
    /\ signers'[w].frozen =
          (IF signers[w].frozen = "SelfFrozen" THEN "SelfFrozen" ELSE "RecoveryFrozen")
    /\ ~Held(w) /\ Held(w)'
    /\ accounts[w].phase.new_owner \in Keys
    /\ UNCHANGED accounts

Recovered(w) ==
    /\ Held(w) /\ ~Held(w)'
    /\ accounts[w].phase.new_owner \in Keys
    /\ signers'[w] = FreshEntry(accounts[w].phase.new_owner)

Released(w) ==
    /\ Held(w) /\ ~Held(w)'
    /\ HasSigner(w)
    /\ accounts[w].phase.new_owner \in Keys
    /\ signers'[w] \in SignerEntry
    /\ signers'[w].public_key = signers[w].public_key
    /\ signers'[w].frozen =
          (IF signers[w].frozen = "SelfFrozen" THEN "SelfFrozen" ELSE "Unfrozen")

Effect(w) ==
    \/ Untouched(w) \/ Minted(w) \/ Sold(w) \/ Halted(w)
    \/ HoldBegun(w) \/ Recovered(w) \/ Released(w)

OneEffect ==
    \/ \A w \in Wallets : Untouched(w)
    \/ \E a \in Wallets : Effect(a) /\ \A w \in Wallets \ {a} : Untouched(w)

\* A step that leaves the recovery contract's calls and policies alone.
LEMMA HoldFrame ==
    ASSUME UNCHANGED <<accounts, promises>>
    PROVE  \A w \in Wallets : SameHold(w)
BY SameHoldFrame

LEMMA SignerEffect ==
    ASSUME CustodyInv, SignerStep
    PROVE  OneEffect
<1>1. \A w \in Wallets : SameHold(w)
  BY HoldFrame DEF SignerStep, recoveryVars
<1>2. CASE SignerAdministration
  <2>1. UNCHANGED signers
    BY <1>2 DEF SignerAdministration, add_minter, remove_minter, add_admin, remove_admin
  <2> QED BY <1>1, <2>1 DEF OneEffect, Untouched
<1>3. CASE Mint
  <2>1. PICK a \in Wallets, k \in Keys :
             ~HasSigner(a) /\ signers' = [signers EXCEPT ![a] = FreshEntry(k)]
    BY <1>3 DEF Mint, install_signer
  <2>2. /\ signers'[a] = FreshEntry(k)
        /\ \A w \in Wallets \ {a} : signers'[w] = signers[w]
    BY <2>1 DEF CustodyInv, SignerTypeOK
  <2> QED BY <1>1, <2>1, <2>2 DEF OneEffect, Effect, Minted, Untouched
<1>4. CASE SelfFreeze
  <2>1. PICK a \in Wallets, n \in Nonces :
             HasSigner(a) /\ signers' = [signers EXCEPT ![a] = HaltedEntry(@, n)]
    BY <1>4 DEF SelfFreeze, self_freeze, Envelope
  <2>2. signers[a] \in SignerEntry
    BY <2>1, EntryType DEF CustodyInv
  <2>3. /\ signers'[a] = HaltedEntry(signers[a], n)
        /\ \A w \in Wallets \ {a} : signers'[w] = signers[w]
    BY <2>1 DEF CustodyInv, SignerTypeOK
  <2>4. Halted(a)
    BY <1>1, <2>1, <2>2, <2>3, HaltedEntryType DEF Halted
  <2> QED BY <1>1, <2>3, <2>4 DEF OneEffect, Effect, Untouched
<1> QED BY <1>2, <1>3, <1>4 DEF SignerStep

\* The freeze begins a hold, or fails and changes nothing.
LEMMA FreezeEffect ==
    ASSUME CustodyInv, NEW p \in promises, RunFreeze(p)
    PROVE  OneEffect
<1> DEFINE a == p.account
<1>1. /\ a \in Wallets /\ Tag(a) = "Approving" /\ accounts[a].target = "Wallet"
      /\ p.expected = accounts[a].bound_owner /\ p.expected \in Keys
      /\ accounts[a].phase.new_owner \in Keys
  <2>1. HasPolicy(a) /\ Awaited(a, p) /\ a \in Wallets
        /\ accounts[a].phase.new_owner \in Keys
    BY CallbackFinds DEF CustodyInv
  <2>2. Tag(a) = "Approving" /\ accounts[a].target = "Wallet"
        /\ p.expected = accounts[a].bound_owner
    BY <2>1 DEF Awaited, RunFreeze
  <2> QED BY <2>1, <2>2, PolicyType DEF CustodyInv, RecoveryInv
<1>2. ~Held(a)
  BY <1>1, HeldByCall DEF CustodyInv, RunFreeze
<1>3. CASE FreezeOutcome("recovery", a, p.expected) = "ok"
  <2>1. HasSigner(a) /\ signers[a].public_key = accounts[a].bound_owner
    BY <1>1, <1>3, AccountConstants DEF FreezeOutcome, OwnerIs
  <2>2. signers[a] \in SignerEntry
    BY <1>1, <2>1, EntryType DEF CustodyInv
  <2>3. Held(a)' /\ \A w \in Wallets \ {a} : SameHold(w)
    <3>1. UNCHANGED accounts /\ Answered(p, "ok")
      BY <1>3 DEF RunFreeze, AsAnswer
    <3> QED BY <1>1, <3>1, AnswerEffect DEF CustodyInv
  <2>4. /\ signers'[a] \in SignerEntry
        /\ signers'[a].public_key = signers[a].public_key
        /\ signers'[a].frozen =
              (IF signers[a].frozen = "SelfFrozen" THEN "SelfFrozen" ELSE "RecoveryFrozen")
        /\ \A w \in Wallets \ {a} : signers'[w] = signers[w]
    BY <1>1, <1>3, <2>2 DEF RunFreeze, freeze, CustodyInv, SignerTypeOK, SignerEntry, FreezeState
  <2>5. HoldBegun(a)
    BY <1>1, <1>2, <2>1, <2>3, <2>4 DEF HoldBegun, RunFreeze
  <2> QED BY <1>1, <2>3, <2>4, <2>5 DEF OneEffect, Effect, Untouched
<1>4. CASE FreezeOutcome("recovery", a, p.expected) # "ok"
  <2>1. signers' = signers /\ UNCHANGED accounts /\ Answered(p, "err")
    BY <1>4 DEF RunFreeze, freeze, FreezeOutcome, AsAnswer
  <2>2. ~Held(a)' /\ \A w \in Wallets \ {a} : SameHold(w)
    BY <1>1, <2>1, AnswerEffect DEF CustodyInv
  <2>3. SameHold(a)
    BY <1>2, <2>2 DEF SameHold
  <2> QED BY <2>1, <2>2, <2>3 DEF OneEffect, Untouched
<1> QED BY <1>3, <1>4

\* What a pending call of a held wallet finds.
LEMMA PendingResolve ==
    ASSUME CustodyInv, NEW p \in promises, p.result = "pending",
           p.method \in {"unfreeze", "swap_owner"}
    PROVE  /\ p.account \in Wallets
           /\ Tag(p.account) = "Resolving"
           /\ accounts[p.account].target = "Wallet"
           /\ Held(p.account)
           /\ HasSigner(p.account)
           /\ signers[p.account] \in SignerEntry
           /\ signers[p.account].frozen # "Unfrozen"
           /\ signers[p.account].public_key = accounts[p.account].bound_owner
           /\ accounts[p.account].phase.new_owner \in Keys
           /\ p.method = "swap_owner" =>
                /\ p.new_owner = accounts[p.account].phase.new_owner
                /\ p.expected = accounts[p.account].bound_owner
<1> DEFINE a == p.account
<1>1. HasPolicy(a) /\ Awaited(a, p) /\ a \in Wallets
      /\ accounts[a].phase.new_owner \in Keys
  BY CallbackFinds DEF CustodyInv
<1>2. /\ Tag(a) = "Resolving" /\ accounts[a].target = "Wallet"
      /\ p.method = "swap_owner" =>
            /\ p.new_owner = accounts[a].phase.new_owner
            /\ p.expected = accounts[a].bound_owner
  BY <1>1 DEF Awaited
<1>3. Held(a)
  BY <1>2, HeldByCall DEF CustodyInv
<1>4. /\ HasSigner(a)
      /\ signers[a].frozen # "Unfrozen"
      /\ signers[a].public_key = accounts[a].bound_owner
  BY <1>1, <1>3 DEF CustodyInv, WalletInv
<1> QED BY <1>1, <1>2, <1>3, <1>4, EntryType DEF CustodyInv

LEMMA UnfreezeEffect ==
    ASSUME CustodyInv, NEW p \in promises, RunUnfreeze(p)
    PROVE  OneEffect
<1> DEFINE a == p.account
<1>1. p.result = "pending" /\ p.method = "unfreeze" /\ UNCHANGED accounts
  BY DEF RunUnfreeze
<1>2. Answered(p, "ok")
  BY <1>1, PendingResolve DEF RunUnfreeze, UnfreezeOutcome, AsAnswer
<1>3. ~Held(a)' /\ \A w \in Wallets \ {a} : SameHold(w)
  BY <1>1, <1>2, PendingResolve, AnswerEffect DEF CustodyInv
<1>4. /\ signers'[a] \in SignerEntry
      /\ signers'[a].public_key = signers[a].public_key
      /\ signers'[a].frozen =
            (IF signers[a].frozen = "SelfFrozen" THEN "SelfFrozen" ELSE "Unfrozen")
      /\ \A w \in Wallets \ {a} : signers'[w] = signers[w]
  BY <1>1, PendingResolve DEF RunUnfreeze, unfreeze, UnfreezeOutcome, CustodyInv,
                              SignerTypeOK, SignerEntry, FreezeState
<1>5. Released(a)
  BY <1>1, <1>3, <1>4, PendingResolve DEF Released
<1> QED BY <1>1, <1>3, <1>4, <1>5, PendingResolve DEF OneEffect, Effect, Untouched

\* The swap of a recovery always finds its wallet frozen and bound.
LEMMA RecoverySwapTrue ==
    ASSUME CustodyInv, NEW p \in promises, RunRecoverySwap(p)
    PROVE  /\ SwapOutcome("recovery", p.account, p.expected) = "true"
           /\ Answered(p, "true")
<1>1. p.result = "pending" /\ p.method = "swap_owner"
  BY DEF RunRecoverySwap
<1>2. SwapOutcome("recovery", p.account, p.expected) = "true"
  BY <1>1, PendingResolve DEF SwapOutcome, SwapAllowed, OwnerIs
<1> QED BY <1>2 DEF RunRecoverySwap, AsAnswer

LEMMA RecoverySwapEffect ==
    ASSUME CustodyInv, NEW p \in promises, RunRecoverySwap(p)
    PROVE  OneEffect /\ Recovered(p.account)
<1> DEFINE a == p.account
<1>1. p.result = "pending" /\ p.method = "swap_owner" /\ UNCHANGED accounts
  BY DEF RunRecoverySwap
<1>2. ~Held(a)' /\ \A w \in Wallets \ {a} : SameHold(w)
  BY <1>1, RecoverySwapTrue, PendingResolve, AnswerEffect DEF CustodyInv
<1>3. /\ signers'[a] = FreshEntry(accounts[a].phase.new_owner)
      /\ \A w \in Wallets \ {a} : signers'[w] = signers[w]
  BY <1>1, RecoverySwapTrue, PendingResolve
     DEF RunRecoverySwap, swap_owner, CustodyInv, SignerTypeOK
<1>4. Recovered(a)
  BY <1>1, <1>2, <1>3, PendingResolve DEF Recovered
<1> QED BY <1>1, <1>2, <1>3, <1>4, PendingResolve DEF OneEffect, Effect, Untouched

LEMMA FailEffect ==
    ASSUME CustodyInv, NEW p \in promises, RunSign(p) \/ RunFails(p)
    PROVE  OneEffect
<1> DEFINE a == p.account
<1>1. UNCHANGED accounts /\ UNCHANGED signers /\ p.result = "pending"
  BY DEF RunSign, RunFails, signerVars
<1>2. PICK res \in {"ok", "err"} :
        Answered(p, res) /\ (res = "ok" => p.method = "sign")
  BY DEF RunSign, RunFails
<1>3. a \in Wallets /\ HasPolicy(a) /\ Awaited(a, p)
  BY CallbackFinds DEF CustodyInv
<1>4. p.method = "sign" => accounts[a].target = "Native"
  BY <1>3 DEF Awaited
<1>5. accounts[a].target \in {"Wallet", "Native"}
  BY <1>3, PolicyType DEF CustodyInv, RecoveryInv
<1>6. /\ Held(a)' <=> Held(a)
      /\ \A w \in Wallets \ {a} : SameHold(w)
  BY <1>1, <1>2, <1>4, <1>5, HeldByCall, AnswerEffect DEF CustodyInv
<1>7. SameHold(a)
  BY <1>1, <1>6 DEF SameHold
<1> QED BY <1>1, <1>6, <1>7 DEF OneEffect, Untouched

LEMMA MarketplaceSwapEffect ==
    ASSUME CustodyInv, NEW t \in Transfers, RunMarketplaceSwap(t)
    PROVE  OneEffect /\ (Sold(transfers[t].wallet) \/ UNCHANGED signers)
<1>1. PICK a \in Wallets, k \in Keys, e \in KeyOrNone :
         /\ a = transfers[t].wallet /\ k = transfers[t].new_key
         /\ e = transfers[t].expected /\ transfers[t].stage = "swap"
  BY ChainFields DEF CustodyInv, RunMarketplaceSwap
<1>2. swap_owner("marketplace", a, k, e)
  BY <1>1 DEF RunMarketplaceSwap
<1>3. \A w \in Wallets : SameHold(w)
  BY HoldFrame DEF RunMarketplaceSwap, recoveryVars
<1>4. CASE SwapOutcome("marketplace", a, e) = "true"
  <2>1. /\ HasSigner(a) /\ signers[a].frozen = "Unfrozen"
        /\ e \in {None, signers[a].public_key}
    BY <1>4 DEF SwapOutcome, SwapAllowed, OwnerIs
  <2>2. /\ signers'[a] = FreshEntry(k)
        /\ \A w \in Wallets \ {a} : signers'[w] = signers[w]
    BY <1>2, <1>4 DEF swap_owner, CustodyInv, SignerTypeOK
  <2>3. Sold(a)
    BY <1>1, <1>3, <2>1, <2>2 DEF Sold
  <2> QED BY <1>1, <1>3, <2>2, <2>3 DEF OneEffect, Effect, Untouched
<1>5. CASE SwapOutcome("marketplace", a, e) # "true"
  <2>1. UNCHANGED signers
    BY <1>2, <1>5 DEF swap_owner
  <2> QED BY <1>3, <2>1 DEF OneEffect, Untouched
<1> QED BY <1>4, <1>5

LEMMA StepEffect ==
    ASSUME CustodyInv, CustodyNext
    PROVE  OneEffect
<1>1. CASE SignerStep
  BY <1>1, SignerEffect
<1>2. CASE RecoveryStep
  <2>1. UNCHANGED signers
    BY <1>2 DEF RecoveryStep, signerVars
  <2> QED BY <1>2, <2>1, MethodKeepsHold DEF RecoveryStep, CustodyInv, OneEffect, Untouched
<1>3. CASE ExtensionStep
  <2>1. UNCHANGED <<accounts, promises, signers>>
    BY <1>3 DEF ExtensionStep, signerVars, recoveryVars
  <2> QED BY <2>1, HoldFrame DEF OneEffect, Untouched
<1>4. ASSUME NEW p \in promises, RunCall(p)
      PROVE  OneEffect
  BY <1>4, FreezeEffect, UnfreezeEffect, RecoverySwapEffect, FailEffect DEF RunCall
<1>5. ASSUME NEW p \in promises, RunCallback(p)
      PROVE  OneEffect
  <2>1. UNCHANGED signers /\ Callback(p)
    BY <1>5 DEF RunCallback, signerVars
  <2> QED BY <2>1, CallbackKeepsHold DEF CustodyInv, OneEffect, Untouched
<1>6. ASSUME NEW t \in Transfers, RunTransfer(t)
      PROVE  OneEffect
  <2>1. CASE RunMarketplaceSwap(t)
    BY <2>1, MarketplaceSwapEffect
  <2>2. CASE RunMarketplaceSwapFails(t) \/ RunAfterForceSwap(t) \/ RunResetFails(t)
    <3>1. UNCHANGED <<accounts, promises, signers>>
      BY <2>2 DEF RunMarketplaceSwapFails, RunAfterForceSwap, RunResetFails,
                  signerVars, recoveryVars
    <3> QED BY <3>1, HoldFrame DEF OneEffect, Untouched
  <2>3. CASE RunReset(t)
    <3>1. UNCHANGED signers
      BY <2>3 DEF RunReset, signerVars
    <3>2. PICK a \in Wallets : on_wallet_transferred(a)
      BY <2>3, ChainFields DEF RunReset, CustodyInv
    <3> QED BY <3>1, <3>2, ResetKeepsHold DEF CustodyInv, OneEffect, Untouched
  <2> QED BY <1>6, <2>1, <2>2, <2>3 DEF RunTransfer
<1> QED BY <1>1, <1>2, <1>3, <1>4, <1>5, <1>6 DEF CustodyNext

-----------------------------------------------------------------------------
(* The inductive step.                                                     *)

LEMMA FreshFields ==
    \A k \in Keys : /\ FreshEntry(k) # None
                    /\ FreshEntry(k) \in SignerEntry
                    /\ FreshEntry(k).public_key = k
                    /\ FreshEntry(k).frozen = "Unfrozen"
<1>1. \A k \in Keys : FreshEntry(k) \in SignerEntry
  BY FreshEntryType
<1>2. \A k \in Keys : FreshEntry(k).public_key = k /\ FreshEntry(k).frozen = "Unfrozen"
  BY DEF FreshEntry
<1> QED BY <1>1, <1>2, NoneIsNoEntry

LEMMA WalletInvStep ==
    ASSUME NEW w \in Wallets, WalletInv(w), Effect(w)
    PROVE  WalletInv(w)'
<1>1. CASE Untouched(w)
  BY <1>1 DEF Untouched, SameHold, WalletInv, HasSigner
<1>2. CASE Minted(w)
  BY <1>2, FreshFields DEF Minted, SameHold, WalletInv, HasSigner
<1>3. CASE Sold(w)
  BY <1>3, FreshFields DEF Sold, SameHold, WalletInv, HasSigner
<1>4. CASE Halted(w)
  BY <1>4, NoneIsNoEntry DEF Halted, SameHold, WalletInv, HasSigner
<1>5. CASE HoldBegun(w)
  BY <1>5, NoneIsNoEntry DEF HoldBegun, WalletInv, HasSigner
<1>6. CASE Recovered(w)
  BY <1>6, FreshFields DEF Recovered, WalletInv, HasSigner
<1>7. CASE Released(w)
  BY <1>7, NoneIsNoEntry DEF Released, WalletInv, HasSigner
<1> QED BY <1>1, <1>2, <1>3, <1>4, <1>5, <1>6, <1>7 DEF Effect

\* Every step of the system is a step of the signer or leaves it alone.
LEMMA SignerView ==
    ASSUME CustodyInv, CustodyNext
    PROVE  [SignerNext]_signerVars
<1>1. CASE SignerStep
  BY <1>1 DEF SignerStep, SignerNext
<1>2. ASSUME NEW p \in promises, RunCall(p)
      PROVE  [SignerNext]_signerVars
  <2>1. CASE RunSign(p) \/ RunFails(p)
    BY <2>1 DEF RunSign, RunFails
  <2>2. p.account \in Wallets /\ p.expected \in KeyOrNone
    BY DEF CustodyInv, RecoveryInv, RecoveryTypeOK, Promise
  <2>3. CASE RunFreeze(p)
    BY <2>2, <2>3 DEF RunFreeze, SignerNext, AuthorityCall, Callers
  <2>4. CASE RunUnfreeze(p)
    BY <2>2, <2>4 DEF RunUnfreeze, SignerNext, AuthorityCall, Callers
  <2>5. CASE RunRecoverySwap(p)
    <3>1. p.result = "pending" /\ p.method = "swap_owner"
      BY <2>5 DEF RunRecoverySwap
    <3>2. p.new_owner \in Keys
      BY <3>1, PendingResolve
    <3> QED BY <2>2, <2>5, <3>2 DEF RunRecoverySwap, SignerNext, AuthorityCall, Callers
  <2> QED BY <1>2, <2>1, <2>3, <2>4, <2>5 DEF RunCall
<1>3. ASSUME NEW t \in Transfers, RunTransfer(t)
      PROVE  [SignerNext]_signerVars
  <2>1. CASE RunMarketplaceSwap(t)
    <3>1. PICK a \in Wallets, k \in Keys, e \in KeyOrNone :
             swap_owner("marketplace", a, k, e)
      BY <2>1, ChainFields DEF CustodyInv, RunMarketplaceSwap
    <3> QED BY <3>1 DEF SignerNext, AuthorityCall, Callers
  <2> QED BY <1>3, <2>1 DEF RunTransfer, RunMarketplaceSwapFails, RunAfterForceSwap,
                            RunReset, RunResetFails
<1> QED BY <1>1, <1>2, <1>3 DEF CustodyNext, RecoveryStep, ExtensionStep, RunCallback

\* A called contract answers in the method's own way, and never with false.
LEMMA CallAnswer ==
    ASSUME CustodyInv, NEW p \in promises, RunCall(p)
    PROVE  /\ \E res \in Answers(p.method) \ {"false"} :
                 res \in {"ok", "true", "err"} /\ Answered(p, res)
           /\ UNCHANGED <<accounts, round_floor, now, requests>>
<1>1. CASE RunFreeze(p)
  BY <1>1 DEF RunFreeze, FreezeOutcome, AsAnswer, Answers
<1>2. CASE RunUnfreeze(p)
  BY <1>2 DEF RunUnfreeze, UnfreezeOutcome, AsAnswer, Answers
<1>3. CASE RunRecoverySwap(p)
  BY <1>3, RecoverySwapTrue DEF RunRecoverySwap, Answers
<1>4. CASE RunSign(p)
  BY <1>4 DEF RunSign, Answers
<1>5. CASE RunFails(p)
  BY <1>5 DEF RunFails, Answers
<1> QED BY <1>1, <1>2, <1>3, <1>4, <1>5 DEF RunCall

LEMMA RecoveryView ==
    ASSUME CustodyInv, CustodyNext
    PROVE  RecoveryInv'
<1>1. CASE UNCHANGED recoveryVars
  BY <1>1, RecoveryInvStep DEF CustodyInv
<1>2. CASE RecoveryStep
  BY <1>2, RecoveryMethodStep DEF CustodyInv, RecoveryStep
<1>3. ASSUME NEW p \in promises, RunCall(p)
      PROVE  RecoveryInv'
  BY <1>3, CallAnswer, AnswerStep DEF CustodyInv
<1>4. ASSUME NEW p \in promises, RunCallback(p)
      PROVE  RecoveryInv'
  BY <1>4, CallbackStep DEF CustodyInv, RunCallback
<1>5. ASSUME NEW t \in Transfers, RunReset(t)
      PROVE  RecoveryInv'
  <2>1. PICK a \in Wallets : on_wallet_transferred(a)
    BY <1>5, ChainFields DEF RunReset, CustodyInv
  <2> QED BY <2>1, TransferredStep DEF CustodyInv
<1> QED BY <1>1, <1>2, <1>3, <1>4, <1>5
        DEF CustodyNext, SignerStep, ExtensionStep, RunTransfer, RunMarketplaceSwap,
            RunMarketplaceSwapFails, RunAfterForceSwap, RunResetFails

LEMMA MethodCalls ==
    ASSUME RecoveryCall \/ RecoveryMessage \/ Tick
    PROVE  \A q \in promises' : q \in promises \/ q.result = "pending"
<1>1. ASSUME NEW a, NEW caller, finalize_recovery(caller, a)
      PROVE  \A q \in promises' : q \in promises \/ q.result = "pending"
  BY <1>1, CallPending DEF finalize_recovery
<1>2. ASSUME NEW a, NEW caller, abort_recovery(caller, a)
      PROVE  \A q \in promises' : q \in promises \/ q.result = "pending"
  BY <1>2, CallPending DEF abort_recovery
<1>3. ASSUME NEW a, NEW silent, NEW signed, submit_verdict(a, silent, signed)
      PROVE  \A q \in promises' : q \in promises \/ q.result = "pending"
  BY <1>3, CallPending DEF submit_verdict
<1> QED BY <1>1, <1>2, <1>3 DEF RecoveryCall, RecoveryMessage, Tick, install_policy,
                                claim_native_finalized, request_recovery

LEMMA ResultsStep ==
    ASSUME CustodyInv, CustodyNext
    PROVE  ResultsFit'
<1>1. CASE UNCHANGED promises
  BY <1>1 DEF CustodyInv, ResultsFit
<1>2. CASE RecoveryStep
  BY <1>2, MethodCalls DEF CustodyInv, ResultsFit, RecoveryStep
<1>3. ASSUME NEW p \in promises, RunCall(p)
      PROVE  ResultsFit'
  <2>1. PICK res \in Answers(p.method) \ {"false"} :
             res \in {"ok", "true", "err"} /\ Answered(p, res)
    BY <1>3, CallAnswer
  <2>2. p \in Promise
    BY DEF CustodyInv, RecoveryInv, RecoveryTypeOK
  <2>3. PICK q : /\ promises' = (promises \ {p}) \cup {q}
                 /\ q.method = p.method /\ q.result = res
    <3>1. /\ [p EXCEPT !.result = res].method = p.method
          /\ [p EXCEPT !.result = res].result = res
      BY <2>1, <2>2, AnsweredFields
    <3> QED BY <2>1, <3>1 DEF Answered
  <2> QED BY <2>1, <2>3 DEF CustodyInv, ResultsFit
<1>4. ASSUME NEW p \in promises, RunCallback(p)
      PROVE  ResultsFit'
  <2>1. promises' \subseteq promises
    BY <1>4 DEF RunCallback, Callback, on_frozen, on_finalized, on_aborted,
                on_signed, Consume
  <2> QED BY <2>1 DEF CustodyInv, ResultsFit
<1> QED BY <1>1, <1>2, <1>3, <1>4
        DEF CustodyNext, SignerStep, ExtensionStep, RunTransfer, RunMarketplaceSwap,
            RunMarketplaceSwapFails, RunAfterForceSwap, RunReset, RunResetFails,
            on_wallet_transferred, recoveryVars

LEMMA ExtensionView ==
    ASSUME CustodyInv, CustodyNext
    PROVE  ExtensionTypeOK'
<1>1. CASE UNCHANGED extensionVars
  BY <1>1, ExtensionTypeStep DEF CustodyInv
<1>2. CASE ExtensionStep
  BY <1>2, ExtensionTypeStep DEF CustodyInv, ExtensionStep
<1>3. ASSUME NEW p \in promises, RunCall(p)
      PROVE  UNCHANGED extensionVars
  BY <1>3 DEF RunCall, RunFreeze, RunUnfreeze, RunRecoverySwap, RunSign, RunFails
<1>4. ASSUME NEW t \in Transfers, RunTransfer(t)
      PROVE  ExtensionTypeOK'
  <2>1. CASE RunMarketplaceSwap(t)
    <3>1. PICK res \in {"true", "false", "err"} : SwapAnswered(t, res)
      BY <2>1 DEF RunMarketplaceSwap, SwapOutcome, AsAnswer
    <3> QED BY <2>1, <3>1, ExtensionTypeStep DEF CustodyInv, RunMarketplaceSwap
  <2> QED BY <1>4, <2>1, ExtensionTypeStep
          DEF CustodyInv, RunTransfer, RunMarketplaceSwapFails, RunAfterForceSwap,
              RunReset, RunResetFails
<1> QED BY <1>1, <1>2, <1>3, <1>4 DEF CustodyNext, SignerStep, RecoveryStep, RunCallback

LEMMA CustodyInvStep ==
    ASSUME CustodyInv, [CustodyNext]_custodyVars
    PROVE  CustodyInv'
<1>1. CASE CustodyNext
  <2>1. SignerTypeOK'
    BY <1>1, SignerView, SignerTypeStep DEF CustodyInv
  <2>2. ASSUME NEW w \in Wallets
        PROVE  WalletInv(w)'
    <3>1. Effect(w)
      BY <1>1, StepEffect DEF OneEffect, Effect
    <3> QED BY <3>1, WalletInvStep DEF CustodyInv
  <2> QED BY <1>1, <2>1, <2>2, RecoveryView, ResultsStep, ExtensionView DEF CustodyInv
<1>2. CASE UNCHANGED custodyVars
  <2>1. UNCHANGED signerVars /\ UNCHANGED recoveryVars /\ UNCHANGED extensionVars
    BY <1>2 DEF custodyVars
  <2>2. SignerTypeOK' /\ RecoveryInv' /\ ExtensionTypeOK'
    BY <2>1, SignerTypeStep, RecoveryInvStep, ExtensionTypeStep DEF CustodyInv
  <2>3. UNCHANGED <<signers, accounts, promises>>
    BY <2>1 DEF signerVars, recoveryVars
  <2>4. ASSUME NEW w \in Wallets
        PROVE  WalletInv(w)'
    <3>1. Untouched(w)
      BY <2>3, HoldFrame DEF Untouched
    <3> QED BY <3>1, WalletInvStep DEF Effect, CustodyInv
  <2>5. ResultsFit'
    BY <2>3 DEF CustodyInv, ResultsFit
  <2> QED BY <2>2, <2>4, <2>5 DEF CustodyInv
<1> QED BY <1>1, <1>2

LEMMA CustodyInvInit == CustodyInit => CustodyInv
<1> SUFFICES ASSUME CustodyInit
             PROVE  CustodyInv
  OBVIOUS
<1>1. SignerTypeOK
  BY AccountConstants DEF CustodyInit, SignerInit, SignerTypeOK, NothingHonoured
<1>2. ExtensionTypeOK
  BY AccountConstants DEF CustodyInit, ExtensionInit, ExtensionTypeOK, Chain, ChainAt, NoChain
<1>3. RecoveryInv
  BY RecoveryInvInit DEF CustodyInit
<1>4. ResultsFit /\ \A w \in Wallets : WalletInv(w)
  BY DEF CustodyInit, SignerInit, RecoveryInit, ResultsFit, WalletInv, Held, HasPolicy,
         HasSigner
<1> QED BY <1>1, <1>2, <1>3, <1>4 DEF CustodyInv

-----------------------------------------------------------------------------
(* The theorems.                                                           *)

\* The inductive invariant holds in every state of the three contracts.
THEOREM CustodyInvariant == CustodySpec => []CustodyInv
<1>1. CustodyInit => CustodyInv
  BY CustodyInvInit
<1>2. CustodyInv /\ [CustodyNext]_custodyVars => CustodyInv'
  BY CustodyInvStep
<1> QED BY <1>1, <1>2, PTL DEF CustodySpec

\* The state of the three contracts keeps its type.
THEOREM CustodyTypeCorrect == CustodySpec => []CustodyTypeOK
<1>1. CustodyInv => CustodyTypeOK
  BY DEF CustodyInv, RecoveryInv, CustodyTypeOK
<1> QED BY <1>1, CustodyInvariant, PTL

\* A wallet held for a recovery is frozen and still belongs to the owner the
\* recovery is bound to: no sale moves it away in between (freeze, swap_owner).
THEOREM HeldWalletsAreFrozen == CustodySpec => []HeldWalletIsFrozen
<1>1. CustodyInv => HeldWalletIsFrozen
  BY DEF CustodyInv, WalletInv, HeldWalletIsFrozen
<1> QED BY <1>1, CustodyInvariant, PTL

\* No wallet stays frozen by the recovery contract with no policy left that
\* can finalize or abort (on_frozen, on_finalized, on_aborted).
THEOREM NoOrphanedFreeze == CustodySpec => []FreezeIsHeld
<1>1. CustodyInv => FreezeIsHeld
  BY DEF CustodyInv, WalletInv, FreezeIsHeld
<1> QED BY <1>1, CustodyInvariant, PTL

\* The swap of an approved recovery never finds another owner, so
\* on_finalized never voids a recovery.
THEOREM NoRecoveryIsVoided == CustodySpec => []NeverVoided
<1>1. CustodyInv => NeverVoided
  BY DEF CustodyInv, ResultsFit, NeverVoided
<1> QED BY <1>1, CustodyInvariant, PTL

\* The key of an installed wallet changes only by a swap of either authority.
LEMMA KeyChange ==
    ASSUME CustodyInv, CustodyNext, NEW w \in Wallets, HasSigner(w),
           signers'[w].public_key # signers[w].public_key
    PROVE  SaleChange(w) \/ RecoveryChange(w)
<1>1. Effect(w)
  BY StepEffect DEF OneEffect, Effect
<1>2. \/ Sold(w)
      \/ Recovered(w)
  BY <1>1 DEF Effect, Untouched, Minted, Halted, HoldBegun, Released
<1>3. CASE Sold(w)
  BY <1>3, FreshFields DEF Sold, SaleChange
<1>4. CASE Recovered(w)
  <2>1. Held(w) /\ HasPolicy(w) /\ Tag(w) \in {"Approving", "Approved", "Resolving"}
    BY <1>4 DEF Recovered, Held
  <2>2. /\ requests[w] # None
        /\ accounts[w].phase.new_owner = requests[w].new_owner
        /\ requests[w].at + requests[w].timelock <= now
        /\ requests[w].timelock >= MinTimelock
    BY <2>1, RecoveryInvImplies DEF CustodyInv, ApprovedAsRequested
  <2>3. signers[w].public_key = accounts[w].bound_owner
    BY <2>1 DEF CustodyInv, WalletInv
  <2>4. signers'[w].public_key = accounts[w].phase.new_owner
    BY <1>4, FreshFields DEF Recovered
  <2> QED BY <2>1, <2>2, <2>3, <2>4 DEF RecoveryChange
<1> QED BY <1>2, <1>3, <1>4

\* Every change of an installed key is a sale of an unfrozen wallet or the
\* end of a recovery that was requested for that key and waited out its
\* timelock (swap_owner by either authority).
THEOREM EveryOwnerChangeIsGranted == CustodySpec => OwnerChangesAreGranted
<1>1. CustodyInv /\ [CustodyNext]_custodyVars => [GrantedStep]_custodyVars
  BY KeyChange DEF GrantedStep
<1> QED BY <1>1, CustodyInvariant, PTL DEF CustodySpec, OwnerChangesAreGranted

-----------------------------------------------------------------------------
(* The custody contracts implement WalletOwnership.                        *)

LEMMA RefinesInit == CustodyInit => Ownership!OwnershipInit
BY DEF CustodyInit, SignerInit, RecoveryInit, Ownership!OwnershipInit, OwnerOf, HoldOf,
       BeneficiaryOf, Held, HasPolicy, HasSigner

\* What a wallet that is left alone looks like to WalletOwnership.
LEMMA RefinesUntouched ==
    ASSUME NEW w, Untouched(w)
    PROVE  /\ OwnerOf(w)' = OwnerOf(w)
           /\ HoldOf(w)' = HoldOf(w)
           /\ BeneficiaryOf(w)' = BeneficiaryOf(w)
BY DEF Untouched, SameHold, OwnerOf, HoldOf, BeneficiaryOf, HasSigner

\* What each effect on a wallet looks like to WalletOwnership.
LEMMA RefinesEffect ==
    ASSUME CustodyInv, NEW a \in Wallets, Effect(a), ~Untouched(a)
    PROVE  \/ \E k \in Keys : /\ OwnerOf(a) = None /\ OwnerOf(a)' = k
                              /\ HoldOf(a)' = HoldOf(a)
                              /\ BeneficiaryOf(a)' = BeneficiaryOf(a)
           \/ \E k \in Keys : /\ OwnerOf(a) # None /\ HoldOf(a) = "open"
                              /\ BeneficiaryOf(a) = None
                              /\ OwnerOf(a)' = k
                              /\ HoldOf(a)' = HoldOf(a)
                              /\ BeneficiaryOf(a)' = BeneficiaryOf(a)
           \/ /\ OwnerOf(a) # None /\ OwnerOf(a)' = OwnerOf(a)
              /\ HoldOf(a)' = "halted"
              /\ BeneficiaryOf(a)' = BeneficiaryOf(a)
           \/ \E k \in Keys : /\ OwnerOf(a) # None /\ BeneficiaryOf(a) = None
                              /\ BeneficiaryOf(a)' = k
                              /\ HoldOf(a)' = IF HoldOf(a) = "open" THEN "held" ELSE HoldOf(a)
                              /\ OwnerOf(a)' = OwnerOf(a)
           \/ /\ BeneficiaryOf(a) # None /\ OwnerOf(a)' = BeneficiaryOf(a)
              /\ HoldOf(a)' = "open" /\ BeneficiaryOf(a)' = None
           \/ /\ BeneficiaryOf(a) # None /\ BeneficiaryOf(a)' = None
              /\ HoldOf(a)' = IF HoldOf(a) = "held" THEN "open" ELSE HoldOf(a)
              /\ OwnerOf(a)' = OwnerOf(a)
<1>1. HasSigner(a) => signers[a] \in SignerEntry
  BY EntryType DEF CustodyInv
<1>2. HasSigner(a) => /\ OwnerOf(a) = signers[a].public_key
                      /\ signers[a].public_key \in Keys
                      /\ OwnerOf(a) # None
                      /\ signers[a].frozen \in FreezeState
  BY <1>1, AccountConstants DEF OwnerOf, SignerEntry
<1>3. SameHold(a) => BeneficiaryOf(a)' = BeneficiaryOf(a)
  BY DEF SameHold, BeneficiaryOf
<1>4. WalletInv(a)
  BY DEF CustodyInv
<1>5. CASE Minted(a)
  <2>1. OwnerOf(a) = None /\ HoldOf(a) = "open"
    BY <1>5 DEF Minted, OwnerOf, HoldOf
  <2>2. \E k \in Keys : OwnerOf(a)' = k /\ HoldOf(a)' = "open"
    BY <1>5, FreshFields DEF Minted, OwnerOf, HoldOf, HasSigner
  <2> QED BY <1>3, <1>5, <2>1, <2>2 DEF Minted
<1>6. CASE Sold(a)
  <2>1. OwnerOf(a) # None /\ HoldOf(a) = "open" /\ BeneficiaryOf(a) = None
    BY <1>2, <1>4, <1>6 DEF Sold, HoldOf, BeneficiaryOf, WalletInv
  <2>2. \E k \in Keys : OwnerOf(a)' = k /\ HoldOf(a)' = "open"
    BY <1>6, FreshFields DEF Sold, OwnerOf, HoldOf, HasSigner
  <2> QED BY <1>3, <1>6, <2>1, <2>2 DEF Sold
<1>7. CASE Halted(a)
  <2>1. OwnerOf(a)' = OwnerOf(a) /\ HoldOf(a)' = "halted"
    BY <1>2, <1>7, NoneIsNoEntry DEF Halted, OwnerOf, HoldOf, HasSigner
  <2> QED BY <1>2, <1>3, <1>7, <2>1 DEF Halted
<1>8. CASE HoldBegun(a)
  <2>1. BeneficiaryOf(a) = None /\ BeneficiaryOf(a)' = accounts[a].phase.new_owner
    BY <1>8 DEF HoldBegun, BeneficiaryOf
  <2>2. OwnerOf(a)' = OwnerOf(a)
    BY <1>2, <1>8, NoneIsNoEntry DEF HoldBegun, OwnerOf, HasSigner
  <2>3. signers[a].frozen \in {"Unfrozen", "SelfFrozen"}
    BY <1>2, <1>4, <1>8 DEF HoldBegun, WalletInv, FreezeState
  <2>4. HoldOf(a)' = IF HoldOf(a) = "open" THEN "held" ELSE HoldOf(a)
    BY <1>8, <2>3, NoneIsNoEntry DEF HoldBegun, HoldOf, HasSigner
  <2> QED BY <1>2, <1>8, <2>1, <2>2, <2>4 DEF HoldBegun
<1>9. CASE Recovered(a)
  <2>1. BeneficiaryOf(a) = accounts[a].phase.new_owner /\ BeneficiaryOf(a)' = None
        /\ BeneficiaryOf(a) \in Keys
    BY <1>9 DEF Recovered, BeneficiaryOf
  <2>2. OwnerOf(a)' = BeneficiaryOf(a) /\ HoldOf(a)' = "open"
    BY <1>9, <2>1, FreshFields DEF Recovered, OwnerOf, HoldOf, HasSigner
  <2> QED BY <2>1, <2>2, AccountConstants
<1>10. CASE Released(a)
  <2>1. BeneficiaryOf(a) \in Keys /\ BeneficiaryOf(a)' = None
    BY <1>10 DEF Released, BeneficiaryOf
  <2>2. OwnerOf(a)' = OwnerOf(a)
    BY <1>2, <1>10, NoneIsNoEntry DEF Released, OwnerOf, HasSigner
  <2>3. signers[a].frozen \in {"RecoveryFrozen", "SelfFrozen"}
    BY <1>2, <1>4, <1>10 DEF Released, WalletInv, FreezeState
  <2>4. HoldOf(a)' = IF HoldOf(a) = "held" THEN "open" ELSE HoldOf(a)
    BY <1>10, <2>3, NoneIsNoEntry DEF Released, HoldOf, HasSigner
  <2> QED BY <2>1, <2>2, <2>4, AccountConstants
<1> QED BY <1>5, <1>6, <1>7, <1>8, <1>9, <1>10 DEF Effect

LEMMA RefinesStep ==
    ASSUME CustodyInv, OneEffect
    PROVE  [Ownership!OwnershipNext]_(Ownership!ownershipVars)
<1>1. CASE \A w \in Wallets : Untouched(w)
  BY <1>1, RefinesUntouched DEF Ownership!ownershipVars
<1>2. ASSUME NEW a \in Wallets, Effect(a), ~Untouched(a),
             \A w \in Wallets \ {a} : Untouched(w)
      PROVE  Ownership!OwnershipNext
  <2>1. \A w \in Wallets \ {a} : /\ OwnerOf(w)' = OwnerOf(w)
                                 /\ HoldOf(w)' = HoldOf(w)
                                 /\ BeneficiaryOf(w)' = BeneficiaryOf(w)
    BY <1>2, RefinesUntouched
  <2> DEFINE owner       == [w \in Wallets |-> OwnerOf(w)]
             hold        == [w \in Wallets |-> HoldOf(w)]
             beneficiary == [w \in Wallets |-> BeneficiaryOf(w)]
  <2>2. /\ owner' = [owner EXCEPT ![a] = OwnerOf(a)']
        /\ hold' = [hold EXCEPT ![a] = HoldOf(a)']
        /\ beneficiary' = [beneficiary EXCEPT ![a] = BeneficiaryOf(a)']
    BY <2>1
  <2>3. /\ OwnerOf(a)' = OwnerOf(a) => owner' = owner
        /\ HoldOf(a)' = HoldOf(a) => hold' = hold
        /\ BeneficiaryOf(a)' = BeneficiaryOf(a) => beneficiary' = beneficiary
    BY <2>1
  <2>4. /\ owner[a] = OwnerOf(a) /\ hold[a] = HoldOf(a)
        /\ beneficiary[a] = BeneficiaryOf(a)
    OBVIOUS
  <2>5. ASSUME NEW k \in Keys, OwnerOf(a) = None, OwnerOf(a)' = k,
               HoldOf(a)' = HoldOf(a), BeneficiaryOf(a)' = BeneficiaryOf(a)
        PROVE  Ownership!FirstOwner(a, k)
    BY <2>2, <2>3, <2>4, <2>5 DEF Ownership!FirstOwner
  <2>6. ASSUME NEW k \in Keys, OwnerOf(a) # None, HoldOf(a) = "open",
               BeneficiaryOf(a) = None, OwnerOf(a)' = k,
               HoldOf(a)' = HoldOf(a), BeneficiaryOf(a)' = BeneficiaryOf(a)
        PROVE  Ownership!Sell(a, k)
    BY <2>2, <2>3, <2>4, <2>6 DEF Ownership!Sell
  <2>7. ASSUME OwnerOf(a) # None, OwnerOf(a)' = OwnerOf(a),
               HoldOf(a)' = "halted", BeneficiaryOf(a)' = BeneficiaryOf(a)
        PROVE  Ownership!Halt(a)
    BY <2>2, <2>3, <2>4, <2>7 DEF Ownership!Halt
  <2>8. ASSUME NEW k \in Keys, OwnerOf(a) # None, BeneficiaryOf(a) = None,
               BeneficiaryOf(a)' = k, OwnerOf(a)' = OwnerOf(a),
               HoldOf(a)' = IF HoldOf(a) = "open" THEN "held" ELSE HoldOf(a)
        PROVE  Ownership!Hold(a, k)
    BY <2>2, <2>3, <2>4, <2>8 DEF Ownership!Hold
  <2>9. ASSUME BeneficiaryOf(a) # None, OwnerOf(a)' = BeneficiaryOf(a),
               HoldOf(a)' = "open", BeneficiaryOf(a)' = None
        PROVE  Ownership!Recover(a)
    BY <2>2, <2>4, <2>9 DEF Ownership!Recover
  <2>10. ASSUME BeneficiaryOf(a) # None, BeneficiaryOf(a)' = None, OwnerOf(a)' = OwnerOf(a),
                HoldOf(a)' = IF HoldOf(a) = "held" THEN "open" ELSE HoldOf(a)
         PROVE  Ownership!Release(a)
    BY <2>2, <2>3, <2>4, <2>10 DEF Ownership!Release
  <2> HIDE DEF owner, hold, beneficiary
  <2>11. \/ \E k \in Keys : \/ Ownership!FirstOwner(a, k)
                            \/ Ownership!Sell(a, k)
                            \/ Ownership!Hold(a, k)
         \/ Ownership!Halt(a) \/ Ownership!Recover(a) \/ Ownership!Release(a)
    BY <1>2, <2>5, <2>6, <2>7, <2>8, <2>9, <2>10, RefinesEffect
  <2> QED BY <2>11 DEF Ownership!OwnershipNext
<1> QED BY <1>1, <1>2 DEF OneEffect

LEMMA RefinesStutter ==
    ASSUME UNCHANGED custodyVars
    PROVE  UNCHANGED Ownership!ownershipVars
<1>1. UNCHANGED <<accounts, promises, signers>>
  BY DEF custodyVars, signerVars, recoveryVars
<1>2. \A w \in Wallets : Untouched(w)
  BY <1>1, HoldFrame DEF Untouched
<1> QED BY <1>2, RefinesUntouched DEF Ownership!ownershipVars

\* The three contracts implement WalletOwnership: every receipt, callback,
\* retry and reset is a step of the abstract specification or a stutter.
THEOREM CustodyImplementsOwnership == CustodySpec => ImplementsOwnership
<1>1. CustodyInit => Ownership!OwnershipInit
  BY RefinesInit
<1>2. CustodyInv /\ [CustodyNext]_custodyVars
      => [Ownership!OwnershipNext]_(Ownership!ownershipVars)
  BY StepEffect, RefinesStep, RefinesStutter
<1> QED BY <1>1, <1>2, CustodyInvariant, PTL
        DEF CustodySpec, ImplementsOwnership, Ownership!OwnershipSpec

=============================================================================
