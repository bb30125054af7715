# A TLA+ verification of hos-tla-contracts

The repository holds five NEAR contracts that rent out names under top-level
accounts (TLAs), keep the operating keys of the rented wallets, resell and
reclaim them, and recover them for owners who lost their key. Every method that
needs another contract continues in a *callback*, one or more blocks later, and
anything may happen in between. That is what this project is about: the
contracts are modelled method by method and callback by callback, TLC explores
the orders, and TLAPS proves the central results about key custody, about the
names and the money of the registry and about the deposits of sweeps for every
number of wallets, keys, users, calls and rounds.

## 1. The system

| Component | State | Operations | Talks to |
|---|---|---|---|
| `active-signer` | per wallet: operating key, freeze flag, two nonce windows; minters, admins | `install_signer`; owner-signed transactions, messages and freezes; `swap_owner`, `freeze`, `unfreeze` by the two authorities | the MPC signer |
| `mpc-recovery` | per account: policy (bound owner, attestation key, timelock), round, phase; the floor of the rounds | install, request, verdict, finalize, abort, claim; four callbacks; `on_wallet_transferred` | active-signer (freeze, unfreeze, swap), MPC signer |
| `hos-extension` | pause switch, admins; the deposits of sweeps, as part of its balance | `force_transfer` and its callback; `sweep_ft` and its three callbacks; `skim` | active-signer (as marketplace authority), mpc-recovery (reset), tokens |
| `tla-registry` | TLAs, rented and parked names, listings, offers, locks, mothers, counters, refunds, revenue, roles, configuration | marketplace, rental, reclaim, business TLAs, mothers, administration | active-signer (query), hos-extension, tla-manager, tokens, payments |
| `tla-manager` | none beyond its configuration | `create_sub_account`, `retry_install` and their callbacks | MPC signer, the new account, active-signer |

What is hard here: a wallet may be sold, reclaimed and recovered at the same
time, by three contracts that see each other only through receipts; a check made
before a cross-contract call is stale in its callback; each call may fail and
each failing path has locks, counters and money to put back; time moves while a
chain is in flight; retries race for things that may happen once; admins clear
locks under work in flight.

What makes each part correct:

* *Signer*: a nonce is honoured once in a tenure; the owner's halt cannot be
  lifted by anything but a recovery; the key of a wallet changes only by the
  authority its freeze flag admits.
* *Recovery*: at most one call in flight per account, and exactly one while it
  waits; what is approved is what was requested, after its timelock; no round is
  used twice; waiting ends.
* *Custody* (the three together): a wallet held by a recovery is frozen under
  the key its policy is bound to; no freeze without a policy that can undo it; no
  recovery is voided at its end; every change of owner was granted.
* *Sweeps* (extension and signer): the balance of the extension is its own money
  and the deposits of the sweeps in flight, to the yocto, whichever way a sweep
  fails; a deposit comes back at most once and never after the token took it;
  every sweep ends. What an admin skims counts against the extension's own money,
  and nothing stops a skim at that: after one, the own share may be negative and
  the balance below the deposits that are due back.
* *Encoding*: what the MPC key signs for a sign-in is never a transaction.
* *Registry*: locks are held exactly while a sale or a reclaim is in flight and
  are always released; sale and reclaim stay apart; the seller stays the seller;
  every yocto is accounted for; counters, anchors and pending signers agree with
  the names; leases never shrink; a paused registry starts no chain and no sweep,
  keeps names, leases and anchors as they are and earns nothing, but for what the
  chains in flight settle; tokens that were on a wallet all along keep the asset
  gate shut.

## 2. The modules

```
HosAccounts            wallets, keys, admins, None
 |- WalletOwnership    what custody promises (abstract)
 |   '- RegistryState (+ Fees, SweepDeposits)   registry state, helpers, chains
 |       |- Marketplace  |- Rental  |- Reclaim  |- RegistryAdmin  |- TlaManager
 |       '--------- TlaRegistry: all of them, the contracts they call, the properties
 |- ActiveSigner, MpcRecovery, HosExtension
 |   '- Custody: the three composed; Custody => WalletOwnership
 |- HosExtension - FtSweep: the chain of a token sweep, skim
 |   '- TokenSweep: FtSweep with ActiveSigner; TokenSweep => SweepDeposits
 '- proofs: MpcRecoveryProofs - CustodyProofs (the signer's included)
            SumProofs - TokenSweepProofs
            RegistryProofs - TenancyProofs - MoneyProofs
SweepDeposits          what a sweep's deposit may do (abstract)
TxEncoding             what the MPC key signs; TxEncodingProofs
```

`WalletOwnership` is the joint between the halves. The custody contracts are
*proved* to implement it (`CustodyProofs!CustodyImplementsOwnership`); the
registry is checked against it (`RunForceTransfer`, `FirstOwner`, `RecoveryStep`,
`HaltStep`), so its runs contain every behaviour of the custody contracts
without their phases and nonces.

`SweepDeposits` is the second joint: the deposit that `reclaim_sweep_ft` sends
along comes back whole or is gone. The extension is *proved* to implement it
(`TokenSweepProofs!SweepsImplementDeposits`); the registry opens sweeps and receives
what comes back (`RunSweep`).

Definitions keep the names of the code. `PROJECT.json` maps each to its lines.

**ActiveSigner** (`active-signer/src/lib.rs`). `signers[w]` is a `SignerEntry`
without the MPC key and `last_signed_at`. A nonce window is the set of nonces
used; `defuse_wallet`'s window remembers a nonce for as long as an envelope with
it can be valid, so expiry is left out. Methods that answer a callback are an
*outcome* (`SwapOutcome`: `true`, `false` or a panic) and an *effect*
(`swap_owner`), used by the composition. `honoured` is a history variable.

**MpcRecovery** (`mpc-recovery/src`). `accounts[a].phase` is the `Phase` enum;
`promises` holds each call in flight with the callback chained to it, first
pending, then answered. An attestation is the key that made it; a verdict is the
set of accounts whose signature verifies. `requests` is a history variable.

**HosExtension** (`hos-extension/src/lib.rs`). `transfers[t]` is the chain of a
force transfer: swap, callback, detached reset.

**FtSweep** (`hos-extension/src/lib.rs`, the second half). `sweeps[s]` is the chain
of a sweep: balance query, storage deposit, signature, each with its callback. The
contract keeps no record of deposits, so the model keeps the balance they lie in
(`ext_balance`) and, as history, the share of it that is nobody's deposit (`own`)
and what the registry got back (`given_back`). A receipt that fails returns what it
carried before its callback runs; a callback that cannot pay what it sends fails.
`skim` takes anything the balance allows, deposits of sweeps in flight included.

**TokenSweep** runs `FtSweep` beside the whole of `ActiveSigner`: `authority_sign_tx`
is refused for a wallet without signer or frozen, and `on_signed` answers for an MPC
network that may fail. The signature leaves with whoever called
`reclaim_sweep_ft`; what the chain does with the transaction is outside.

**TxEncoding** (`hos-common/src/tx.rs`, `active-signer/src/nep413.rs`). Bytes are
numbers 0..255; lengths are encoded as the code does, other fields are the bytes
they are encoded to. It has no behaviour and is only proved about.

**Custody** composes the three: each receipt runs at any later time, or fails. There
is one active signer. In the code the owner of `mpc-recovery` names one with each
wallet policy (`Target::Wallet { active_signer, .. }`); a policy that names another
signer than the one the registry and the extension use is a configuration the
model leaves out.

**RegistryState, Marketplace, Rental, Reclaim, RegistryAdmin**
(`tla-registry/src`). A wallet stands for its name. `chains[c]` is a chain of
receipts with the arguments its callbacks were given: `method` is the call that
is due, `result` its answer. `funds` keeps refunds, their running total, revenue
and the balance. Business caps, mothers, lifecycles and fees are operators. An
action is the whole method, or the whole callback.

**TlaManager** (`tla-manager/src/lib.rs`). The manager keeps no state; a call and
the callback chained to it are one step, and the deposit travels with the chain.
A retry derives the key in a step of its own, before the installation.

**TlaRegistry** adds the contracts the registry calls (balances: read token by
token, or failing, while tokens come to the wallet and leave it;
payments: arrive or bounce; queries and transfers: answer or fail), block time, the callers, and the properties.

Operators with a comment that starts with `Variant` are not part of the system.
Each is a plausible slip in the definition that follows it, kept to show that
the property it is listed with in `PROJECT.json` would notice.

## 3. Model checking

| Run | Instance | What it shows |
|---|---|---|
| `sweep` | 1 wallet, 2 keys, 1 nonce, 2 admins, 2 sweeps of one unit of storage deposit and one yocto each | nonces, halts and re-keying, with the authorities calling anything; sweeps through every failing path, pauses and skims; refinement of `SweepDeposits`; every sweep ends |
| `recovery` | 1 account, wallet or native, 2 owner keys, 2 attestation keys, timelocks 0 to 2, 2 of 3 watchers, 3 rounds, time 0..3 | the phase machine against contracts that answer anything; liveness |
| `custody` | 1 wallet, 2 keys, 2 force transfers, 2 rounds | sale, recovery, halt and reset in every order; refinement of `WalletOwnership` |
| `market` | 1 name, 2 users, 2 keys, 2 chains | listing, offer, native and paid purchase, recoveries meanwhile |
| `expiry` | 1 name, 2 users, 2 chains, 4 ticks, two tokens of which one comes and goes | renewal, sale, reclaim behind the gate, re-rent, sweep, owner's halt; unswept tokens block; locks are released |
| `override` | the same name, 2 ticks, 1 sweep | an admin clears locks under chains in flight and pauses; claims bounce, a sweep is sent and ends; the pause against purchases, reclaims, sweeps and their callbacks |
| `tenancy` | 2 names of a capped Business TLA, 2 chains, 2 ticks | mint, failed mint, late signer, retraction, reclaim, re-mint, anchors |
| `admin` | the registry from deployment, 1 TLA, 1 name, 2 admins, 2 tariffs | roles, configuration, TLA leases, withdrawals, claims; mints while the creation deposit is raised under them; the pause against what is charged at once (`activate_tla`, `renew_tla`), mints, anchors, retractions and signer retries |
| `self_freeze`, `grief_lock`, `void_park`, `rerent_race` | as `custody` and `expiry` | the findings of section 6 |

**Bounds.** `Slots` = 2 chains in flight: every race the properties speak of is
between two chains, or a chain and a synchronous method. `Transfers` and
`MaxRound` = 2 in custody: a recovery before, during and after a sale and a
second sale after the recovery. `MaxMoney` bounds what is paid in; two payments
are enough for one to be refunded while the other settles. `MaxTime`,
`MaxLease`: enough ticks to rent, expire, pass the grace period and be rented
again. Amounts are small naturals; `MaxAmount` is far above them, and saturation
is proved about instead (`RegistryProofs!ResaleSplit`). Symmetry is used for slots, and for
wallets and keys where no constant tells them apart, only in runs without
liveness.

**Inputs left out of single runs, to keep them exhaustive.** In `market`, sellers
quote the live key, do not sell to themselves, and buyers and recoveries bring
another key than the current one. In `expiry` and `override`, listings quote the
live key and buyers are not the owner. In `tenancy`, new names get one key.
In `admin`, the TLA has one premium category and at most one payment authority; one
user rents its name, in the first tick and before tokens or caps are set, and from
then on time, tokens and caps stand still.
TLA renewals are in `admin` only; tokens move in `expiry` only. The registry is
paused in `override` and `admin`; for the methods neither run has (`set_main_wallet`,
`renew_sub_account`, `accept_offer`, `unlist_sub_account`, `revoke_offer`)
`PauseStopsNewWork` rests on the theorem `PauseHolds`. In `sweep`, the
extension keeps its first admin.

**Time.** A tick is a day or more: the shortest grace period the code accepts is
one day, and a chain of receipts takes seconds, so a chain sees at most one tick
(`aged`). The retraction notice in the runs is two ticks, longer than a chain.
Nothing in the code asks for that: it accepts a notice of zero, and the
repository's integration tests deploy with one nanosecond
(`"retraction_notice_ns": "1"`, `integration/tests/registry_flow.rs:267`). Under such
a notice a name is reclaimed while its mint is in flight and `CountsAgree` fails on
the instance of `tenancy`.

**Tariffs.** The callback of a mint charges the creation deposit in force when *it*
runs, not the one that left with the chain. `EveryYoctoAccounted` is exact only
while they are the same, so the runs that check it keep one deposit. `admin` has
two: it may be raised at any time and lowered between mints
(`DepositNotLowered`), and the balance covers every claim (`EveryClaimCovered`).
Without that guard TLC finds the deposit lowered under a mint, which refunds
money that has left. The guard is the run's: `update_fee_config` looks at no chain.

**What the runs exclude and the code does not.** Three cases in all, each a hazard in
`PROJECT.json` that the properties beside it do *not* catch, because the runs and the
theorems leave the failing direction out: a creation deposit lowered under a mint
(`callbacks.rs:158`), a retraction notice shorter than a chain (`business.rs:13`), and
a parked wallet that is still called under a former key and rents (`mother.rs:58`).
A fourth, the skim of deposits in flight (`hos-extension/src/lib.rs:154`), is in the
run `sweep` and is recorded there, in `own`, and not forbidden.

**Fairness.** Weak fairness of the next receipt or callback of each chain, chain by
chain (`Delivery`, `RecoveryDelivery`, `SweepDelivery`), because
NEAR delivers every receipt and runs the callback chained to it whether it succeeded or not. No user, owner or admin is assumed
to do anything, and no call is assumed to succeed.

**Deadlock** is checked in `sweep`, `recovery`, `custody`, `market` and `admin`.
In the runs on `MCExpiry` and `MCTenancy` the bounded system may stop: when time
and money have reached their bounds a reclaimed name stays parked.

`RegistryTypeOK` is checked in `market`, whose actions set every field of a
chain that types could confuse.

## 4. Proofs

All theorems hold for every value of the constants that satisfies the named
assumptions: `AccountConstants` (finitely many admins, `None` is no key),
`SignerConstants` (every wallet has a parent TLA), `RecoveryConstants`
(timelocks and bounds are naturals, the threshold lies within the watchers),
`RecoveryNone`, `FeeConstants`, `FtSweepConstants` and `SweepConstants` (deposits
are naturals), `RegistryConstants` (every name has its TLA, a length and a tariff;
a year and the grace period are at least a tick), `RentalConstants`,
`ManagerConstants`, `InputConstants` (prices and payments are naturals) and
`RegistryNone`. `MaxRound`, `MaxTime`, `MaxMoney`, `Slots` and `Transfers` are
arbitrary there, so the bounds of the runs play no part. A theorem that needs more
says so in its own ASSUME.

* **MpcRecoveryProofs.** `OneCallInFlight` and `ApprovedAsRequested` are not
  inductive alone: `RecoveryInv` adds, account by account, that every phase but
  Idle belongs to the last accepted request, with its key, round, time and
  timelock (the timelock of a policy cannot change under a request), and that
  every accepted request is of an earlier round than the current one, with or
  without a policy (the floor). One lemma per method and callback shows that
  only the account of the step is touched and that its part of the invariant
  survives. `RoundSpentOnce` follows from the same invariant.
* **CustodyProofs.** The signer by itself first: types; `HonouredOnce` through
  `WindowIsRecord` (a nonce was honoured exactly when it is in the window, which
  freezes and refused swaps leave alone); `HaltIsOneWay` and `RekeyedByAuthority`
  from one lemma, `EntryChange`, that lists every way an entry can change.
  Then the three contracts: `CustodyInv` joins the invariants of the parts with
  `HeldWalletIsFrozen` and `FreezeIsHeld` for every wallet (`WalletInv`) and the
  answers the calls in flight can have (`ResultsFit`). `Held(w)`
  spans the run of the freeze to the run of the swap or the
  unfreeze; lemmas of two kinds carry the proof: methods, resets and callbacks
  *keep* what is held, runs on the signer change it in one of a few ways
  (`StepEffect`). `NeverVoided`, `OwnerChangesAreGranted` and the refinement
  `ImplementsOwnership` are read off that case split.
* **SumProofs.** Sums over finite sets: what `SumFunction` returns when one entry
  changes. Induction is over a *set* of numbers (`SetInduction`), because the
  library's rule takes an operator, which the provers cannot instantiate.
* **TokenSweepProofs.** One lemma per receipt and callback of a sweep shows the same
  `SweepEffect`: the chain of the sweep turns, and balance, own money and what was
  given back change by what that turn says. `DepositsAlwaysCovered` (with
  finitely many sweeps; skims lower `own`, which the theorem lets go below zero) and the refinement of `SweepDeposits` both follow from it.
* **RegistryProofs.** `ResaleSplit`: commission and proceeds add up to the price for
  every price and rate, saturation included. `RegistryTypeCorrect` needs `TypeInv`:
  what a chain carries depends on its kind and its call (a reclaim has no price, a
  query no buyer), and a rented name has its TLA (`LinksOK`). `GateHolds` adds to
  it `GateInv`: a token that has been on the wallet since the fan-out is among those not
  yet read, so no answer can be "clear" while there is one. `LeasesKept` needs that
  a TLA which was never activated has no lease yet (`NoLeaseYet`). `PauseHolds`
  has three parts. Every user's method but a claim asks for a registry that is not
  paused (`NotWhilePaused`). A callback, which does not ask, changes nothing but the name its
  chain is about, and that name only if the chain ends (`OtherNamesStand`,
  `PassingStands`). The methods of admins, which do not ask either, take off locks and anchors
  and activate Open TLAs, no more (`OverridesStand`, `AdminLeasesStand`).
* **TenancyProofs.** The life of a name while several chains are in flight on it.
  `TenancyInv` is a conjunction per name, because no lock speaks of two names: a
  step is examined for the name it is about, and for the others it is shown to
  be `Quiet`. Its parts, in the order they rest on each other: a sale needs a signer
  (`SignerKnown`); Business names are retracted and never sold (`SoldOrRetracted`);
  a lock is held by exactly one chain (`SaleLock`, `ReclaimLock`); a reclaim past the
  gate is of a name that cannot be sold any more (`TooLateToSell`), as leases
  never shrink and time only passes; a name being minted or re-rented cannot expire before
  its chain ends (`RentalRuns`) and so is not reclaimed meanwhile (`RentalAlone`);
  hence where signers may be (`SignerPlace`, `MintFirst`, `SignerAwaited`).
  `LocksHold`, `SalesAndReclaimsApart` and `SellerStays` follow with no assumption,
  for the names whose locks no admin has cleared under a chain (`overridden`).
  `SignersAgree` and `CountersAgree` need
  `NoticeOutlastsChains`: the code accepts a retraction notice of zero, and under a
  notice shorter than a chain a name is reclaimed while it is minted (the case
  `Covered` leaves out). For the counters `CountInv` counts the rented names with no
  mint or re-rent in flight (`Settled`), and the rest are in bijection
  with the chains that mint or re-rent them.
  `MothersCounted` is about the anchors. `AnchorsAreCounted` speaks of rented
  names only and is not inductive: an anchor outlives the tenancy. `AnchorInv`
  says that the count is never below the anchors for *every* name, rented or
  not. One step breaks it: renting anchors the renter to itself,
  and counts that only if the renter is a rented name. A wallet that is
  parked but still called under a former key would be anchored uncounted, and be short
  once its name is rented again; `OnlyTenantsAnchor`, a hypothesis
  on the steps, excludes that. (In the runs no user is a wallet, so
  the hypothesis holds there.)
* **MoneyProofs.** `Surplus` is what is left of the balance after refunds, revenue,
  what came back from sweeps and what each chain in flight is owed (`Due`).
  `BooksInv` says that the running total is the sum of the refunds and that each chain
  is `Backed`: its deposit pays for its price and for what left with it, and what
  left with a failed mint is back. Under it every step keeps the surplus as it is
  (`Even`), method by method and callback by callback, with one exception: the callback
  of a mint that succeeded (`Records`) changes it by the difference between the
  creation deposit of that moment and the one that left. `MintsHold` follows the deposit
  from the start of a mint to its callback. Three theorems come of it.
  `RefundsAddUp` needs no hypothesis: the total that `withdraw` reserves is the sum
  of the refunds. `RegistrySolvent` (`EveryClaimCovered`): if no admin lowers the
  deposit under a mint, the surplus never becomes negative, admin overrides included (a
  mint whose entry is gone panics, and its payment stays with the registry).
  `MoneyAccounted` (`EveryYoctoAccounted`): if the deposit does not change under a
  mint either, and the notice of a retraction outlasts a chain, the surplus
  is exactly zero until an admin clears a lock under a chain. The hypotheses
  are about what admins do and are stated as step formulas next to the specification
  (`[][DepositNotLowered]_registryVars`); the code enforces none of them. All
  three ask for finitely many users, names and chains.
* **TxEncodingProofs.** `MessageIsNoTransaction`: one MPC key signs transactions and
  NEP-413 messages of a wallet; for every transaction and message, of any lengths,
  the bytes differ. The fourth byte tells them apart: the highest byte of the length
  of an account name (at most 64) against that of a tag above 2^31. The proof needs
  only how sequences are joined (`Joined`, `FourthByte`). That the hashes which
  are signed differ too is a matter of SHA-256.

**Only model-checked:** liveness (`WaitingEnds`, `LocksReleased`, `SweepsEnd`), which
the prover does not handle. Every invariant and action property of a passing run
is also a theorem, with one difference: `override` checks `EveryYoctoAccounted` while
admins clear locks under chains, and `MoneyAccounted` proves it until the first such
override. With overrides the theorem is `RegistrySolvent`, that the balance is not
below the claims.

## 5. Not modelled

Views, events and error texts; the bytes of a transaction's actions, of the AddKey
transaction of a recovery and of proofs, hexadecimal and base58 texts; gas (a chain
of the manager that stops for lack of gas); storage cost in `available_balance`;
`last_signed_at`, which only a view reads; amounts and destinations of sweeps, and
the sending of the signed transaction; the test doubles, which the model replaces
by receipts that answer anything.

## 6. Where the code and its documents disagree

* `self_freeze` - `THREAT_MODEL.md` says that only a recovery that rotates the key
  clears a self-freeze. `request_recovery` accepts the current key as the new one,
  so a recovery to the halted key clears the halt and rotates nothing.
* `grief_lock` - `THREAT_MODEL.md` says that a tenant cannot grief-lock an expired
  name past its lease. `set_mother` ignores the lock of a sale: an anchor set by the
  seller during the settlement counts as a third party's afterwards and blocks the
  reclaim until an admin clears it.
* `void_park` - an integration test says that a park rotates the wallet to the
  parked key. `on_reclaim_finalized` takes the extension's successful `false` for a
  transfer: a name whose swap was refused (a halted wallet, for one) is parked
  under its former tenant's key.
* `rerent_race` - `THREAT_MODEL.md` calls the settlement's compare-and-swap the
  authoritative guard of a sale. A re-rented name can be listed and sold before its
  own re-keying swap has run, and that swap expects no owner.

## 7. Plan

Done, in this order: the signer, the recovery, the extension and their
composition, with proofs; the fees; the registry's modules, one per source file;
the token sweep, its abstract specification and the asset gate token by token; the
encoding; the runs of section 3.

Then the theorems: the deposits of sweeps and their refinement; the registry's
types, gate, leases and pause; its names, locks, signers, counters and mothers; its
money.

What could follow: lemmas about lifecycles and rents (`time_lifecycle` partitions
time, renewal is monotone); and gas, which would let a
callback of the manager stop halfway.
