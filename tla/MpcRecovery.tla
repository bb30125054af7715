---------------------------- MODULE MpcRecovery -----------------------------
(***************************************************************************)
(* contracts/mpc-recovery: the opt-in recovery of a wallet (through the    *)
(* active signer) or of a raw NEAR account (through an AddKey transaction  *)
(* signed by the MPC network).  Every account with a policy runs the       *)
(* machine                                                                 *)
(*                                                                         *)
(*   Idle -> Requested -> Approving -> Approved -> Resolving -> Idle       *)
(*                                                                         *)
(* with Approving and Resolving waiting for the callback of a call to      *)
(* another contract.  Such a call and the callback chained to it are one   *)
(* element of `promises': the call runs at some later time (Answer), the   *)
(* callback after that, and anything else may happen in between.           *)
(*                                                                         *)
(* Abstracted: signatures (an attestation is the key that made it, a       *)
(* verdict the set of accounts whose signatures over the verdict message   *)
(* of the pending request verify), the bytes of the AddKey transaction.    *)
(***************************************************************************)
EXTENDS HosAccounts

CONSTANTS
    AttestationKeys, \* keys that may attest recovery requests
    Timelocks,       \* timelocks an owner may ask for
    MinTimelock,     \* MIN_TIMELOCK_SECS
    Watchers,        \* the watcher set fixed at deployment
    Threshold,       \* the quorum fixed at deployment
    MaxRound,        \* bound: rounds an account goes through
    MaxTime          \* bound: the block time

ASSUME RecoveryConstants ==
    /\ Timelocks \subseteq Nat
    /\ MinTimelock \in Nat
    /\ IsFiniteSet(Watchers)
    /\ Threshold \in 1..Cardinality(Watchers)
    /\ MaxRound \in Nat
    /\ MaxTime \in Nat

VARIABLES
    accounts,    \* account -> policy with its phase, or None
    round_floor, \* account -> the round its last removed policy had reached
    promises,    \* cross-contract calls whose callback has not run yet
    now,         \* block time
    requests     \* history: the last request accepted for an account

recoveryVars == <<accounts, round_floor, promises, now, requests>>

PhaseTag == {"Idle", "Requested", "Approving", "Approved", "Resolving"}

Phase == [tag : PhaseTag, new_owner : KeyOrNone, round : Nat, requested_at : Nat]

Idle == [tag |-> "Idle", new_owner |-> None, round |-> 0, requested_at |-> 0]

Requested(k, r, t) ==
    [tag |-> "Requested", new_owner |-> k, round |-> r, requested_at |-> t]

\* The phases after the verdict carry the request's key and round.
InPhase(tag, k, r) ==
    [tag |-> tag, new_owner |-> k, round |-> r, requested_at |-> 0]

AccountOf(target, bound_owners) ==
    [target          : {target},
     bound_owner     : bound_owners,
     attestation_key : AttestationKeys,
     timelock        : Nat,
     round           : Nat,
     phase           : Phase]

\* A policy for a wallet is bound to the owner it is to recover from.
Account == AccountOf("Wallet", Keys) \cup AccountOf("Native", {None})

\* What a call to another contract answers; "err" is a failed receipt.
Answers(method) ==
    CASE method = "swap_owner" -> {"true", "false", "err"}
      [] OTHER -> {"ok", "err"}

Promise == [method    : {"freeze", "unfreeze", "swap_owner", "sign"},
            account   : Wallets,
            round     : Nat,
            new_owner : KeyOrNone,
            expected  : KeyOrNone,
            result    : {"pending", "ok", "true", "false", "err"}]

Request == [new_owner : Keys, round : Nat, at : Nat, timelock : Nat]

ASSUME RecoveryNone == None \notin Account /\ None \notin Request

-----------------------------------------------------------------------------

HasPolicy(a)  == accounts[a] # None
Tag(a)        == accounts[a].phase.tag

WithPhase(account, p)   == [account EXCEPT !.phase = p]
NextRound(account)      == [account EXCEPT !.round = @ + 1]
BoundTo(account, k)     == [account EXCEPT !.bound_owner = k]

SetPhase(a, p) == accounts' = [accounts EXCEPT ![a] = WithPhase(@, p)]

Call(method, a, r, new_owner, expected) ==
    [method |-> method, account |-> a, round |-> r,
     new_owner |-> new_owner, expected |-> expected, result |-> "pending"]

RecoveryInit ==
    /\ accounts    = [a \in Wallets |-> None]
    /\ round_floor = [a \in Wallets |-> 0]
    /\ promises    = {}
    /\ now         = 0
    /\ requests    = [a \in Wallets |-> None]

-----------------------------------------------------------------------------
(* Methods.  `caller' is "owner" for the owner of the recovery contract.   *)

\* Variant: a new policy keeps the owner its predecessor was bound to.
install_policy_stale(caller, a, target, bound_owner, attestation_key, timelock) ==
    /\ caller = "owner"
    /\ timelock >= MinTimelock
    /\ HasPolicy(a) => Tag(a) = "Idle"
    /\ accounts' = [accounts EXCEPT ![a] =
         [target          |-> target,
          bound_owner     |-> IF HasPolicy(a) THEN accounts[a].bound_owner
                                              ELSE bound_owner,
          attestation_key |-> attestation_key,
          timelock        |-> timelock,
          round           |-> IF HasPolicy(a) THEN accounts[a].round
                                              ELSE round_floor[a],
          phase           |-> Idle]]
    /\ UNCHANGED <<round_floor, promises, now, requests>>

\* A policy replaces another only while that one is idle, and goes on from
\* its round; a new one goes on from the floor.
install_policy(caller, a, target, bound_owner, attestation_key, timelock) ==
    /\ caller = "owner"
    /\ timelock >= MinTimelock
    /\ HasPolicy(a) => Tag(a) = "Idle"
    /\ accounts' = [accounts EXCEPT ![a] =
         [target          |-> target,
          bound_owner     |-> bound_owner,
          attestation_key |-> attestation_key,
          timelock        |-> timelock,
          round           |-> IF HasPolicy(a) THEN accounts[a].round
                                              ELSE round_floor[a],
          phase           |-> Idle]]
    /\ UNCHANGED <<round_floor, promises, now, requests>>

\* `attested_by' signed the request message of (a, new_owner, round).
request_recovery(a, new_owner, round, attested_by) ==
    /\ HasPolicy(a)
    /\ Tag(a) = "Idle"
    /\ round = accounts[a].round
    /\ attested_by = accounts[a].attestation_key
    /\ round < MaxRound
    /\ accounts' = [accounts EXCEPT ![a] =
         NextRound(WithPhase(@, Requested(new_owner, round, now)))]
    /\ requests' = [requests EXCEPT ![a] =
         [new_owner |-> new_owner, round |-> round,
          at |-> now, timelock |-> accounts[a].timelock]]
    /\ UNCHANGED <<round_floor, promises, now>>

\* Enough distinct watchers signed; other signatures do not count.
verify_quorum(signed) == Cardinality(signed \cap Watchers) >= Threshold

\* Variant: the verdict does not wait for the timelock.
submit_verdict_early(a, silent, signed) ==
    /\ HasPolicy(a)
    /\ Tag(a) = "Requested"
    /\ verify_quorum(signed)
    /\ silent
    /\ accounts[a].target = "Wallet"
    /\ SetPhase(a, InPhase("Approving", accounts[a].phase.new_owner,
                                        accounts[a].phase.round))
    /\ promises' = promises \cup {Call("freeze", a, accounts[a].phase.round, None,
                                       accounts[a].bound_owner)}
    /\ UNCHANGED <<round_floor, now, requests>>

submit_verdict(a, silent, signed) ==
    /\ HasPolicy(a)
    /\ Tag(a) = "Requested"
    /\ now >= accounts[a].phase.requested_at + accounts[a].timelock
    /\ verify_quorum(signed)
    /\ LET k == accounts[a].phase.new_owner
           r == accounts[a].phase.round
       IN  \/ /\ ~silent
              /\ SetPhase(a, Idle)
              /\ UNCHANGED promises
           \/ /\ silent
              /\ accounts[a].target = "Wallet"
              /\ SetPhase(a, InPhase("Approving", k, r))
              /\ promises' = promises
                   \cup {Call("freeze", a, r, None, accounts[a].bound_owner)}
           \/ /\ silent
              /\ accounts[a].target = "Native"
              /\ SetPhase(a, InPhase("Approved", k, r))
              /\ UNCHANGED promises
    /\ UNCHANGED <<round_floor, now, requests>>

\* Variant: the recovery stays approved while its swap is in flight.
finalize_recovery_again(caller, a) ==
    /\ HasPolicy(a)
    /\ Tag(a) = "Approved"
    /\ accounts[a].target = "Wallet"
    /\ promises' = promises \cup
         {Call("swap_owner", a, accounts[a].phase.round, accounts[a].phase.new_owner,
               accounts[a].bound_owner)}
    /\ UNCHANGED <<accounts, round_floor, now, requests>>

\* Anybody finalizes a wallet, only the owner a native account.
finalize_recovery(caller, a) ==
    /\ HasPolicy(a)
    /\ Tag(a) = "Approved"
    /\ accounts[a].target = "Native" => caller = "owner"
    /\ LET k == accounts[a].phase.new_owner
           r == accounts[a].phase.round
       IN  /\ SetPhase(a, InPhase("Resolving", k, r))
           /\ promises' = promises \cup
                {IF accounts[a].target = "Native"
                   THEN Call("sign", a, r, k, None)
                   ELSE Call("swap_owner", a, r, k, accounts[a].bound_owner)}
    /\ UNCHANGED <<round_floor, now, requests>>

abort_recovery(caller, a) ==
    /\ caller = "owner"
    /\ HasPolicy(a)
    /\ \/ /\ \/ Tag(a) = "Requested"
             \/ Tag(a) = "Approved" /\ accounts[a].target = "Native"
          /\ SetPhase(a, Idle)
          /\ UNCHANGED promises
       \/ /\ Tag(a) = "Approved" /\ accounts[a].target = "Wallet"
          /\ LET k == accounts[a].phase.new_owner
                 r == accounts[a].phase.round
             IN  /\ SetPhase(a, InPhase("Resolving", k, r))
                 /\ promises' = promises \cup {Call("unfreeze", a, r, None, None)}
    /\ UNCHANGED <<round_floor, now, requests>>

claim_native_finalized(caller, a, round) ==
    /\ caller = "owner"
    /\ HasPolicy(a)
    /\ accounts[a].target = "Native"
    /\ Tag(a) = "Approved"
    /\ round = accounts[a].phase.round
    /\ SetPhase(a, Idle)
    /\ UNCHANGED <<round_floor, promises, now, requests>>

\* Variant: the round of the removed policy is not kept.
on_wallet_transferred_forgets(a) ==
    /\ accounts' = IF HasPolicy(a) /\ Tag(a) \in {"Idle", "Requested"}
                     THEN [accounts EXCEPT ![a] = None]
                     ELSE accounts
    /\ UNCHANGED <<round_floor, promises, now, requests>>

\* Variant: a live recovery loses its policy as well.
on_wallet_transferred_any(a) ==
    /\ IF HasPolicy(a)
         THEN /\ round_floor' = [round_floor EXCEPT ![a] = accounts[a].round]
              /\ accounts'    = [accounts EXCEPT ![a] = None]
         ELSE UNCHANGED <<round_floor, accounts>>
    /\ UNCHANGED <<promises, now, requests>>

\* The transfer authority announces that a wallet changed hands.  A live
\* recovery keeps its policy.
on_wallet_transferred(a) ==
    /\ IF HasPolicy(a) /\ Tag(a) \in {"Idle", "Requested"}
         THEN /\ round_floor' = [round_floor EXCEPT ![a] = accounts[a].round]
              /\ accounts'    = [accounts EXCEPT ![a] = None]
         ELSE UNCHANGED <<round_floor, accounts>>
    /\ UNCHANGED <<promises, now, requests>>

-----------------------------------------------------------------------------
(* Callbacks.  Each runs once, when the call it is chained to has an       *)
(* answer, and does nothing unless the account still waits for it.         *)

Awaits(p, tag) == /\ HasPolicy(p.account)
                  /\ Tag(p.account) = tag
                  /\ accounts[p.account].phase.round = p.round

Consume(p) == /\ promises' = promises \ {p}
              /\ UNCHANGED <<round_floor, now, requests>>

\* Variant: a failed freeze is not handled.
on_frozen_only_ok(p) ==
    /\ p.method = "freeze" /\ p.result # "pending"
    /\ IF Awaits(p, "Approving") /\ p.result = "ok"
         THEN SetPhase(p.account,
                InPhase("Approved", accounts[p.account].phase.new_owner, p.round))
         ELSE UNCHANGED accounts
    /\ Consume(p)

on_frozen(p) ==
    /\ p.method = "freeze" /\ p.result # "pending"
    /\ IF Awaits(p, "Approving")
         THEN SetPhase(p.account,
                IF p.result = "ok"
                  THEN InPhase("Approved", accounts[p.account].phase.new_owner, p.round)
                  ELSE Idle)
         ELSE UNCHANGED accounts
    /\ Consume(p)

\* Variant: a failed swap gives the recovery up.
on_finalized_gives_up(p) ==
    /\ p.method = "swap_owner" /\ p.result # "pending"
    /\ LET k == accounts[p.account].phase.new_owner
       IN  IF Awaits(p, "Resolving")
             THEN accounts' = [accounts EXCEPT ![p.account] =
                    IF p.result = "true" THEN BoundTo(WithPhase(@, Idle), k)
                                         ELSE WithPhase(@, Idle)]
             ELSE UNCHANGED accounts
    /\ Consume(p)

\* Ok(true) binds the policy to the key that was installed; Ok(false) voids
\* the recovery; a failed call leaves it approved, to be tried again.
on_finalized(p) ==
    /\ p.method = "swap_owner" /\ p.result # "pending"
    /\ LET k == accounts[p.account].phase.new_owner
       IN  IF Awaits(p, "Resolving")
             THEN accounts' = [accounts EXCEPT ![p.account] =
                    CASE p.result = "err" ->
                           WithPhase(@, InPhase("Approved", k, p.round))
                      [] p.result = "true" /\ accounts[p.account].target = "Wallet" ->
                           BoundTo(WithPhase(@, Idle), k)
                      [] OTHER -> WithPhase(@, Idle)]
             ELSE UNCHANGED accounts
    /\ Consume(p)

settle_resolving(p, done) ==
    IF Awaits(p, "Resolving")
      THEN SetPhase(p.account,
             IF done
               THEN Idle
               ELSE InPhase("Approved", accounts[p.account].phase.new_owner, p.round))
      ELSE UNCHANGED accounts

on_aborted(p) ==
    /\ p.method = "unfreeze" /\ p.result # "pending"
    /\ settle_resolving(p, p.result = "ok")
    /\ Consume(p)

\* A signature is not yet an accepted transaction: the round stays approved.
on_signed(p) ==
    /\ p.method = "sign" /\ p.result # "pending"
    /\ settle_resolving(p, FALSE)
    /\ Consume(p)

Callback(p) == on_frozen(p) \/ on_finalized(p) \/ on_aborted(p) \/ on_signed(p)

-----------------------------------------------------------------------------
(* Environment: block time, and the answer of a called contract.           *)

Tick == /\ now < MaxTime
        /\ now' = now + 1
        /\ UNCHANGED <<accounts, round_floor, promises, requests>>

Answered(p, result) ==
    promises' = (promises \ {p}) \cup {[p EXCEPT !.result = result]}

\* A contract about which nothing is assumed answers anything.
Answer(p) ==
    /\ p.result = "pending"
    /\ \E result \in Answers(p.method) : Answered(p, result)
    /\ UNCHANGED <<accounts, round_floor, now, requests>>

RecoveryCall ==
    \E a \in Wallets, caller \in {"owner", "stranger"} :
        \/ \E target \in {"Wallet", "Native"}, ak \in AttestationKeys,
              t \in Timelocks, k \in KeyOrNone :
              /\ k = None <=> target = "Native"
              /\ install_policy(caller, a, target, k, ak, t)
        \/ finalize_recovery(caller, a)
        \/ abort_recovery(caller, a)
        \/ \E r \in 0..MaxRound : claim_native_finalized(caller, a, r)

RecoveryMessage ==
    \E a \in Wallets :
        \/ \E k \in Keys, r \in 0..MaxRound, ak \in AttestationKeys :
              request_recovery(a, k, r, ak)
        \/ \E silent \in BOOLEAN, signed \in SUBSET Watchers :
              submit_verdict(a, silent, signed)

RecoveryNext ==
    \/ RecoveryCall
    \/ RecoveryMessage
    \/ Tick
    \/ \E a \in Wallets : on_wallet_transferred(a)
    \/ \E p \in promises : Answer(p) \/ Callback(p)

\* NEAR delivers every receipt, whether it then succeeds or fails, and runs
\* the callback chained to it.  Nobody is obliged to call a method.
RecoveryDelivery ==
    \A a \in Wallets :
        /\ WF_recoveryVars(\E p \in promises : p.account = a /\ Answer(p))
        /\ WF_recoveryVars(\E p \in promises : p.account = a /\ Callback(p))

RecoverySpec ==
    RecoveryInit /\ [][RecoveryNext]_recoveryVars /\ RecoveryDelivery

-----------------------------------------------------------------------------
(* Properties of the contract on its own, whatever the called contracts    *)
(* answer.                                                                 *)

RecoveryTypeOK ==
    /\ accounts    \in [Wallets -> Account \cup {None}]
    /\ round_floor \in [Wallets -> Nat]
    /\ promises    \subseteq Promise
    /\ now         \in Nat
    /\ requests    \in [Wallets -> Request \cup {None}]

\* The account waits for a callback.
Waiting(a) == HasPolicy(a) /\ Tag(a) \in {"Approving", "Resolving"}

\* p is a call the account waits for, made for its round with its keys.
Awaited(a, p) ==
    /\ p.account = a
    /\ p.round = accounts[a].phase.round
    /\ \/ /\ Tag(a) = "Approving"
          /\ accounts[a].target = "Wallet"
          /\ p.method = "freeze"
          /\ p.expected = accounts[a].bound_owner
       \/ /\ Tag(a) = "Resolving"
          /\ accounts[a].target = "Wallet"
          /\ p.method = "swap_owner"
          /\ p.new_owner = accounts[a].phase.new_owner
          /\ p.expected = accounts[a].bound_owner
       \/ /\ Tag(a) = "Resolving"
          /\ accounts[a].target = "Wallet"
          /\ p.method = "unfreeze"
       \/ /\ Tag(a) = "Resolving"
          /\ accounts[a].target = "Native"
          /\ p.method = "sign"

\* A recovery is never bricked and never races itself (submit_verdict,
\* finalize_recovery, abort_recovery and the callbacks): an account that waits
\* has exactly one call or callback in flight, of its phase and round and with
\* the keys of its policy, and an account that does not wait has none.
OneCallOf(a) ==
    /\ Waiting(a) => \E p \in promises : Awaited(a, p)
    /\ \A p \in promises :
          p.account = a => /\ Waiting(a) /\ Awaited(a, p)
                           /\ \A q \in promises : q.account = a => q = p

OneCallInFlight == \A a \in Wallets : OneCallOf(a)

\* What is approved is what was requested (request_recovery, submit_verdict):
\* from the verdict on, the key and the round are those of the last accepted
\* request and its whole timelock has passed, whatever was reset, reinstalled
\* or retried in between.
ApprovedAsRequested ==
    \A a \in Wallets :
        HasPolicy(a) /\ Tag(a) \in {"Approving", "Approved", "Resolving"} =>
            /\ requests[a] # None
            /\ accounts[a].phase.new_owner = requests[a].new_owner
            /\ accounts[a].phase.round = requests[a].round
            /\ requests[a].at + requests[a].timelock <= now
            /\ requests[a].timelock >= MinTimelock

\* A round is spent for good (install_policy, request_recovery,
\* on_wallet_transferred): every accepted request has a later round than the
\* one accepted before it, also when the policy was removed by a transfer and
\* installed again in between.
RoundStep ==
    \A a \in Wallets :
        requests'[a] # requests[a] /\ requests[a] # None
        => requests'[a].round > requests[a].round

RoundSpentOnce == [][RoundStep]_recoveryVars

\* A recovery that waits for another contract stops waiting (the callbacks
\* have no failing path): the account comes back to a phase from which it can
\* be retried, aborted or requested again.
WaitingEnds ==
    \A a \in Wallets :
        Waiting(a) ~> HasPolicy(a) /\ Tag(a) \in {"Idle", "Approved"}

=============================================================================
