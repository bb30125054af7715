-------------------------- MODULE MpcRecoveryProofs -------------------------
(* Proofs about the recovery contract, for any accounts, keys, timelocks,  *)
(* watcher set and threshold, and whatever the called contracts answer.    *)
EXTENDS MpcRecovery, TLAPS

-----------------------------------------------------------------------------
(* The records the contract builds.                                        *)

LEMMA PhaseTypes ==
    /\ Idle \in Phase
    /\ \A k \in Keys, r \in Nat, t \in Nat : Requested(k, r, t) \in Phase
    /\ \A tag \in PhaseTag, k \in KeyOrNone, r \in Nat : InPhase(tag, k, r) \in Phase
BY DEF Idle, Requested, InPhase, Phase, PhaseTag, KeyOrNone

LEMMA PhaseFields ==
    /\ Idle.tag = "Idle"
    /\ \A k, r, t : /\ Requested(k, r, t).tag = "Requested"
                    /\ Requested(k, r, t).new_owner = k
                    /\ Requested(k, r, t).round = r
                    /\ Requested(k, r, t).requested_at = t
    /\ \A tag, k, r : /\ InPhase(tag, k, r).tag = tag
                      /\ InPhase(tag, k, r).new_owner = k
                      /\ InPhase(tag, k, r).round = r
BY DEF Idle, Requested, InPhase

\* A policy record with another phase, another round or another bound owner
\* is the same in everything else.
LEMMA AccountFields ==
    ASSUME NEW acc \in Account
    PROVE  /\ \A p \in Phase :
                 /\ WithPhase(acc, p) \in Account
                 /\ WithPhase(acc, p).phase = p
                 /\ WithPhase(acc, p).target = acc.target
                 /\ WithPhase(acc, p).bound_owner = acc.bound_owner
                 /\ WithPhase(acc, p).timelock = acc.timelock
                 /\ WithPhase(acc, p).round = acc.round
           /\ /\ NextRound(acc) \in Account
              /\ NextRound(acc).phase = acc.phase
              /\ NextRound(acc).target = acc.target
              /\ NextRound(acc).bound_owner = acc.bound_owner
              /\ NextRound(acc).timelock = acc.timelock
              /\ NextRound(acc).round = acc.round + 1
           /\ \A k \in Keys :
                 /\ acc.target = "Wallet" => BoundTo(acc, k) \in Account
                 /\ BoundTo(acc, k).phase = acc.phase
                 /\ BoundTo(acc, k).target = acc.target
                 /\ BoundTo(acc, k).bound_owner = k
                 /\ BoundTo(acc, k).timelock = acc.timelock
                 /\ BoundTo(acc, k).round = acc.round
<1>1. ASSUME NEW p \in Phase
      PROVE  /\ WithPhase(acc, p) \in Account
             /\ WithPhase(acc, p).phase = p
             /\ WithPhase(acc, p).target = acc.target
             /\ WithPhase(acc, p).bound_owner = acc.bound_owner
             /\ WithPhase(acc, p).timelock = acc.timelock
             /\ WithPhase(acc, p).round = acc.round
  BY DEF WithPhase, Account, AccountOf
<1>2. /\ NextRound(acc) \in Account
      /\ NextRound(acc).phase = acc.phase
      /\ NextRound(acc).target = acc.target
      /\ NextRound(acc).bound_owner = acc.bound_owner
      /\ NextRound(acc).timelock = acc.timelock
      /\ NextRound(acc).round = acc.round + 1
  BY DEF NextRound, Account, AccountOf
<1>3. ASSUME NEW k \in Keys
      PROVE  /\ acc.target = "Wallet" => BoundTo(acc, k) \in Account
             /\ BoundTo(acc, k).phase = acc.phase
             /\ BoundTo(acc, k).target = acc.target
             /\ BoundTo(acc, k).bound_owner = k
             /\ BoundTo(acc, k).timelock = acc.timelock
             /\ BoundTo(acc, k).round = acc.round
  BY DEF BoundTo, Account, AccountOf
<1> QED BY <1>1, <1>2, <1>3

LEMMA PolicyType ==
    ASSUME RecoveryTypeOK, NEW a \in Wallets, HasPolicy(a)
    PROVE  /\ accounts[a] \in Account
           /\ accounts[a].phase \in Phase
           /\ accounts[a].phase.tag \in PhaseTag
           /\ accounts[a].phase.new_owner \in KeyOrNone
           /\ accounts[a].phase.round \in Nat
           /\ accounts[a].phase.requested_at \in Nat
           /\ accounts[a].target \in {"Wallet", "Native"}
           /\ accounts[a].bound_owner \in KeyOrNone
           /\ accounts[a].target = "Wallet" => accounts[a].bound_owner \in Keys
           /\ accounts[a].timelock \in Nat
           /\ accounts[a].round \in Nat
<1>1. accounts[a] \in Account
  BY DEF RecoveryTypeOK, HasPolicy
<1>2. accounts[a].phase \in Phase
  BY <1>1 DEF Account, AccountOf
<1> QED BY <1>1, <1>2 DEF Account, AccountOf, Phase, KeyOrNone

LEMMA CallType ==
    ASSUME NEW m \in {"freeze", "unfreeze", "swap_owner", "sign"}, NEW a \in Wallets,
           NEW r \in Nat, NEW k \in KeyOrNone, NEW e \in KeyOrNone
    PROVE  /\ Call(m, a, r, k, e) \in Promise
           /\ Call(m, a, r, k, e).method = m
           /\ Call(m, a, r, k, e).account = a
           /\ Call(m, a, r, k, e).round = r
           /\ Call(m, a, r, k, e).new_owner = k
           /\ Call(m, a, r, k, e).expected = e
           /\ Call(m, a, r, k, e).result = "pending"
BY DEF Call, Promise

\* An answer changes the result of a promise and nothing else.
LEMMA AnsweredFields ==
    ASSUME NEW p \in Promise, NEW res \in {"pending", "ok", "true", "false", "err"}
    PROVE  /\ [p EXCEPT !.result = res] \in Promise
           /\ [p EXCEPT !.result = res].result = res
           /\ [p EXCEPT !.result = res].method = p.method
           /\ [p EXCEPT !.result = res].account = p.account
           /\ [p EXCEPT !.result = res].round = p.round
           /\ [p EXCEPT !.result = res].new_owner = p.new_owner
           /\ [p EXCEPT !.result = res].expected = p.expected
BY DEF Promise

-----------------------------------------------------------------------------
(* The inductive invariant, account by account: the calls in flight, the   *)
(* request behind the phase, and the rounds spent so far.                  *)

CurrentRound(a) == IF HasPolicy(a) THEN accounts[a].round ELSE round_floor[a]

\* No accepted request is of the current round, with or without a policy.
RoundsBehind(a) == requests[a] # None => requests[a].round < CurrentRound(a)

\* A phase other than Idle belongs to the last accepted request, and the
\* timelock cannot be changed under it.
RequestBehindPhase(a) ==
    HasPolicy(a) =>
        /\ accounts[a].timelock >= MinTimelock
        /\ Tag(a) # "Idle" =>
             /\ requests[a] # None
             /\ accounts[a].phase.new_owner = requests[a].new_owner
             /\ accounts[a].phase.round = requests[a].round
             /\ accounts[a].timelock = requests[a].timelock
             /\ IF Tag(a) = "Requested"
                  THEN accounts[a].phase.requested_at = requests[a].at
                  ELSE requests[a].at + requests[a].timelock <= now

AccountInv(a) == OneCallOf(a) /\ RequestBehindPhase(a) /\ RoundsBehind(a)

RecoveryInv == RecoveryTypeOK /\ \A a \in Wallets : AccountInv(a)

\* A step that leaves an account, its requests and its promises alone keeps
\* the account's invariant.
LEMMA AccountFrame ==
    ASSUME NEW a \in Wallets, AccountInv(a), RecoveryTypeOK,
           accounts'[a] = accounts[a], round_floor'[a] = round_floor[a],
           requests'[a] = requests[a], now' \in Nat, now' >= now,
           \A p \in promises : p.account = a => p \in promises',
           \A p \in promises' : p.account = a => p \in promises
    PROVE  AccountInv(a)'
<1>1. OneCallOf(a)'
  BY DEF AccountInv, OneCallOf, Waiting, Awaited, HasPolicy, Tag
<1>2. RequestBehindPhase(a)'
  <2>1. requests[a] # None => requests[a].at \in Nat /\ requests[a].timelock \in Nat
    BY DEF RecoveryTypeOK, Request
  <2> QED BY <2>1 DEF AccountInv, RequestBehindPhase, HasPolicy, Tag, RecoveryTypeOK
<1>3. RoundsBehind(a)'
  BY DEF AccountInv, RoundsBehind, CurrentRound, HasPolicy
<1> QED BY <1>1, <1>2, <1>3 DEF AccountInv

\* A phase without a callback to wait for goes with no promise.
LEMMA NotWaiting ==
    ASSUME NEW a \in Wallets,
           accounts'[a] # None => accounts'[a].phase.tag \notin {"Approving", "Resolving"},
           \A p \in promises' : p.account # a
    PROVE  OneCallOf(a)'
BY DEF OneCallOf, Waiting, HasPolicy, Tag

\* Most methods replace the policy record by one with another phase, either
\* Idle or a later phase of the same request, and add or remove promises of
\* that account only.
LEMMA PhaseChange ==
    ASSUME RecoveryInv, NEW a \in Wallets, HasPolicy(a),
           NEW x \in Account, accounts' = [accounts EXCEPT ![a] = x],
           x.timelock = accounts[a].timelock, x.round = accounts[a].round,
           \/ x.phase.tag = "Idle"
           \/ /\ x.phase.tag \in {"Approving", "Approved", "Resolving"}
              /\ Tag(a) # "Idle"
              /\ x.phase.new_owner = accounts[a].phase.new_owner
              /\ x.phase.round = accounts[a].phase.round
              /\ requests[a].at + requests[a].timelock <= now,
           UNCHANGED <<round_floor, now, requests>>,
           promises' \subseteq Promise, OneCallOf(a)',
           \A p \in promises : p.account # a => p \in promises',
           \A p \in promises' : p.account # a => p \in promises
    PROVE  RecoveryInv'
<1>0. accounts'[a] = x /\ x # None /\ now \in Nat
  BY RecoveryNone DEF RecoveryInv, RecoveryTypeOK
<1>1. RecoveryTypeOK'
  BY DEF RecoveryInv, RecoveryTypeOK
<1>2. RequestBehindPhase(a)'
  BY <1>0 DEF RecoveryInv, AccountInv, RequestBehindPhase, HasPolicy, Tag
<1>3. RoundsBehind(a)'
  BY <1>0 DEF RecoveryInv, AccountInv, RoundsBehind, CurrentRound, HasPolicy
<1>4. ASSUME NEW b \in Wallets, b # a
      PROVE  AccountInv(b)'
  <2>1. accounts'[b] = accounts[b]
    BY <1>4 DEF RecoveryInv, RecoveryTypeOK
  <2> QED BY <1>0, <1>4, <2>1, AccountFrame DEF RecoveryInv
<1> QED BY <1>1, <1>2, <1>3, <1>4 DEF RecoveryInv, AccountInv

LEMMA InstallStep ==
    ASSUME RecoveryInv, NEW c, NEW a \in Wallets, NEW target \in {"Wallet", "Native"},
           NEW k \in KeyOrNone, NEW ak \in AttestationKeys, NEW t \in Timelocks,
           k = None <=> target = "Native",
           install_policy(c, a, target, k, ak, t)
    PROVE  RecoveryInv'
<1> DEFINE x == [target |-> target, bound_owner |-> k, attestation_key |-> ak,
                 timelock |-> t, round |-> CurrentRound(a), phase |-> Idle]
<1>1. CurrentRound(a) \in Nat /\ t \in Nat /\ now \in Nat
  BY PolicyType, RecoveryConstants DEF CurrentRound, RecoveryInv, RecoveryTypeOK
<1>2. x \in Account
  BY <1>1, PhaseTypes DEF Account, AccountOf, KeyOrNone
<1>3. accounts' = [accounts EXCEPT ![a] = x]
  BY DEF install_policy, CurrentRound
<1>4. accounts'[a] = x /\ x # None
  BY <1>2, <1>3, RecoveryNone DEF RecoveryInv, RecoveryTypeOK
<1>5. x.phase.tag = "Idle" /\ x.round = CurrentRound(a) /\ x.timelock >= MinTimelock
  BY PhaseFields DEF install_policy
<1> HIDE DEF x
<1>6. RecoveryTypeOK'
  BY <1>2, <1>3 DEF RecoveryInv, RecoveryTypeOK, install_policy
<1>7. OneCallOf(a)'
  <2>1. ~Waiting(a)
    BY DEF install_policy, Waiting
  <2>2. \A p \in promises' : p.account # a
    BY <2>1 DEF install_policy, RecoveryInv, AccountInv, OneCallOf
  <2> QED BY <1>4, <1>5, <2>2, NotWaiting
<1>8. RequestBehindPhase(a)' /\ RoundsBehind(a)'
  BY <1>4, <1>5 DEF RecoveryInv, AccountInv, RequestBehindPhase, RoundsBehind,
                    CurrentRound, HasPolicy, Tag, install_policy
<1>9. ASSUME NEW b \in Wallets, b # a
      PROVE  AccountInv(b)'
  <2>1. accounts'[b] = accounts[b]
    BY <1>3, <1>9 DEF RecoveryInv, RecoveryTypeOK
  <2> QED BY <1>1, <2>1, AccountFrame DEF RecoveryInv, install_policy
<1> QED BY <1>6, <1>7, <1>8, <1>9 DEF RecoveryInv, AccountInv

LEMMA RequestStep ==
    ASSUME RecoveryInv, NEW a \in Wallets, NEW k \in Keys, NEW r, NEW ak,
           request_recovery(a, k, r, ak)
    PROVE  RecoveryInv'
<1> DEFINE x == NextRound(WithPhase(accounts[a], Requested(k, r, now)))
           req == [new_owner |-> k, round |-> r, at |-> now,
                   timelock |-> accounts[a].timelock]
<1>1. /\ accounts[a] \in Account /\ r \in Nat /\ now \in Nat
      /\ accounts[a].timelock \in Nat /\ r = accounts[a].round
  BY PolicyType DEF request_recovery, RecoveryInv, RecoveryTypeOK
<1>2. Requested(k, r, now) \in Phase
  BY <1>1, PhaseTypes
<1>3. WithPhase(accounts[a], Requested(k, r, now)) \in Account
  BY <1>1, <1>2, AccountFields
<1>4. /\ x \in Account /\ x.phase = Requested(k, r, now)
      /\ x.timelock = accounts[a].timelock /\ x.round = r + 1
  BY <1>1, <1>2, <1>3, AccountFields
<1>5. req \in Request
  BY <1>1 DEF Request
<1>6. accounts' = [accounts EXCEPT ![a] = x] /\ requests' = [requests EXCEPT ![a] = req]
  BY DEF request_recovery
<1> HIDE DEF x
<1>7. accounts'[a] = x /\ x # None /\ requests'[a] = req /\ req # None
  BY <1>4, <1>5, <1>6, RecoveryNone DEF RecoveryInv, RecoveryTypeOK
<1>8. RecoveryTypeOK'
  BY <1>4, <1>5, <1>6 DEF RecoveryInv, RecoveryTypeOK, request_recovery
<1>9. OneCallOf(a)'
  <2>1. ~Waiting(a)
    BY DEF request_recovery, Waiting
  <2>2. \A p \in promises' : p.account # a
    BY <2>1 DEF request_recovery, RecoveryInv, AccountInv, OneCallOf
  <2> QED BY <1>4, <1>7, <2>2, NotWaiting, PhaseFields
<1>10. RequestBehindPhase(a)'
  <2>1. accounts[a].timelock >= MinTimelock
    BY DEF request_recovery, RecoveryInv, AccountInv, RequestBehindPhase
  <2> QED BY <1>1, <1>4, <1>7, <2>1, PhaseFields
          DEF RequestBehindPhase, HasPolicy, Tag
<1>11. RoundsBehind(a)'
  BY <1>1, <1>4, <1>7 DEF RoundsBehind, CurrentRound, HasPolicy
<1>12. ASSUME NEW b \in Wallets, b # a
      PROVE  AccountInv(b)'
  <2>1. accounts'[b] = accounts[b] /\ requests'[b] = requests[b]
    BY <1>6, <1>12 DEF RecoveryInv, RecoveryTypeOK
  <2> QED BY <1>1, <2>1, AccountFrame DEF RecoveryInv, request_recovery
<1> QED BY <1>8, <1>9, <1>10, <1>11, <1>12 DEF RecoveryInv, AccountInv

\* A new call of an account that had none in flight.
LEMMA NewCall ==
    ASSUME NEW a \in Wallets, NEW c, promises' = promises \cup {c},
           \A p \in promises : p.account # a,
           Waiting(a)', Awaited(a, c)'
    PROVE  OneCallOf(a)'
BY DEF OneCallOf, Awaited

\* An account whose phase waits for nothing has no promise.
LEMMA Quiet ==
    ASSUME RecoveryInv, NEW a \in Wallets, ~Waiting(a)
    PROVE  \A p \in promises : p.account # a
BY DEF RecoveryInv, AccountInv, OneCallOf

\* What SetPhase does to the record of a policy.
LEMMA PhaseSet ==
    ASSUME RecoveryInv, NEW a \in Wallets, HasPolicy(a),
           NEW ph \in Phase, SetPhase(a, ph)
    PROVE  \E x \in Account :
             /\ accounts' = [accounts EXCEPT ![a] = x]
             /\ accounts'[a] = x
             /\ x # None
             /\ x.phase = ph
             /\ x.timelock = accounts[a].timelock
             /\ x.round = accounts[a].round
             /\ x.target = accounts[a].target
             /\ x.bound_owner = accounts[a].bound_owner
<1>1. accounts[a] \in Account
  BY PolicyType DEF RecoveryInv
<1>2. PICK x \in Account : x = WithPhase(accounts[a], ph)
  BY <1>1, AccountFields
<1>3. /\ x.phase = ph
      /\ x.timelock = accounts[a].timelock
      /\ x.round = accounts[a].round
      /\ x.target = accounts[a].target
      /\ x.bound_owner = accounts[a].bound_owner
  BY <1>1, <1>2, AccountFields
<1>4. accounts' = [accounts EXCEPT ![a] = x]
  BY <1>2 DEF SetPhase
<1>5. accounts'[a] = x /\ x # None
  BY <1>4, RecoveryNone DEF RecoveryInv, RecoveryTypeOK
<1> QED BY <1>3, <1>4, <1>5

\* A step to another phase of the same request, or back to Idle, that makes
\* no call: the account had none in flight, or its only promise is consumed.
LEMMA SettlePhase ==
    ASSUME RecoveryInv, NEW a \in Wallets, HasPolicy(a),
           NEW ph \in Phase, SetPhase(a, ph),
           \/ ph.tag = "Idle"
           \/ /\ ph.tag = "Approved"
              /\ Tag(a) # "Idle"
              /\ ph.new_owner = accounts[a].phase.new_owner
              /\ ph.round = accounts[a].phase.round
              /\ requests[a].at + requests[a].timelock <= now,
           UNCHANGED <<round_floor, now, requests>>,
           promises' \subseteq promises,
           \A p \in promises' : p.account # a,
           \A p \in promises : p.account # a => p \in promises'
    PROVE  RecoveryInv'
<1>1. PICK x \in Account :
             /\ accounts' = [accounts EXCEPT ![a] = x]
             /\ accounts'[a] = x
             /\ x.phase = ph
             /\ x.timelock = accounts[a].timelock
             /\ x.round = accounts[a].round
  BY PhaseSet
<1>2. OneCallOf(a)'
  BY <1>1, NotWaiting
<1>3. promises' \subseteq Promise
  BY DEF RecoveryInv, RecoveryTypeOK
<1> QED BY <1>1, <1>2, <1>3, PhaseChange

\* A step to a phase that waits for the call it makes.
LEMMA CallPhase ==
    ASSUME RecoveryInv, NEW a \in Wallets, HasPolicy(a), ~Waiting(a),
           NEW ph \in Phase, SetPhase(a, ph),
           ph.tag \in {"Approving", "Resolving"},
           Tag(a) # "Idle",
           ph.new_owner = accounts[a].phase.new_owner,
           ph.round = accounts[a].phase.round,
           requests[a].at + requests[a].timelock <= now,
           UNCHANGED <<round_floor, now, requests>>,
           NEW c \in Promise, promises' = promises \cup {c},
           c.account = a, c.round = ph.round,
           \/ /\ ph.tag = "Approving" /\ accounts[a].target = "Wallet"
              /\ c.method = "freeze" /\ c.expected = accounts[a].bound_owner
           \/ /\ ph.tag = "Resolving" /\ accounts[a].target = "Wallet"
              /\ c.method = "swap_owner" /\ c.expected = accounts[a].bound_owner
              /\ c.new_owner = ph.new_owner
           \/ /\ ph.tag = "Resolving" /\ accounts[a].target = "Wallet"
              /\ c.method = "unfreeze"
           \/ /\ ph.tag = "Resolving" /\ accounts[a].target = "Native"
              /\ c.method = "sign"
    PROVE  RecoveryInv'
<1>1. PICK x \in Account :
             /\ accounts' = [accounts EXCEPT ![a] = x]
             /\ accounts'[a] = x
             /\ x # None
             /\ x.phase = ph
             /\ x.timelock = accounts[a].timelock
             /\ x.round = accounts[a].round
             /\ x.target = accounts[a].target
             /\ x.bound_owner = accounts[a].bound_owner
  BY PhaseSet
<1>2. Waiting(a)' /\ Awaited(a, c)'
  BY <1>1 DEF Waiting, Awaited, HasPolicy, Tag
<1>3. OneCallOf(a)'
  BY <1>2, NewCall, Quiet
<1>4. promises' \subseteq Promise
  BY DEF RecoveryInv, RecoveryTypeOK
<1> QED BY <1>1, <1>3, <1>4, PhaseChange

LEMMA VerdictStep ==
    ASSUME RecoveryInv, NEW a \in Wallets, NEW silent \in BOOLEAN, NEW signed,
           submit_verdict(a, silent, signed)
    PROVE  RecoveryInv'
<1>1. HasPolicy(a) /\ Tag(a) = "Requested" /\ UNCHANGED <<round_floor, now, requests>>
  BY DEF submit_verdict
<1>2. PICK k \in KeyOrNone, r \in Nat :
           k = accounts[a].phase.new_owner /\ r = accounts[a].phase.round
  BY <1>1, PolicyType DEF RecoveryInv
<1>3. requests[a].at + requests[a].timelock <= now
  BY <1>1 DEF submit_verdict, RecoveryInv, AccountInv, RequestBehindPhase
<1>4. ~Waiting(a)
  BY <1>1 DEF Waiting
<1>5. accounts[a].bound_owner \in KeyOrNone /\ None \in KeyOrNone
  BY <1>1, PolicyType DEF RecoveryInv, KeyOrNone
<1>6. CASE ~silent
  <2>1. SetPhase(a, Idle) /\ promises' = promises
    BY <1>6 DEF submit_verdict
  <2> QED BY <1>1, <1>4, <2>1, Quiet, SettlePhase, PhaseFields, PhaseTypes
<1>7. CASE silent /\ accounts[a].target = "Wallet"
  <2>1. PICK ph \in Phase : /\ ph = InPhase("Approving", k, r)
                            /\ ph.tag = "Approving" /\ ph.new_owner = k /\ ph.round = r
    BY PhaseTypes, PhaseFields DEF PhaseTag
  <2>2. PICK c \in Promise : /\ c = Call("freeze", a, r, None, accounts[a].bound_owner)
                             /\ c.account = a /\ c.round = r /\ c.method = "freeze"
                             /\ c.expected = accounts[a].bound_owner
    BY <1>5, CallType
  <2>3. SetPhase(a, ph) /\ promises' = promises \cup {c}
    BY <1>2, <1>7, <2>1, <2>2 DEF submit_verdict
  <2> QED BY <1>1, <1>2, <1>3, <1>4, <1>7, <2>1, <2>2, <2>3, CallPhase
<1>8. CASE silent /\ accounts[a].target = "Native"
  <2>1. PICK ph \in Phase : /\ ph = InPhase("Approved", k, r)
                            /\ ph.tag = "Approved" /\ ph.new_owner = k /\ ph.round = r
    BY PhaseTypes, PhaseFields DEF PhaseTag
  <2>2. SetPhase(a, ph) /\ promises' = promises
    BY <1>2, <1>8, <2>1 DEF submit_verdict
  <2> QED BY <1>1, <1>2, <1>3, <1>4, <2>1, <2>2, Quiet, SettlePhase
<1> QED BY <1>1, <1>6, <1>7, <1>8, PolicyType DEF RecoveryInv

LEMMA FinalizeStep ==
    ASSUME RecoveryInv, NEW caller, NEW a \in Wallets, finalize_recovery(caller, a)
    PROVE  RecoveryInv'
<1>1. HasPolicy(a) /\ Tag(a) = "Approved" /\ UNCHANGED <<round_floor, now, requests>>
  BY DEF finalize_recovery
<1>2. PICK k \in KeyOrNone, r \in Nat :
           k = accounts[a].phase.new_owner /\ r = accounts[a].phase.round
  BY <1>1, PolicyType DEF RecoveryInv
<1>3. requests[a].at + requests[a].timelock <= now /\ ~Waiting(a)
  BY <1>1 DEF RecoveryInv, AccountInv, RequestBehindPhase, Waiting
<1>4. accounts[a].bound_owner \in KeyOrNone /\ None \in KeyOrNone
  BY <1>1, PolicyType DEF RecoveryInv, KeyOrNone
<1>5. PICK ph \in Phase : /\ ph = InPhase("Resolving", k, r)
                          /\ ph.tag = "Resolving" /\ ph.new_owner = k /\ ph.round = r
  BY PhaseTypes, PhaseFields DEF PhaseTag
<1>6. CASE accounts[a].target = "Native"
  <2>1. PICK c \in Promise : /\ c = Call("sign", a, r, k, None)
                             /\ c.account = a /\ c.round = r /\ c.method = "sign"
    BY <1>4, CallType
  <2>2. SetPhase(a, ph) /\ promises' = promises \cup {c}
    BY <1>2, <1>5, <1>6, <2>1 DEF finalize_recovery
  <2> QED BY <1>1, <1>2, <1>3, <1>5, <1>6, <2>1, <2>2, CallPhase
<1>7. CASE accounts[a].target = "Wallet"
  <2>1. PICK c \in Promise :
             /\ c = Call("swap_owner", a, r, k, accounts[a].bound_owner)
             /\ c.account = a /\ c.round = r /\ c.method = "swap_owner"
             /\ c.new_owner = k /\ c.expected = accounts[a].bound_owner
    BY <1>4, CallType
  <2>2. SetPhase(a, ph) /\ promises' = promises \cup {c}
    BY <1>2, <1>5, <1>7, <2>1 DEF finalize_recovery
  <2> QED BY <1>1, <1>2, <1>3, <1>5, <1>7, <2>1, <2>2, CallPhase
<1> QED BY <1>1, <1>6, <1>7, PolicyType DEF RecoveryInv

LEMMA AbortStep ==
    ASSUME RecoveryInv, NEW caller, NEW a \in Wallets, abort_recovery(caller, a)
    PROVE  RecoveryInv'
<1>1. /\ HasPolicy(a) /\ UNCHANGED <<round_floor, now, requests>>
      /\ Tag(a) \in {"Requested", "Approved"}
  BY DEF abort_recovery
<1>2. ~Waiting(a)
  BY <1>1 DEF Waiting
<1>3. CASE SetPhase(a, Idle) /\ UNCHANGED promises
  BY <1>1, <1>2, <1>3, Quiet, SettlePhase, PhaseFields, PhaseTypes
<1>4. CASE ~(SetPhase(a, Idle) /\ UNCHANGED promises)
  <2>1. PICK k \in KeyOrNone, r \in Nat :
             k = accounts[a].phase.new_owner /\ r = accounts[a].phase.round
    BY <1>1, PolicyType DEF RecoveryInv
  <2>2. /\ Tag(a) = "Approved" /\ accounts[a].target = "Wallet"
        /\ SetPhase(a, InPhase("Resolving", k, r))
        /\ promises' = promises \cup {Call("unfreeze", a, r, None, None)}
    BY <1>4, <2>1 DEF abort_recovery
  <2>3. requests[a].at + requests[a].timelock <= now
    BY <1>1, <2>2 DEF RecoveryInv, AccountInv, RequestBehindPhase
  <2>4. PICK ph \in Phase : /\ ph = InPhase("Resolving", k, r)
                            /\ ph.tag = "Resolving" /\ ph.new_owner = k /\ ph.round = r
    BY PhaseTypes, PhaseFields DEF PhaseTag
  <2>5. PICK c \in Promise : /\ c = Call("unfreeze", a, r, None, None)
                             /\ c.account = a /\ c.round = r /\ c.method = "unfreeze"
    BY CallType DEF KeyOrNone
  <2> QED BY <1>1, <1>2, <2>1, <2>2, <2>3, <2>4, <2>5, CallPhase
<1> QED BY <1>3, <1>4

LEMMA ClaimStep ==
    ASSUME RecoveryInv, NEW caller, NEW a \in Wallets, NEW r,
           claim_native_finalized(caller, a, r)
    PROVE  RecoveryInv'
<1>1. HasPolicy(a) /\ ~Waiting(a) /\ SetPhase(a, Idle)
  BY DEF claim_native_finalized, Waiting
<1> QED BY <1>1, Quiet, SettlePhase, PhaseFields, PhaseTypes DEF claim_native_finalized

LEMMA TransferredStep ==
    ASSUME RecoveryInv, NEW a \in Wallets, on_wallet_transferred(a)
    PROVE  RecoveryInv'
<1>0. now \in Nat
  BY DEF RecoveryInv, RecoveryTypeOK
<1>1. CASE HasPolicy(a) /\ Tag(a) \in {"Idle", "Requested"}
  <2>1. /\ round_floor' = [round_floor EXCEPT ![a] = accounts[a].round]
        /\ accounts' = [accounts EXCEPT ![a] = None]
        /\ UNCHANGED <<promises, now, requests>>
    BY <1>1 DEF on_wallet_transferred
  <2>2. accounts[a].round \in Nat
    BY <1>1, PolicyType DEF RecoveryInv
  <2>3. RecoveryTypeOK'
    BY <2>1, <2>2 DEF RecoveryInv, RecoveryTypeOK
  <2>4. accounts'[a] = None /\ round_floor'[a] = accounts[a].round
    BY <2>1 DEF RecoveryInv, RecoveryTypeOK
  <2>5. OneCallOf(a)'
    BY <1>1, <2>1, <2>4, Quiet, NotWaiting DEF Waiting
  <2>6. RequestBehindPhase(a)' /\ RoundsBehind(a)'
    BY <1>1, <2>1, <2>4 DEF RecoveryInv, AccountInv, RequestBehindPhase, RoundsBehind,
                            CurrentRound, HasPolicy
  <2>7. ASSUME NEW b \in Wallets, b # a
        PROVE  AccountInv(b)'
    <3>1. accounts'[b] = accounts[b] /\ round_floor'[b] = round_floor[b]
      BY <2>1, <2>7 DEF RecoveryInv, RecoveryTypeOK
    <3> QED BY <1>0, <2>1, <3>1, AccountFrame DEF RecoveryInv
  <2> QED BY <2>3, <2>5, <2>6, <2>7 DEF RecoveryInv, AccountInv
<1>2. CASE ~(HasPolicy(a) /\ Tag(a) \in {"Idle", "Requested"})
  <2>1. UNCHANGED <<accounts, round_floor, promises, now, requests>>
    BY <1>2 DEF on_wallet_transferred
  <2>2. RecoveryTypeOK'
    BY <2>1 DEF RecoveryInv, RecoveryTypeOK
  <2> QED BY <1>0, <2>1, <2>2, AccountFrame DEF RecoveryInv
<1> QED BY <1>1, <1>2

LEMMA TickStep ==
    ASSUME RecoveryInv, Tick
    PROVE  RecoveryInv'
<1>1. /\ now \in Nat /\ now' \in Nat /\ now' >= now
      /\ UNCHANGED <<accounts, round_floor, promises, requests>>
  BY DEF Tick, RecoveryInv, RecoveryTypeOK
<1>2. RecoveryTypeOK'
  BY <1>1 DEF RecoveryInv, RecoveryTypeOK
<1> QED BY <1>1, <1>2, AccountFrame DEF RecoveryInv

\* The answer to a call changes nothing but its promise.
LEMMA AnswerStep ==
    ASSUME RecoveryInv, NEW p \in promises,
           NEW res \in {"ok", "true", "false", "err"}, Answered(p, res),
           UNCHANGED <<accounts, round_floor, now, requests>>
    PROVE  RecoveryInv'
<1>1. p \in Promise /\ now \in Nat
  BY DEF RecoveryInv, RecoveryTypeOK
<1>2. PICK q \in Promise :
        /\ promises' = (promises \ {p}) \cup {q}
        /\ q.account = p.account /\ q.method = p.method /\ q.round = p.round
        /\ q.new_owner = p.new_owner /\ q.expected = p.expected
  <2> DEFINE r == [p EXCEPT !.result = res]
  <2>1. res \in {"pending", "ok", "true", "false", "err"}
    OBVIOUS
  <2>2. /\ r \in Promise
        /\ r.result = res
        /\ r.method = p.method
        /\ r.account = p.account
        /\ r.round = p.round
        /\ r.new_owner = p.new_owner
        /\ r.expected = p.expected
    BY <1>1, <2>1, AnsweredFields, Zenon
  <2>3. promises' = (promises \ {p}) \cup {r}
    BY DEF Answered
  <2> HIDE DEF r
  <2> QED BY <2>2, <2>3, Zenon
<1>3. RecoveryTypeOK'
  BY <1>2 DEF RecoveryInv, RecoveryTypeOK
<1>4. ASSUME NEW a \in Wallets, a # p.account
      PROVE  AccountInv(a)'
  BY <1>1, <1>2, <1>4, AccountFrame DEF RecoveryInv
<1>5. ASSUME NEW a \in Wallets, a = p.account
      PROVE  AccountInv(a)'
  <2>1. OneCallOf(a) /\ Waiting(a) /\ Awaited(a, p)
        /\ \A s \in promises : s.account = a => s = p
    BY <1>5 DEF RecoveryInv, AccountInv, OneCallOf
  <2>2. Awaited(a, q)' /\ Waiting(a)'
    BY <1>2, <2>1 DEF Awaited, Waiting, HasPolicy, Tag
  <2>3. \A s \in promises' : s.account = a => s = q
    BY <1>2, <2>1
  <2>4. OneCallOf(a)'
    BY <1>2, <2>2, <2>3 DEF OneCallOf
  <2>5. RequestBehindPhase(a)' /\ RoundsBehind(a)'
    BY DEF RecoveryInv, AccountInv, RequestBehindPhase, RoundsBehind, CurrentRound,
           HasPolicy, Tag
  <2> QED BY <2>4, <2>5 DEF AccountInv
<1> QED BY <1>3, <1>4, <1>5 DEF RecoveryInv

\* The promise a callback consumes is the one its account waits for.
LEMMA CallbackFinds ==
    ASSUME RecoveryInv, NEW p \in promises
    PROVE  /\ p.account \in Wallets
           /\ HasPolicy(p.account)
           /\ Awaited(p.account, p)
           /\ Tag(p.account) \in {"Approving", "Resolving"}
           /\ accounts[p.account].phase.round = p.round
           /\ p.round \in Nat
           /\ accounts[p.account].phase.new_owner \in Keys
           /\ requests[p.account].at + requests[p.account].timelock <= now
           /\ \A q \in promises \ {p} : q.account # p.account
<1>1. p \in Promise
  BY DEF RecoveryInv, RecoveryTypeOK
<1>2. p.account \in Wallets /\ p.round \in Nat
  BY <1>1 DEF Promise
<1>3. /\ Waiting(p.account) /\ Awaited(p.account, p)
      /\ \A q \in promises : q.account = p.account => q = p
  BY <1>2 DEF RecoveryInv, AccountInv, OneCallOf
<1>4. HasPolicy(p.account) /\ Tag(p.account) \in {"Approving", "Resolving"}
  BY <1>3 DEF Waiting
<1>5. requests[p.account].at + requests[p.account].timelock <= now
  BY <1>2, <1>4 DEF RecoveryInv, AccountInv, RequestBehindPhase
<1>6. accounts[p.account].phase.new_owner \in Keys
  BY <1>2, <1>4 DEF RecoveryInv, AccountInv, RequestBehindPhase, RecoveryTypeOK, Request
<1> QED BY <1>2, <1>3, <1>4, <1>5, <1>6 DEF Awaited

LEMMA CallbackStep ==
    ASSUME RecoveryInv, NEW p \in promises, Callback(p)
    PROVE  RecoveryInv'
<1> DEFINE a == p.account
<1>1. PICK k \in Keys : k = accounts[a].phase.new_owner
  BY CallbackFinds
<1>2. PICK done \in Phase : /\ done = InPhase("Approved", k, p.round)
                            /\ done.tag = "Approved" /\ done.new_owner = k
                            /\ done.round = p.round
  BY CallbackFinds, PhaseTypes, PhaseFields DEF PhaseTag, KeyOrNone
<1>3. /\ promises' = promises \ {p} /\ UNCHANGED <<round_floor, now, requests>>
      /\ \A q \in promises' : q.account # a
  BY CallbackFinds DEF Callback, on_frozen, on_finalized, on_aborted, on_signed, Consume
<1>4. CASE SetPhase(a, Idle)
  BY <1>3, <1>4, CallbackFinds, SettlePhase, PhaseTypes, PhaseFields
<1>5. CASE SetPhase(a, done)
  BY <1>1, <1>2, <1>3, <1>5, CallbackFinds, SettlePhase
<1>6. CASE /\ accounts[a].target = "Wallet"
           /\ accounts' = [accounts EXCEPT ![a] = BoundTo(WithPhase(accounts[a], Idle), k)]
  <2>1. a \in Wallets /\ HasPolicy(a) /\ accounts[a] \in Account
    BY CallbackFinds, PolicyType DEF RecoveryInv
  <2>0. PICK y \in Account :
          /\ y = WithPhase(accounts[a], Idle)
          /\ y.target = accounts[a].target /\ y.phase = Idle
          /\ y.timelock = accounts[a].timelock /\ y.round = accounts[a].round
    BY <2>1, AccountFields, PhaseTypes
  <2>2. PICK x \in Account :
          /\ x = BoundTo(WithPhase(accounts[a], Idle), k)
          /\ x.phase = Idle /\ x.timelock = accounts[a].timelock
          /\ x.round = accounts[a].round
    <3>1. y.target = "Wallet"
      BY <1>6, <2>0
    <3> QED BY <2>0, <3>1, AccountFields
  <2>3. accounts' = [accounts EXCEPT ![a] = x] /\ accounts'[a] = x
    BY <1>6, <2>1, <2>2 DEF RecoveryInv, RecoveryTypeOK
  <2>6. \A q \in promises : q.account # a => q \in promises'
    BY <1>3
  <2> HIDE DEF a
  <2>4. OneCallOf(a)'
    BY <1>3, <2>1, <2>2, <2>3, NotWaiting, PhaseFields
  <2>5. promises' \subseteq Promise
    BY <1>3 DEF RecoveryInv, RecoveryTypeOK
  <2> QED BY <1>3, <2>1, <2>2, <2>3, <2>4, <2>5, <2>6, PhaseChange, PhaseFields
<1>7. CASE on_frozen(p)
  BY <1>1, <1>2, <1>4, <1>5, <1>7, CallbackFinds DEF on_frozen, Awaits, Awaited
<1>8. CASE on_finalized(p)
  BY <1>1, <1>2, <1>4, <1>5, <1>6, <1>8, CallbackFinds
     DEF on_finalized, Awaits, Awaited, SetPhase
<1>9. CASE on_aborted(p)
  BY <1>1, <1>2, <1>4, <1>5, <1>9, CallbackFinds
     DEF on_aborted, settle_resolving, Awaits, Awaited
<1>10. CASE on_signed(p)
  BY <1>1, <1>2, <1>4, <1>5, <1>10, CallbackFinds
     DEF on_signed, settle_resolving, Awaits, Awaited
<1> QED BY <1>7, <1>8, <1>9, <1>10 DEF Callback

-----------------------------------------------------------------------------
(* The steps together, and the theorems.                                   *)

\* The methods anybody calls, block time, and the callbacks.
LEMMA RecoveryMethodStep ==
    ASSUME RecoveryInv, RecoveryCall \/ RecoveryMessage \/ Tick
    PROVE  RecoveryInv'
<1>1. CASE RecoveryCall
  <2> PICK a \in Wallets, caller \in {"owner", "stranger"} :
        \/ \E target \in {"Wallet", "Native"}, ak \in AttestationKeys,
              t \in Timelocks, k \in KeyOrNone :
              /\ k = None <=> target = "Native"
              /\ install_policy(caller, a, target, k, ak, t)
        \/ finalize_recovery(caller, a)
        \/ abort_recovery(caller, a)
        \/ \E r \in 0..MaxRound : claim_native_finalized(caller, a, r)
    BY <1>1 DEF RecoveryCall
  <2> QED BY InstallStep, FinalizeStep, AbortStep, ClaimStep
<1>2. CASE RecoveryMessage
  BY <1>2, RequestStep, VerdictStep DEF RecoveryMessage
<1>3. CASE Tick
  BY <1>3, TickStep
<1> QED BY <1>1, <1>2, <1>3

LEMMA RecoveryInvStep ==
    ASSUME RecoveryInv, [RecoveryNext]_recoveryVars
    PROVE  RecoveryInv'
<1>1. ASSUME NEW p \in promises, Answer(p)
      PROVE  RecoveryInv'
  BY <1>1, AnswerStep DEF Answer, Answers
<1>2. CASE UNCHANGED recoveryVars
  <2>1. RecoveryTypeOK'
    BY <1>2 DEF RecoveryInv, RecoveryTypeOK, recoveryVars
  <2>2. now \in Nat
    BY DEF RecoveryInv, RecoveryTypeOK
  <2> QED BY <1>2, <2>1, <2>2, AccountFrame DEF RecoveryInv, recoveryVars
<1> QED BY <1>1, <1>2, RecoveryMethodStep, TransferredStep, CallbackStep DEF RecoveryNext

LEMMA RecoveryInvInit == RecoveryInit => RecoveryInv
BY RecoveryNone DEF RecoveryInit, RecoveryInv, RecoveryTypeOK, AccountInv, OneCallOf,
   Waiting, HasPolicy, RequestBehindPhase, RoundsBehind

\* The inductive invariant contains the invariants of the contract.
LEMMA RecoveryInvImplies ==
    RecoveryInv => RecoveryTypeOK /\ OneCallInFlight /\ ApprovedAsRequested
<1>1. RecoveryInv => OneCallInFlight
  BY DEF RecoveryInv, AccountInv, OneCallInFlight
<1>2. RecoveryInv => ApprovedAsRequested
  BY DEF RecoveryInv, AccountInv, RequestBehindPhase, ApprovedAsRequested
<1> QED BY <1>1, <1>2 DEF RecoveryInv

THEOREM RecoveryInvariant == RecoverySpec => []RecoveryInv
<1>1. RecoveryInv /\ [RecoveryNext]_recoveryVars => RecoveryInv'
  BY RecoveryInvStep
<1> QED BY <1>1, RecoveryInvInit, PTL DEF RecoverySpec

\* Type correctness of the recovery contract.
THEOREM RecoveryTypeCorrect == RecoverySpec => []RecoveryTypeOK
BY RecoveryInvariant, RecoveryInvImplies, PTL

\* A waiting recovery has exactly one call in flight, any other none, whatever
\* the active signer and the MPC network answer.
THEOREM ExactlyOneCall == RecoverySpec => []OneCallInFlight
BY RecoveryInvariant, RecoveryInvImplies, PTL

\* What is approved is the last accepted request, after its timelock.
THEOREM ApprovalHonoursRequest == RecoverySpec => []ApprovedAsRequested
BY RecoveryInvariant, RecoveryInvImplies, PTL

\* No round is requested twice, across resets and reinstallations.
LEMMA RoundStepHolds ==
    ASSUME RecoveryInv, [RecoveryNext]_recoveryVars
    PROVE  RoundStep
<1>1. ASSUME NEW b \in Wallets, NEW k \in Keys, NEW r, NEW ak, request_recovery(b, k, r, ak)
      PROVE  RoundStep
  <2> SUFFICES ASSUME NEW a \in Wallets, requests'[a] # requests[a], requests[a] # None
               PROVE  requests'[a].round > requests[a].round
    BY DEF RoundStep
  <2>1. a = b /\ requests'[a].round = accounts[a].round /\ HasPolicy(a)
    BY <1>1 DEF request_recovery, RecoveryInv, RecoveryTypeOK
  <2>2. requests[a].round < accounts[a].round
    BY <2>1 DEF RecoveryInv, AccountInv, RoundsBehind, CurrentRound
  <2>3. requests[a].round \in Nat /\ accounts[a].round \in Nat
    BY <2>1, PolicyType DEF RecoveryInv, RecoveryTypeOK, Request
  <2> QED BY <2>1, <2>2, <2>3
<1>2. ASSUME UNCHANGED requests
      PROVE  RoundStep
  BY <1>2 DEF RoundStep
<1>3. CASE RecoveryMessage
  BY <1>1, <1>2, <1>3 DEF RecoveryMessage, submit_verdict
<1>4. CASE RecoveryCall \/ Tick
  BY <1>2, <1>4 DEF RecoveryCall, Tick, install_policy, finalize_recovery,
                    abort_recovery, claim_native_finalized
<1>5. CASE \E a \in Wallets : on_wallet_transferred(a)
  BY <1>2, <1>5 DEF on_wallet_transferred
<1>6. CASE \E p \in promises : Answer(p) \/ Callback(p)
  BY <1>2, <1>6 DEF Answer, Callback, on_frozen, on_finalized, on_aborted, on_signed, Consume
<1>7. CASE UNCHANGED recoveryVars
  BY <1>2, <1>7 DEF recoveryVars
<1> QED BY <1>3, <1>4, <1>5, <1>6, <1>7 DEF RecoveryNext

THEOREM RoundsNeverReused == RecoverySpec => RoundSpentOnce
<1>1. RecoveryInv /\ [RecoveryNext]_recoveryVars => RoundStep
  BY RoundStepHolds
<1> QED BY <1>1, RecoveryInvariant, PTL DEF RecoverySpec, RoundSpentOnce

=============================================================================
