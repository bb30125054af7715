-------------------------- MODULE TokenSweepProofs --------------------------
(* Proofs about the sweep of a token by the extension and the active       *)
(* signer, for any number of sweeps and any storage deposit.               *)
EXTENDS TokenSweep, SumProofs

-----------------------------------------------------------------------------
(* The chain of a sweep.                                                   *)

Stages == {"unused", "balance", "balance_cb", "storage", "storage_cb", "sign", "mpc", "settle"}
            \cup SweepOver

\* The answers a sweep may carry at a stage.
AnswersAt(stage) ==
    CASE stage = "balance_cb" -> {"zero", "some", "err"}
      [] stage = "storage_cb" -> {"ok", "err"}
      [] stage = "settle" -> {"signed", "none", "err"}
      [] OTHER -> {"none"}

LEMMA SweepFields ==
    ASSUME NEW x \in SweepChain
    PROVE  /\ x = [stage |-> x.stage, wallet |-> x.wallet, result |-> x.result]
           /\ x.stage \in Stages
           /\ x.result \in AnswersAt(x.stage)
           /\ x.stage \in Stages \ ({"unused"} \cup SweepOver) => x.wallet \in Wallets
BY DEF SweepChain, SweepAt, Stages, SweepOver, AnswersAt

LEMMA SweepMade ==
    /\ \A stage \in {"unused"} \cup SweepOver : NoSweep(stage) \in SweepChain
    /\ \A stage \in Stages \ ({"unused"} \cup SweepOver), w \in Wallets :
          \A result \in AnswersAt(stage) :
              [stage |-> stage, wallet |-> w, result |-> result] \in SweepChain
BY DEF SweepChain, SweepAt, NoSweep, Stages, SweepOver, AnswersAt

\* Sweep s turns into x, and the others are left alone.
Turns(s, x) == sweeps' = [sweeps EXCEPT ![s] = x]

LEMMA ReplyTurns ==
    ASSUME FtSweepTypeOK, NEW s \in Sweeps,
           sweeps[s].stage \in Stages \ ({"unused"} \cup SweepOver),
           NEW stage \in Stages \ ({"unused"} \cup SweepOver), NEW result \in AnswersAt(stage),
           Reply(s, stage, result)
    PROVE  \E x \in SweepChain : Turns(s, x) /\ x.stage = stage /\ x.result = result
<1>1. sweeps[s] \in SweepChain /\ sweeps \in [Sweeps -> SweepChain]
  BY DEF FtSweepTypeOK
<1>2. PICK w, st, r : /\ w \in Wallets
                      /\ sweeps[s] = [stage |-> st, wallet |-> w, result |-> r]
  BY <1>1, SweepFields
<1>3. PICK x : x = [stage |-> stage, wallet |-> w, result |-> result]
  OBVIOUS
<1>4. x \in SweepChain /\ x.stage = stage /\ x.result = result
  BY <1>2, <1>3, SweepMade
<1>5. PICK y : y = [stage |-> stage, wallet |-> w, result |-> r]
  OBVIOUS
<1>6. PICK f : f = [sweeps EXCEPT ![s] = y]
  OBVIOUS
<1>7. [sweeps[s] EXCEPT !.stage = stage] = y /\ [y EXCEPT !.result = result] = x
  BY <1>2, <1>3, <1>5
<1>8. f[s] = y /\ f = [sweeps EXCEPT ![s].stage = stage]
  BY <1>1, <1>6, <1>7
<1>9. [f EXCEPT ![s].result = result] = [f EXCEPT ![s] = x]
  BY <1>7, <1>8
<1>10. [f EXCEPT ![s] = x] = [sweeps EXCEPT ![s] = x]
  BY <1>1, <1>6
<1>11. sweeps' = [f EXCEPT ![s].result = result]
  BY <1>8 DEF Reply
<1> QED BY <1>4, <1>9, <1>10, <1>11 DEF Turns

LEMMA GoesTurns ==
    ASSUME FtSweepTypeOK, NEW s \in Sweeps,
           sweeps[s].stage \in Stages \ ({"unused"} \cup SweepOver),
           NEW stage \in {"storage", "sign", "mpc"}, Goes(s, stage)
    PROVE  \E x \in SweepChain : Turns(s, x) /\ x.stage = stage /\ x.result = "none"
<1>1. "none" \in AnswersAt(stage) /\ stage \in Stages \ ({"unused"} \cup SweepOver)
  BY DEF AnswersAt, Stages, SweepOver
<1>2. Reply(s, stage, "none")
  BY DEF Goes, Reply
<1> QED BY <1>1, <1>2, ReplyTurns

LEMMA EndsTurns ==
    ASSUME NEW s \in Sweeps, NEW stage \in SweepOver, Ends(s, stage)
    PROVE  \E x \in SweepChain : Turns(s, x) /\ x.stage = stage /\ x.result = "none"
<1>1. NoSweep(stage) \in SweepChain
  BY SweepMade
<1> QED BY <1>1 DEF Ends, Turns, NoSweep

LEMMA Turned ==
    ASSUME FtSweepTypeOK, NEW s \in Sweeps, NEW x \in SweepChain, Turns(s, x)
    PROVE  /\ sweeps' \in [Sweeps -> SweepChain]
           /\ sweeps'[s] = x
           /\ \A d \in Sweeps \ {s} : sweeps'[d] = sweeps[d]
BY DEF FtSweepTypeOK, Turns

\* What becomes of the deposits when one sweep turns.
LEMMA HandTurns ==
    ASSUME FtSweepTypeOK, IsFiniteSet(Sweeps), NEW s \in Sweeps, NEW x \in SweepChain, Turns(s, x)
    PROVE  /\ Deposits \in Int /\ InHand(s) \in Nat /\ InHand(s)' \in Nat
           /\ Deposits' = Deposits - InHand(s) + InHand(s)'
<1>1. PICK f : f = [d \in Sweeps |-> InHand(d)]
  OBVIOUS
<1>2. PICK h : h = [d \in Sweeps |-> InHand(d)']
  OBVIOUS
<1>3. \A d \in Sweeps : InHand(d) \in Nat /\ InHand(d)' \in Nat
  BY FtSweepConstants DEF InHand, MinSweepAttached
<1>4. \A d \in Sweeps \ {s} : InHand(d)' = InHand(d)
  BY Turned DEF InHand, At
<1>5. f \in [Sweeps -> Int] /\ h \in [Sweeps -> Int] /\ \A d \in Sweeps \ {s} : h[d] = f[d]
  BY <1>1, <1>2, <1>3, <1>4
<1>6. SumFunction(h) = SumFunction(f) - f[s] + h[s] /\ SumFunction(f) \in Int
  BY <1>5, SumChange, SumIsInt
<1>7. Deposits = SumFunction(f) /\ Deposits' = SumFunction(h)
  BY <1>1, <1>2 DEF Deposits
<1> QED BY <1>1, <1>2, <1>3, <1>6, <1>7

LEMMA StatusTurns ==
    ASSUME FtSweepTypeOK, NEW s \in Sweeps, NEW x \in SweepChain, Turns(s, x)
    PROVE  [d \in Sweeps |-> StatusOf(d)]' =
             [[d \in Sweeps |-> StatusOf(d)] EXCEPT ![s] = StatusOf(s)']
<1>1. \A d \in Sweeps \ {s} : StatusOf(d)' = StatusOf(d)
  BY Turned DEF StatusOf, At
<1> QED BY <1>1

-----------------------------------------------------------------------------
(* What a step of a sweep does to the money, and for the registry.         *)

\* What is left is the extension's own, or a deposit in hand.
Balances(s) ==
    /\ ext_balance' \in Nat /\ own' \in Int /\ given_back' \in Nat
    /\ ext_balance' - own' = ext_balance - own - InHand(s) + InHand(s)'

SeenAs(s) ==
    \/ StatusOf(s) = "unused" /\ StatusOf(s)' = "out" /\ UNCHANGED given_back
    \/ StatusOf(s) = "out" /\ StatusOf(s)' = "kept" /\ UNCHANGED given_back
    \/ /\ StatusOf(s) = "out" /\ StatusOf(s)' = "returned"
       /\ given_back' = given_back + MinSweepAttached
    \/ StatusOf(s)' = StatusOf(s) /\ UNCHANGED given_back

SweepEffect(s) ==
    (\E x \in SweepChain : Turns(s, x)) /\ Balances(s) /\ SeenAs(s)

LEMMA AbortEffect ==
    ASSUME FtSweepTypeOK, NEW s \in Sweeps,
           At(s, "balance_cb") \/ (At(s, "storage_cb") /\ sweeps[s].result = "err"),
           abort_and_refund(s)
    PROVE  SweepEffect(s)
<1>1. /\ ext_balance \in Nat /\ own \in Int /\ given_back \in Nat
      /\ MinSweepAttached \in Nat /\ StatusOf(s) = "out" /\ InHand(s) = MinSweepAttached
  BY FtSweepConstants DEF FtSweepTypeOK, MinSweepAttached, StatusOf, InHand, At
<1>2. CASE ext_balance >= MinSweepAttached
  <2>1. PICK x \in SweepChain : Turns(s, x) /\ x.stage = "returned" /\ x.result = "none"
    BY <1>2, EndsTurns DEF abort_and_refund, SweepOver
  <2>2. sweeps'[s].stage = "returned"
    BY <2>1, Turned
  <2>3. StatusOf(s)' = "returned" /\ InHand(s)' = 0
    BY <2>2 DEF StatusOf, InHand, At
  <2>4. /\ ext_balance' = ext_balance - MinSweepAttached /\ own' = own
        /\ given_back' = given_back + MinSweepAttached
    BY <1>2 DEF abort_and_refund
  <2> QED BY <1>1, <1>2, <2>1, <2>3, <2>4 DEF SweepEffect, Balances, SeenAs
<1>3. CASE ~(ext_balance >= MinSweepAttached)
  <2>1. PICK x \in SweepChain : Turns(s, x) /\ x.stage = "failed" /\ x.result = "none"
    BY <1>3, EndsTurns DEF abort_and_refund, SweepOver
  <2>2. sweeps'[s].stage = "failed"
    BY <2>1, Turned
  <2>3. StatusOf(s)' = "kept" /\ InHand(s)' = MinSweepAttached
    BY <2>2 DEF StatusOf, InHand, At
  <2>4. UNCHANGED <<ext_balance, own, given_back>>
    BY <1>3 DEF abort_and_refund
  <2> QED BY <1>1, <2>1, <2>3, <2>4 DEF SweepEffect, Balances, SeenAs
<1> QED BY <1>2, <1>3

LEMMA BalanceEffect ==
    ASSUME FtSweepTypeOK, NEW s \in Sweeps, after_balance_for_sweep(s)
    PROVE  SweepEffect(s)
<1>1. /\ ext_balance \in Nat /\ own \in Int /\ given_back \in Nat /\ StorageDeposit \in Nat
      /\ StatusOf(s) = "out" /\ InHand(s) = StorageDeposit + 1 /\ At(s, "balance_cb")
      /\ sweeps[s] \in SweepChain
  BY FtSweepConstants
     DEF FtSweepTypeOK, MinSweepAttached, StatusOf, InHand, At, after_balance_for_sweep
<1>2. sweeps[s].result \in {"zero", "some", "err"}
  BY <1>1, SweepFields DEF AnswersAt, At
<1>3. CASE sweeps[s].result \in {"zero", "err"}
  BY <1>1, <1>3, AbortEffect DEF after_balance_for_sweep
<1>4. CASE sweeps[s].result = "some" /\ ext_balance >= StorageDeposit
  <2>1. /\ Goes(s, "storage") /\ ext_balance' = ext_balance - StorageDeposit
        /\ UNCHANGED <<given_back, own>>
    BY <1>4 DEF after_balance_for_sweep
  <2>2. sweeps[s].stage \in Stages \ ({"unused"} \cup SweepOver)
    BY <1>1 DEF At, Stages, SweepOver
  <2>3. PICK x \in SweepChain : Turns(s, x) /\ x.stage = "storage" /\ x.result = "none"
    BY <2>1, <2>2, GoesTurns
  <2>4. sweeps'[s].stage = "storage"
    BY <2>3, Turned
  <2>5. StatusOf(s)' = "out" /\ InHand(s)' = 1
    BY <2>4 DEF StatusOf, InHand, At
  <2> QED BY <1>1, <1>4, <2>1, <2>3, <2>5 DEF SweepEffect, Balances, SeenAs
<1>5. CASE sweeps[s].result = "some" /\ ~(ext_balance >= StorageDeposit)
  <2>1. Ends(s, "failed") /\ UNCHANGED <<ext_balance, given_back, own>>
    BY <1>5 DEF after_balance_for_sweep
  <2>2. PICK x \in SweepChain : Turns(s, x) /\ x.stage = "failed" /\ x.result = "none"
    BY <2>1, EndsTurns DEF SweepOver
  <2>3. sweeps'[s].stage = "failed"
    BY <2>2, Turned
  <2>4. StatusOf(s)' = "kept" /\ InHand(s)' = StorageDeposit + 1
    BY <2>3 DEF StatusOf, InHand, At, MinSweepAttached
  <2> QED BY <1>1, <2>1, <2>2, <2>4 DEF SweepEffect, Balances, SeenAs
<1> QED BY <1>2, <1>3, <1>4, <1>5

LEMMA StorageEffect ==
    ASSUME FtSweepTypeOK, NEW s \in Sweeps, after_storage_for_sweep(s)
    PROVE  SweepEffect(s)
<1>1. /\ ext_balance \in Nat /\ own \in Int /\ given_back \in Nat /\ At(s, "storage_cb")
      /\ sweeps[s] \in SweepChain
  BY DEF FtSweepTypeOK, after_storage_for_sweep
<1>2. sweeps[s].result \in {"ok", "err"}
  BY <1>1, SweepFields DEF AnswersAt, At
<1>3. CASE sweeps[s].result = "err"
  BY <1>1, <1>3, AbortEffect DEF after_storage_for_sweep
<1>4. CASE sweeps[s].result = "ok"
  <2>1. StatusOf(s) = "kept" /\ InHand(s) = 1
    BY <1>1, <1>4 DEF StatusOf, InHand, At
  <2>2. CASE ext_balance >= 1
    <3>1. Goes(s, "sign") /\ ext_balance' = ext_balance - 1 /\ UNCHANGED <<given_back, own>>
      BY <1>4, <2>2 DEF after_storage_for_sweep
    <3>2. sweeps[s].stage \in Stages \ ({"unused"} \cup SweepOver)
      BY <1>1 DEF At, Stages, SweepOver
    <3>3. PICK x \in SweepChain : Turns(s, x) /\ x.stage = "sign" /\ x.result = "none"
      BY <3>1, <3>2, GoesTurns
    <3>4. sweeps'[s].stage = "sign"
      BY <3>3, Turned
    <3>5. StatusOf(s)' = "kept" /\ InHand(s)' = 0
      BY <3>4 DEF StatusOf, InHand, At
    <3> QED BY <1>1, <2>1, <2>2, <3>1, <3>3, <3>5 DEF SweepEffect, Balances, SeenAs
  <2>3. CASE ~(ext_balance >= 1)
    <3>1. Ends(s, "unsigned") /\ own' = own + 1 /\ UNCHANGED <<ext_balance, given_back>>
      BY <1>4, <2>3 DEF after_storage_for_sweep
    <3>2. PICK x \in SweepChain : Turns(s, x) /\ x.stage = "unsigned" /\ x.result = "none"
      BY <3>1, EndsTurns DEF SweepOver
    <3>3. sweeps'[s].stage = "unsigned"
      BY <3>2, Turned
    <3>4. StatusOf(s)' = "kept" /\ InHand(s)' = 0
      BY <3>3 DEF StatusOf, InHand, At
    <3> QED BY <1>1, <2>1, <3>1, <3>2, <3>4 DEF SweepEffect, Balances, SeenAs
  <2> QED BY <2>2, <2>3
<1> QED BY <1>2, <1>3, <1>4

LEMMA SweepFtEffect ==
    ASSUME FtSweepTypeOK, NEW s \in Sweeps, NEW caller, NEW w \in Wallets, NEW attached,
           sweep_ft(s, caller, w, attached)
    PROVE  SweepEffect(s)
<1>1. /\ ext_balance \in Nat /\ own \in Int /\ given_back \in Nat /\ StorageDeposit \in Nat
      /\ StatusOf(s) = "unused" /\ InHand(s) = 0
  BY FtSweepConstants DEF FtSweepTypeOK, StatusOf, InHand, At, sweep_ft
<1>2. PICK x : x = [stage |-> "balance", wallet |-> w, result |-> "none"]
  OBVIOUS
<1>3. x \in SweepChain /\ x.stage = "balance"
  BY <1>2 DEF SweepChain, SweepAt
<1>4. /\ Turns(s, x) /\ ext_balance' = ext_balance + (StorageDeposit + 1)
      /\ UNCHANGED <<given_back, own>>
  BY <1>2 DEF sweep_ft, Turns, MinSweepAttached
<1>5. sweeps'[s].stage = "balance"
  BY <1>3, <1>4, Turned
<1>6. StatusOf(s)' = "out" /\ InHand(s)' = StorageDeposit + 1
  BY <1>5 DEF StatusOf, InHand, At, MinSweepAttached
<1> QED BY <1>1, <1>3, <1>4, <1>6 DEF SweepEffect, Balances, SeenAs

LEMMA AnswerEffect ==
    ASSUME FtSweepTypeOK, NEW s \in Sweeps, NEW stage \in Stages \ ({"unused"} \cup SweepOver),
           NEW result \in AnswersAt(stage), Reply(s, stage, result),
           sweeps[s].stage \in Stages \ ({"unused"} \cup SweepOver)
    PROVE  /\ \E x \in SweepChain : Turns(s, x)
           /\ sweeps'[s].stage = stage /\ sweeps'[s].result = result
<1>1. PICK x \in SweepChain : Turns(s, x) /\ x.stage = stage /\ x.result = result
  BY ReplyTurns
<1> QED BY <1>1, Turned

LEMMA TokenEffect ==
    ASSUME FtSweepTypeOK, NEW s \in Sweeps, RunBalanceOf(s) \/ RunStorageDeposit(s)
    PROVE  SweepEffect(s)
<1>1. /\ ext_balance \in Nat /\ own \in Int /\ given_back \in Nat /\ StorageDeposit \in Nat
      /\ {"balance_cb", "storage_cb"} \subseteq Stages \ ({"unused"} \cup SweepOver)
      /\ sweeps[s].stage \in Stages \ ({"unused"} \cup SweepOver)
  BY FtSweepConstants
     DEF FtSweepTypeOK, Stages, SweepOver, RunBalanceOf, RunStorageDeposit, At
<1>2. CASE RunBalanceOf(s)
  <2>1. PICK r \in AnswersAt("balance_cb") : Reply(s, "balance_cb", r)
    BY <1>2 DEF RunBalanceOf, AnswersAt
  <2>2. (\E x \in SweepChain : Turns(s, x)) /\ sweeps'[s].stage = "balance_cb"
    BY <1>1, <2>1, AnswerEffect
  <2>3. /\ StatusOf(s) = "out" /\ StatusOf(s)' = "out" /\ InHand(s)' = InHand(s)
        /\ InHand(s) = StorageDeposit + 1
    BY <1>2, <2>2 DEF RunBalanceOf, StatusOf, InHand, At, MinSweepAttached
  <2> QED BY <1>1, <1>2, <2>2, <2>3 DEF RunBalanceOf, SweepEffect, Balances, SeenAs
<1>3. CASE RunStorageDeposit(s)
  <2>1. "ok" \in AnswersAt("storage_cb") /\ "err" \in AnswersAt("storage_cb")
    BY DEF AnswersAt
  <2>2. StatusOf(s) = "out" /\ InHand(s) = 1 /\ UNCHANGED given_back
    BY <1>3 DEF RunStorageDeposit, StatusOf, InHand, At
  <2>3. CASE Reply(s, "storage_cb", "ok")
    <3>1. /\ \E x \in SweepChain : Turns(s, x)
          /\ sweeps'[s].stage = "storage_cb" /\ sweeps'[s].result = "ok"
      BY <1>1, <2>1, <2>3, AnswerEffect
    <3>2. StatusOf(s)' = "kept" /\ InHand(s)' = 1
      BY <3>1 DEF StatusOf, InHand, At
    <3>3. \/ UNCHANGED <<ext_balance, own>>
          \/ ext_balance' = ext_balance + StorageDeposit /\ own' = own + StorageDeposit
      <4>1. ~Reply(s, "storage_cb", "err")
        BY <1>1, <2>1, <3>1, AnswerEffect
      <4> QED BY <1>3, <4>1 DEF RunStorageDeposit
    <3> QED BY <1>1, <2>2, <3>1, <3>2, <3>3 DEF SweepEffect, Balances, SeenAs
  <2>4. CASE Reply(s, "storage_cb", "err") /\ ext_balance' = ext_balance + StorageDeposit
             /\ UNCHANGED own
    <3>1. /\ \E x \in SweepChain : Turns(s, x)
          /\ sweeps'[s].stage = "storage_cb" /\ sweeps'[s].result = "err"
      BY <1>1, <2>1, <2>4, AnswerEffect
    <3>2. StatusOf(s)' = "out" /\ InHand(s)' = StorageDeposit + 1
      BY <3>1 DEF StatusOf, InHand, At, MinSweepAttached
    <3> QED BY <1>1, <2>2, <2>4, <3>1, <3>2 DEF SweepEffect, Balances, SeenAs
  <2> QED BY <1>3, <2>3, <2>4 DEF RunStorageDeposit
<1> QED BY <1>2, <1>3

LEMMA SignerEffect ==
    ASSUME FtSweepTypeOK, NEW s \in Sweeps, authority_sign_tx(s) \/ on_signed(s)
    PROVE  SweepEffect(s)
<1>1. /\ ext_balance \in Nat /\ own \in Int /\ given_back \in Nat
      /\ sweeps[s].stage \in Stages \ ({"unused"} \cup SweepOver)
      /\ "settle" \in Stages \ ({"unused"} \cup SweepOver)
      /\ AnswersAt("settle") = {"signed", "none", "err"}
      /\ StatusOf(s) = "kept" /\ InHand(s) = 0 /\ UNCHANGED given_back
  BY DEF FtSweepTypeOK, Stages, SweepOver, AnswersAt, authority_sign_tx, on_signed, At,
     StatusOf, InHand
<1>2. ASSUME sweeps'[s].stage \in {"mpc", "settle"}
      PROVE  StatusOf(s)' = "kept" /\ InHand(s)' = 0
  BY <1>2 DEF StatusOf, InHand, At
<1>3. CASE authority_sign_tx(s) /\ Goes(s, "mpc") /\ UNCHANGED <<ext_balance, own>>
  <2>1. PICK x \in SweepChain : Turns(s, x) /\ x.stage = "mpc" /\ x.result = "none"
    BY <1>1, <1>3, GoesTurns
  <2>2. sweeps'[s].stage = "mpc"
    BY <2>1, Turned
  <2> QED BY <1>1, <1>2, <1>3, <2>1, <2>2 DEF SweepEffect, Balances, SeenAs
<1>4. CASE /\ authority_sign_tx(s) /\ Reply(s, "settle", "err")
           /\ ext_balance' = ext_balance + 1 /\ own' = own + 1
  <2>1. (\E x \in SweepChain : Turns(s, x)) /\ sweeps'[s].stage = "settle"
    BY <1>1, <1>4, AnswerEffect
  <2> QED BY <1>1, <1>2, <1>4, <2>1 DEF SweepEffect, Balances, SeenAs
<1>5. CASE on_signed(s)
  <2>1. PICK r \in AnswersAt("settle") : Reply(s, "settle", r)
    BY <1>1, <1>5 DEF on_signed
  <2>2. (\E x \in SweepChain : Turns(s, x)) /\ sweeps'[s].stage = "settle"
    BY <1>1, <2>1, AnswerEffect
  <2> QED BY <1>1, <1>2, <1>5, <2>2 DEF on_signed, SweepEffect, Balances, SeenAs
<1> QED BY <1>3, <1>4, <1>5 DEF authority_sign_tx

LEMMA SettledEffect ==
    ASSUME FtSweepTypeOK, NEW s \in Sweeps, after_sweep_settled(s)
    PROVE  SweepEffect(s)
<1>1. /\ ext_balance \in Nat /\ own \in Int /\ given_back \in Nat
      /\ StatusOf(s) = "kept" /\ InHand(s) = 0 /\ UNCHANGED <<ext_balance, own, given_back>>
  BY DEF FtSweepTypeOK, after_sweep_settled, At, StatusOf, InHand
<1>2. PICK stage \in {"signed", "unsigned"} : Ends(s, stage)
  BY DEF after_sweep_settled
<1>3. PICK x \in SweepChain : Turns(s, x) /\ x.stage = stage
  BY <1>2, EndsTurns DEF SweepOver
<1>4. sweeps'[s].stage \in {"signed", "unsigned"}
  BY <1>3, Turned
<1>5. StatusOf(s)' = "kept" /\ InHand(s)' = 0
  BY <1>4 DEF StatusOf, InHand, At
<1> QED BY <1>1, <1>3, <1>5 DEF SweepEffect, Balances, SeenAs

\* Every step is one of a sweep, a skim, or leaves the sweeps alone.
LEMMA SweepSteps ==
    ASSUME FtSweepTypeOK, [TokenSweepNext]_tokenSweepVars
    PROVE  \/ \E s \in Sweeps : SweepEffect(s)
           \/ UNCHANGED sweepVars
           \/ /\ UNCHANGED <<sweeps, given_back>>
              /\ ext_balance' \in Nat /\ own' \in Int
              /\ ext_balance' - own' = ext_balance - own
<1>1. CASE UNCHANGED tokenSweepVars
  BY <1>1 DEF tokenSweepVars
<1>2. CASE SignerStep \/ ExtensionStep
  BY <1>2 DEF SignerStep, ExtensionStep
<1>3. CASE Skim
  <2>1. PICK caller \in Admins, amount \in 1..ext_balance : skim(caller, amount)
    BY <1>3 DEF Skim
  <2>2. ext_balance \in Nat /\ own \in Int /\ amount \in Nat /\ amount <= ext_balance
    BY DEF FtSweepTypeOK
  <2> QED BY <2>1, <2>2 DEF skim
<1>4. CASE Sweep
  BY <1>4, SweepFtEffect DEF Sweep
<1>5. CASE \E s \in Sweeps : RunSweep(s)
  BY <1>5, BalanceEffect, StorageEffect, TokenEffect, SignerEffect, SettledEffect DEF RunSweep
<1> QED BY <1>1, <1>2, <1>3, <1>4, <1>5 DEF TokenSweepNext

-----------------------------------------------------------------------------

\* The chains and the money of the extension keep their types, and its
\* balance never goes below zero (sweep_ft, its callbacks, skim).
THEOREM SweepTypeCorrect == TokenSweepSpec => []FtSweepTypeOK
<1>1. TokenSweepInit => FtSweepTypeOK
  <2>1. NoSweep("unused") \in SweepChain
    BY SweepMade
  <2> QED BY <2>1, FtSweepConstants DEF TokenSweepInit, FtSweepInit, FtSweepTypeOK
<1>2. FtSweepTypeOK /\ [TokenSweepNext]_tokenSweepVars => FtSweepTypeOK'
  <2> SUFFICES ASSUME FtSweepTypeOK, [TokenSweepNext]_tokenSweepVars
               PROVE  FtSweepTypeOK'
    OBVIOUS
  <2>1. ASSUME NEW s \in Sweeps, SweepEffect(s)
        PROVE  FtSweepTypeOK'
    BY <2>1, Turned DEF SweepEffect, Balances, FtSweepTypeOK
  <2> QED BY <2>1, SweepSteps DEF FtSweepTypeOK, sweepVars
<1> QED BY <1>1, <1>2, PTL DEF TokenSweepSpec

\* Whatever is swept, refused, signed or skimmed in whatever order, the
\* balance of the extension is its own money and the deposits of the sweeps
\* that have neither spent them nor given them back.
THEOREM DepositsAlwaysCovered ==
    ASSUME IsFiniteSet(Sweeps)
    PROVE  TokenSweepSpec => []DepositsCovered
<1>1. TokenSweepInit => DepositsCovered
  <2> SUFFICES ASSUME TokenSweepInit
               PROVE  DepositsCovered
    OBVIOUS
  <2>1. PICK f : f = [s \in Sweeps |-> InHand(s)]
    OBVIOUS
  <2>2. \A s \in Sweeps : InHand(s) = 0
    BY DEF TokenSweepInit, FtSweepInit, NoSweep, InHand, At
  <2>3. f \in [Sweeps -> Int] /\ \A s \in Sweeps : f[s] = 0
    BY <2>1, <2>2
  <2>4. Deposits = 0
    BY <2>1, <2>3, SumOfZeros DEF Deposits
  <2> QED BY <2>4, FtSweepConstants DEF DepositsCovered, TokenSweepInit, FtSweepInit
<1>2. FtSweepTypeOK /\ DepositsCovered /\ [TokenSweepNext]_tokenSweepVars => DepositsCovered'
  <2> SUFFICES ASSUME FtSweepTypeOK, DepositsCovered, [TokenSweepNext]_tokenSweepVars
               PROVE  DepositsCovered'
    OBVIOUS
  <2>1. ext_balance \in Nat /\ own \in Int
    BY DEF FtSweepTypeOK
  <2>2. Deposits \in Int
    <3>1. PICK f : f = [s \in Sweeps |-> InHand(s)]
      OBVIOUS
    <3>2. f \in [Sweeps -> Int]
      BY <3>1, FtSweepConstants DEF InHand, MinSweepAttached
    <3> QED BY <3>1, <3>2, SumIsInt DEF Deposits
  <2>3. ASSUME NEW s \in Sweeps, SweepEffect(s)
        PROVE  DepositsCovered'
    <3>1. PICK x \in SweepChain : Turns(s, x)
      BY <2>3 DEF SweepEffect
    <3>2. InHand(s) \in Nat /\ InHand(s)' \in Nat /\ Deposits' = Deposits - InHand(s) + InHand(s)'
      BY <3>1, HandTurns
    <3>3. /\ ext_balance' \in Nat /\ own' \in Int
          /\ ext_balance' - own' = ext_balance - own - InHand(s) + InHand(s)'
      BY <2>3 DEF SweepEffect, Balances
    <3> QED BY <2>1, <2>2, <3>2, <3>3 DEF DepositsCovered
  <2>4. ASSUME UNCHANGED sweeps
        PROVE  Deposits' = Deposits
    BY <2>4 DEF Deposits, InHand, At
  <2> QED BY <2>1, <2>2, <2>3, <2>4, SweepSteps DEF DepositsCovered, sweepVars
<1> QED BY <1>1, <1>2, SweepTypeCorrect, PTL DEF TokenSweepSpec

\* The extension keeps what the registry is modelled against: the deposit of
\* a sweep leaves once, and comes back at most once, whole, and never after
\* the token has taken it.
THEOREM SweepsImplementDeposits == TokenSweepSpec => ImplementsSweepDeposits
<1>1. TokenSweepInit => Registry!DepositsInit
  BY DEF TokenSweepInit, FtSweepInit, NoSweep, Registry!DepositsInit, StatusOf, At
<1>2. FtSweepTypeOK /\ [TokenSweepNext]_tokenSweepVars
        => [Registry!DepositsNext]_(Registry!depositVars)
  <2> SUFFICES ASSUME FtSweepTypeOK, [TokenSweepNext]_tokenSweepVars
               PROVE  [Registry!DepositsNext]_(Registry!depositVars)
    OBVIOUS
  <2>1. ASSUME NEW s \in Sweeps, SweepEffect(s)
        PROVE  [Registry!DepositsNext]_(Registry!depositVars)
    <3>1. PICK x \in SweepChain : Turns(s, x)
      BY <2>1 DEF SweepEffect
    <3>2. [d \in Sweeps |-> StatusOf(d)]' =
             [[d \in Sweeps |-> StatusOf(d)] EXCEPT ![s] = StatusOf(s)']
      BY <3>1, StatusTurns
    <3>3. SeenAs(s)
      BY <2>1 DEF SweepEffect
    <3>4. \/ Registry!Open(s) \/ Registry!Return(s) \/ Registry!Keep(s)
          \/ UNCHANGED Registry!depositVars
      BY <3>2, <3>3 DEF SeenAs, Registry!Open, Registry!Return, Registry!Keep,
         Registry!depositVars
    <3> QED BY <3>4 DEF Registry!DepositsNext
  <2>2. ASSUME UNCHANGED <<sweeps, given_back>>
        PROVE  [Registry!DepositsNext]_(Registry!depositVars)
    BY <2>2 DEF Registry!depositVars, StatusOf, At
  <2> QED BY <2>1, <2>2, SweepSteps DEF sweepVars
<1> QED BY <1>1, <1>2, SweepTypeCorrect, PTL
        DEF TokenSweepSpec, ImplementsSweepDeposits, Registry!DepositsSpec

=============================================================================
