---------------------------- MODULE MoneyProofs -----------------------------
(***************************************************************************)
(* Proofs about the money of the registry: what a chain of receipts may    *)
(* still claim of it, and that the balance covers it, yocto by yocto.      *)
(*                                                                         *)
(* A mint's deposit leaves with the chain and is charged for by the        *)
(* callback at the amount in force by then.  Whether the books balance     *)
(* therefore depends on what admins do to that amount meanwhile, which the *)
(* theorems take as a hypothesis on the steps of a behaviour.              *)
(***************************************************************************)
EXTENDS TenancyProofs

-----------------------------------------------------------------------------
(* The books.                                                              *)

\* The money that is neither owed as a refund nor revenue.
Free(f) == f.balance - f.total_refunds - f.revenue

\* The running total of the refunds is their sum.
Totals(f) == f.total_refunds = SumFunction(f.refunds)

\* The chains that take no money along.
Unpaid == {"list", "offer", "buy_paid", "reclaim", "retry"}

\* What the callback of the chain charges for the name.
Charge(c) == IF chains[c].kind \in {"mint", "buy", "rerent"} THEN chains[c].price ELSE 0

\* The deposit of a chain pays for what it charges and for what left with it;
\* what left with a mint that failed is back.
Backed(c) ==
    /\ chains[c].kind # "claim" => Charge(c) + chains[c].funding <= chains[c].deposit
    /\ chains[c].kind \in Unpaid => chains[c].deposit = 0
    /\ chains[c].kind \notin MintKinds \/ chains[c].result \in Failures => chains[c].funding = 0

BooksInv ==
    /\ sweep_back \in Nat
    /\ Totals(funds)
    /\ \A c \in Slots : InFlight(c) => Backed(c)

\* What the chains in flight are owed together.
Owed == SumFunction([c \in Slots |-> Due(c)])

\* What the registry holds and nobody has a claim on.
Surplus == Free(funds) - sweep_back - Owed

\* There are finitely many accounts and slots.
Finite == IsFiniteSet(Accounts) /\ IsFiniteSet(Slots)

-----------------------------------------------------------------------------
(* Money moved about.                                                      *)

LEMMA FreeIsInt ==
    ASSUME NEW f \in Funds
    PROVE  Free(f) \in Int
BY FundsFields DEF Free

LEMMA FreeMoves ==
    ASSUME NEW f \in Funds, NEW n \in Nat, Totals(f)
    PROVE  /\ Free(Receive(f, n)) = Free(f) + n /\ Totals(Receive(f, n))
           /\ Free(Spend(f, n)) = Free(f) - n /\ Totals(Spend(f, n))
           /\ Free(Earn(f, n)) = Free(f) - n /\ Totals(Earn(f, n))
BY DEF Funds, Free, Totals, Receive, Spend, Earn

LEMMA FreeRefund ==
    ASSUME Finite, NEW f \in Funds, NEW u \in Users, NEW n \in Nat, Totals(f)
    PROVE  Free(Refund(f, u, n)) = Free(f) - n /\ Totals(Refund(f, u, n))
<1>1. u \in Accounts /\ IsFiniteSet(Accounts)
  BY DEF Accounts, Finite
<1>2. PICK r, g : r = f.refunds /\ g = [r EXCEPT ![u] = r[u] + n]
  OBVIOUS
<1>3. r \in [Accounts -> Int] /\ g \in [Accounts -> Int] /\ r[u] \in Int
  BY <1>1, <1>2, FundsFields
<1>4. (\A a \in Accounts \ {u} : g[a] = r[a]) /\ g[u] = r[u] + n
  BY <1>1, <1>2, <1>3
<1>5. SumFunction(g) = SumFunction(r) - r[u] + g[u]
  BY <1>1, <1>3, <1>4, SumChange
<1>6. SumFunction(r) \in Int
  BY <1>1, <1>3, SumIsInt
<1>7. SumFunction(g) = SumFunction(r) + n
  BY <1>3, <1>4, <1>5, <1>6
<1>8. Refund(f, u, n) = [f EXCEPT !.refunds = g, !.total_refunds = f.total_refunds + n]
  BY <1>2 DEF Refund
<1>9. PICK h : h = Refund(f, u, n)
  OBVIOUS
<1>10. /\ h.refunds = g /\ h.total_refunds = f.total_refunds + n
       /\ h.balance = f.balance /\ h.revenue = f.revenue
  BY <1>8, <1>9 DEF Funds
<1>11. Totals(h)
  BY <1>2, <1>7, <1>10 DEF Totals
<1>12. Free(h) = Free(f) - n
  BY <1>10, FundsFields DEF Free
<1> QED BY <1>9, <1>11, <1>12

LEMMA FreeExcess ==
    ASSUME Finite, NEW f \in Funds, NEW u \in Users, NEW n \in Nat, NEW m \in Nat, Totals(f)
    PROVE  /\ Totals(refund_excess(f, u, n, m))
           /\ Free(refund_excess(f, u, n, m)) = Free(f) - (IF n >= m THEN n - m ELSE 0)
<1>1. PICK e : e = saturating_sub(n, m)
  OBVIOUS
<1>2. e \in Nat /\ e = IF n >= m THEN n - m ELSE 0
  BY <1>1 DEF saturating_sub
<1>3. refund_excess(f, u, n, m) = Refund(f, u, e)
  BY <1>1 DEF refund_excess
<1> QED BY <1>2, <1>3, FreeRefund

\* A fee is paid and the rest booked back: nothing is left over.
LEMMA FreeCharged ==
    ASSUME Finite, NEW f \in Funds, NEW u \in Users, NEW n \in Nat, NEW m \in Nat, n >= m,
           Totals(f)
    PROVE  /\ Totals(refund_excess(Earn(Receive(f, n), m), u, n, m))
           /\ Free(refund_excess(Earn(Receive(f, n), m), u, n, m)) = Free(f)
<1>1. PICK g, h : g = Receive(f, n) /\ h = Earn(g, m)
  OBVIOUS
<1>2. g \in Funds /\ Totals(g) /\ Free(g) = Free(f) + n
  BY <1>1, FundsMove, FreeMoves
<1>3. h \in Funds /\ Totals(h) /\ Free(h) = Free(g) - m
  BY <1>1, <1>2, FundsMove, FreeMoves
<1>4. /\ Totals(refund_excess(h, u, n, m))
      /\ Free(refund_excess(h, u, n, m)) = Free(h) - (n - m)
  BY <1>3, FreeExcess
<1>5. Free(f) \in Int
  BY FreeIsInt
<1> QED BY <1>1, <1>2, <1>3, <1>4, <1>5

-----------------------------------------------------------------------------
(* What the chains are owed.                                               *)

LEMMA DueIs ==
    ASSUME TypeInv, NEW c \in Slots
    PROVE  /\ Due(c) \in Int
           /\ ~InFlight(c) => Due(c) = 0
           /\ InFlight(c) /\ chains[c].kind = "claim" =>
                Due(c) = IF chains[c].result = "err" THEN chains[c].deposit ELSE 0
           /\ InFlight(c) /\ chains[c].kind # "claim" =>
                Due(c) = chains[c].deposit - chains[c].funding
<1>1. InFlight(c) => chains[c].deposit \in Nat /\ chains[c].funding \in Nat
  BY ChainTyped DEF TypeInv
<1> QED BY <1>1 DEF Due

LEMMA OwedSame ==
    ASSUME \A c \in Slots : Due(c)' = Due(c)
    PROVE  Owed' = Owed
<1>1. [c \in Slots |-> Due(c)]' = [c \in Slots |-> Due(c)]
  OBVIOUS
<1> QED BY <1>1 DEF Owed

LEMMA OwedMoves ==
    ASSUME Finite, TypeInv, TypeInv', NEW c \in Slots, OnlyChain(c)
    PROVE  Owed' = Owed - Due(c) + Due(c)'
<1>1. PICK f, g : f = [d \in Slots |-> Due(d)] /\ g = [d \in Slots |-> Due(d)']
  OBVIOUS
<1>2. \A d \in Slots : Due(d) \in Int
  BY DueIs
<1>3. \A d \in Slots : Due(d)' \in Int
  <2>1. ASSUME NEW d \in Slots
        PROVE  Due(d)' \in Int
    <3>1. InFlight(d)' => chains'[d].deposit \in Nat /\ chains'[d].funding \in Nat
      BY DEF TypeInv, ChainsOK, GoodChain, ChainRecord
    <3> QED BY <3>1 DEF Due
  <2> QED BY <2>1
<1>4. \A d \in Slots \ {c} : Due(d)' = Due(d)
  BY DEF OnlyChain, Due, InFlight
<1>5. /\ f \in [Slots -> Int] /\ g \in [Slots -> Int] /\ \A d \in Slots \ {c} : g[d] = f[d]
      /\ f[c] = Due(c) /\ g[c] = Due(c)'
  BY <1>1, <1>2, <1>3, <1>4
<1>6. SumFunction(g) = SumFunction(f) - f[c] + g[c]
  BY <1>5, SumChange DEF Finite
<1>7. Owed = SumFunction(f) /\ Owed' = SumFunction(g)
  BY <1>1 DEF Owed
<1> QED BY <1>5, <1>6, <1>7

-----------------------------------------------------------------------------
(* What a step may do to the books.                                        *)

Even == BooksInv' /\ Surplus' = Surplus

LEMMA BooksNumbers ==
    ASSUME Finite, TypeInv, BooksInv
    PROVE  Free(funds) \in Int /\ sweep_back \in Int /\ Owed \in Int
<1>1. PICK f : f = [c \in Slots |-> Due(c)]
  OBVIOUS
<1>2. f \in [Slots -> Int]
  BY <1>1, DueIs
<1>3. SumFunction(f) \in Int
  BY <1>2, SumIsInt DEF Finite
<1> QED BY <1>1, <1>3, FreeIsInt DEF TypeInv, BooksInv, Owed

\* The chains are left alone.
LEMMA QuietBooks ==
    ASSUME Finite, TypeInv, TypeInv', BooksInv, UNCHANGED chains,
           Totals(funds'), sweep_back' \in Nat,
           Free(funds') - sweep_back' = Free(funds) - sweep_back
    PROVE  Even
<1>1. \A c \in Slots : Due(c)' = Due(c)
  BY DEF Due, InFlight
<1>2. Owed' = Owed
  BY <1>1, OwedSame
<1>3. BooksInv'
  BY DEF BooksInv, Totals, Backed, Charge, InFlight
<1>4. Surplus' = Surplus
  BY <1>2 DEF Surplus, Free
<1> QED BY <1>3, <1>4 DEF Even

LEMMA NothingBooked ==
    ASSUME Finite, TypeInv, TypeInv', BooksInv, UNCHANGED <<chains, funds, sweep_back>>
    PROVE  Even
BY QuietBooks DEF BooksInv

\* Chains get older and lose tokens.
LEMMA MarkedBooks ==
    ASSUME Finite, TypeInv, TypeInv', BooksInv, UNCHANGED <<funds, sweep_back>>,
           \A c \in Slots : (InFlight(c)' <=> InFlight(c)) /\ (InFlight(c) => Marked(c))
    PROVE  Even
<1>1. \A c \in Slots : Due(c)' = Due(c)
  BY DEF Due, Marked
<1>2. Owed' = Owed
  BY <1>1, OwedSame
<1>3. BooksInv'
  BY DEF BooksInv, Totals, Backed, Charge, Marked
<1>4. Surplus' = Surplus
  BY <1>2 DEF Surplus, Free
<1> QED BY <1>3, <1>4 DEF Even

\* One chain moves.
LEMMA ChainBooks ==
    ASSUME Finite, TypeInv, TypeInv', BooksInv, NEW c \in Slots, OnlyChain(c),
           UNCHANGED sweep_back, Totals(funds'), InFlight(c)' => Backed(c)',
           NEW n \in Int, NEW due \in Int, Free(funds') = Free(funds) + n, Due(c)' = due
    PROVE  BooksInv' /\ Surplus' = Surplus + n + Due(c) - due
<1>1. BooksInv'
  BY DEF BooksInv, Totals, Backed, Charge, InFlight, OnlyChain
<1>2. Owed' = Owed - Due(c) + due
  BY OwedMoves
<1>3. Due(c) \in Int /\ Free(funds) \in Int /\ sweep_back \in Int /\ Owed \in Int
  BY DueIs, BooksNumbers
<1>4. Surplus' = Free(funds') - sweep_back - Owed'
  BY DEF Surplus, Free
<1>5. Surplus = Free(funds) - sweep_back - Owed
  BY DEF Surplus
<1> QED BY <1>1, <1>2, <1>3, <1>4, <1>5

LEMMA EndBooks ==
    ASSUME Finite, TypeInv, TypeInv', BooksInv, NEW c \in Slots, End(c), UNCHANGED sweep_back,
           Totals(funds'), NEW n \in Int, Free(funds') = Free(funds) + n
    PROVE  BooksInv' /\ Surplus' = Surplus + n + Due(c)
<1>1. OnlyChain(c) /\ ~InFlight(c)'
  BY ChainEnds DEF TypeInv
<1>2. Due(c)' = 0
  BY <1>1 DEF Due
<1>3. BooksInv' /\ Surplus' = Surplus + n + Due(c) - 0
  BY <1>1, <1>2, ChainBooks
<1>4. Due(c) \in Int /\ Surplus \in Int
  BY DueIs, BooksNumbers DEF Surplus
<1> QED BY <1>3, <1>4

\* A chain goes on, with the money it had.
LEMMA GoesOnBooks ==
    ASSUME Finite, TypeInv, TypeInv', BooksInv, NEW c \in Slots, GoesOn(c),
           chains[c].kind # "claim", chains'[c].funding = chains[c].funding,
           chains[c].kind \in MintKinds => chains'[c].result \notin Failures,
           UNCHANGED <<funds, sweep_back>>
    PROVE  Even
<1>1. OnlyChain(c) /\ InFlight(c) /\ InFlight(c)'
  BY DEF GoesOn
<1>2. Backed(c)'
  BY <1>1 DEF BooksInv, Backed, Charge, GoesOn
<1>3. Due(c)' = Due(c)
  BY <1>1 DEF Due, GoesOn
<1>4. Due(c) \in Int /\ Free(funds) \in Int /\ Surplus \in Int
  BY DueIs, BooksNumbers DEF Surplus
<1>5. BooksInv' /\ Surplus' = Surplus + 0 + Due(c) - Due(c)
  BY <1>1, <1>2, <1>3, <1>4, ChainBooks DEF BooksInv
<1> QED BY <1>4, <1>5 DEF Even

-----------------------------------------------------------------------------
(* The steps that leave the chains alone.                                  *)

\* The steps that have nothing to do with money.
Moneyless ==
    \/ Withdrawal \/ Retract \/ Anchor \/ AdminRoles \/ AdminConfig \/ AdminTlas
    \/ AdminOverrides \/ RecoveryStep \/ HaltStep
    \/ \E u \in Users, w \in Wallets, m \in Accounts : set_main_wallet(u, w, m)
    \/ \E w \in Wallets, token \in Tokens : TokenArrives(w, token)
    \/ UNCHANGED registryVars

LEMMA NoMoneyMoves ==
    ASSUME Moneyless
    PROVE  UNCHANGED <<chains, funds, sweep_back>>
<1>1. CASE Withdrawal \/ Retract \/ Anchor
  <2>1. CASE Withdrawal
    BY <2>1 DEF Withdrawal, unlist_sub_account, revoke_offer, worldVars, tokenVars, depositVars
  <2>2. CASE Retract
    BY <2>2 DEF Retract, schedule_retraction, cancel_retraction, SetRetraction, worldVars,
       tokenVars, depositVars
  <2>3. CASE Anchor
    BY <2>3 DEF Anchor, set_mother, worldVars, tokenVars, depositVars
  <2> QED BY <1>1, <2>1, <2>2, <2>3
<1>2. CASE \E u \in Users, w \in Wallets, m \in Accounts : set_main_wallet(u, w, m)
  BY <1>2 DEF set_main_wallet, worldVars, tokenVars, depositVars
<1>3. CASE AdminRoles
  BY <1>3 DEF AdminRoles, pause, unpause, add_admin, remove_admin, add_payment_authority,
     remove_payment_authority, SetRoles, worldVars, tokenVars, depositVars
<1>4. CASE AdminConfig
  BY <1>4 DEF AdminConfig, update_fee_config, set_parked_signer_pubkey, add_ft_allowlist,
     remove_ft_allowlist, set_business_sub_cap, Configure, worldVars, tokenVars, depositVars
<1>5. CASE AdminTlas
  BY <1>5 DEF AdminTlas, register_tla, suspend_tla, unsuspend_tla, activate_open_tla, SetTla,
     worldVars, tokenVars, depositVars
<1>6. CASE AdminOverrides
  BY <1>6 DEF AdminOverrides, admin_clear_settling, admin_clear_reclaim_pending,
     admin_clear_mother, worldVars, tokenVars, depositVars
<1>7. CASE RecoveryStep \/ HaltStep
  BY <1>7 DEF RecoveryStep, HaltStep, unchangedByOthers, tokenVars, depositVars
<1>8. CASE \E w \in Wallets, token \in Tokens : TokenArrives(w, token)
  BY <1>8 DEF TokenArrives, depositVars
<1>9. CASE UNCHANGED registryVars
  BY <1>9 DEF registryVars, worldVars, tokenVars, depositVars
<1> QED BY <1>1, <1>2, <1>3, <1>4, <1>5, <1>6, <1>7, <1>8, <1>9 DEF Moneyless

\* What is charged at once.
LEMMA ChargedBooks ==
    ASSUME Finite, TypeInv, TypeInv', BooksInv, NEW u \in Users, NEW n \in Nat, NEW m \in Nat,
           n >= m, funds' = refund_excess(Earn(Receive(funds, n), m), u, n, m),
           UNCHANGED <<chains, sweep_back>>
    PROVE  Even
<1>1. Totals(funds') /\ Free(funds') = Free(funds)
  BY FreeCharged DEF TypeInv, BooksInv
<1> QED BY <1>1, QuietBooks DEF BooksInv

LEMMA RenewBooks ==
    ASSUME Finite, TypeInv, TypeInv', BooksInv, NEW u \in Users, NEW w \in Wallets,
           NEW paid \in Payments, renew_sub_account(u, w, paid)
    PROVE  Even
<1>1. PICK rent : rent = Rent(w)
  OBVIOUS
<1>2. rent \in Nat /\ paid \in Nat /\ paid >= rent
  BY <1>1, RentIsNat, InputConstants DEF renew_sub_account, TypeInv, LinksOK
<1>3. funds' = refund_excess(Earn(Receive(funds, paid), rent), u, paid, rent)
  BY <1>1 DEF renew_sub_account
<1>4. UNCHANGED <<chains, sweep_back>>
  BY DEF renew_sub_account, worldVars, tokenVars, depositVars
<1> QED BY <1>2, <1>3, <1>4, ChargedBooks

LEMMA TlaBooks ==
    ASSUME Finite, TypeInv, TypeInv', BooksInv, NEW u \in Users, NEW t \in Tlas,
           NEW paid \in Payments, activate_tla(u, t, paid) \/ renew_tla(u, t, paid)
    PROVE  Even
<1>1. PICK rent, fee : rent = TlaRent(t) /\ fee = fee_config.tla_allocation_fee + rent
  OBVIOUS
<1>2. rent \in Nat /\ fee \in Nat /\ paid \in Nat
  BY <1>1, TlaRentIsNat, FeeFields, InputConstants DEF TypeInv
<1>3. CASE activate_tla(u, t, paid)
  <2>1. funds' = refund_excess(Earn(Receive(funds, paid), fee), u, paid, fee) /\ paid >= fee
    BY <1>1, <1>3 DEF activate_tla
  <2>2. UNCHANGED <<chains, sweep_back>>
    BY <1>3 DEF activate_tla, worldVars, tokenVars, depositVars
  <2> QED BY <1>2, <2>1, <2>2, ChargedBooks
<1>4. CASE renew_tla(u, t, paid)
  <2>1. funds' = refund_excess(Earn(Receive(funds, paid), rent), u, paid, rent) /\ paid >= rent
    BY <1>1, <1>4 DEF renew_tla
  <2>2. UNCHANGED <<chains, sweep_back>>
    BY <1>4 DEF renew_tla, worldVars, tokenVars, depositVars
  <2> QED BY <1>2, <2>1, <2>2, ChargedBooks
<1> QED BY <1>3, <1>4

\* Revenue becomes a refund.
LEMMA WithdrawBooks ==
    ASSUME Finite, TypeInv, TypeInv', BooksInv, NEW caller \in Admins, NEW n \in 1..MaxMoney,
           NEW u \in Users, withdraw(caller, n, u)
    PROVE  Even
<1>1. n \in Nat /\ funds \in Funds /\ n <= funds.revenue /\ Totals(funds)
  BY InputConstants DEF TypeInv, BooksInv, withdraw
<1>2. PICK f : f = [funds EXCEPT !.revenue = @ - n]
  OBVIOUS
<1>3. f \in Funds /\ Totals(f) /\ Free(f) = Free(funds) + n
  BY <1>1, <1>2 DEF Funds, Totals, Free
<1>4. funds' = Refund(f, u, n)
  BY <1>2 DEF withdraw
<1>5. Totals(funds') /\ Free(funds') = Free(f) - n
  BY <1>1, <1>3, <1>4, FreeRefund
<1>6. Free(funds') = Free(funds)
  BY <1>1, <1>3, <1>5, FreeIsInt
<1>7. UNCHANGED <<chains, sweep_back>>
  BY DEF withdraw, worldVars, tokenVars, depositVars
<1> QED BY <1>5, <1>6, <1>7, QuietBooks DEF BooksInv

\* The deposit of a sweep leaves, and comes back or not.
LEMMA SweepBooks ==
    ASSUME Finite, TypeInv, TypeInv', BooksInv, Sweeping
    PROVE  Even
<1>1. UNCHANGED chains /\ sweep_back \in Nat /\ SweepDeposit \in Nat /\ funds \in Funds /\ Totals(funds)
      /\ Free(funds) \in Int
  BY QuietChains, SweepConstants, FreeIsInt DEF TypeInv, BooksInv
<1>2. ASSUME NEW s \in Sweeps, NEW u \in Users, NEW w \in Wallets, NEW ft \in Tokens,
             NEW paid \in Payments, reclaim_sweep_ft(s, u, w, ft, paid)
      PROVE  Even
  <2>1. paid \in Nat /\ paid >= SweepDeposit /\ UNCHANGED sweep_back
    BY <1>2, InputConstants DEF reclaim_sweep_ft, Open
  <2>2. PICK f, g : f = Receive(funds, paid) /\ g = Spend(f, SweepDeposit)
    OBVIOUS
  <2>3. f \in Funds /\ Totals(f) /\ Free(f) = Free(funds) + paid
    BY <1>1, <2>1, <2>2, FundsMove, FreeMoves
  <2>4. g \in Funds
    BY <1>1, <2>1, <2>2, AdvanceFunds
  <2>5. Totals(g) /\ Free(g) = Free(f) - SweepDeposit
    BY <1>1, <2>2, <2>3, FreeMoves
  <2>6. funds' = refund_excess(g, u, paid, SweepDeposit)
    BY <1>2, <2>2 DEF reclaim_sweep_ft
  <2>7. Totals(funds') /\ Free(funds') = Free(g) - (paid - SweepDeposit)
    BY <1>1, <2>1, <2>4, <2>5, <2>6, FreeExcess
  <2>8. Free(funds') = Free(funds)
    BY <1>1, <2>1, <2>3, <2>5, <2>7
  <2> QED BY <1>1, <2>1, <2>7, <2>8, QuietBooks
<1>3. ASSUME NEW s \in Sweeps, RunSweep(s)
      PROVE  Even
  <2>1. CASE Return(s) /\ funds' = Receive(funds, SweepDeposit)
    <3>1. sweep_back' = sweep_back + SweepDeposit
      BY <2>1 DEF Return
    <3>2. Totals(funds') /\ Free(funds') = Free(funds) + SweepDeposit
      BY <1>1, <2>1, FreeMoves
    <3> QED BY <1>1, <3>1, <3>2, QuietBooks
  <2>2. CASE Keep(s) /\ UNCHANGED funds
    BY <1>1, <2>2, QuietBooks DEF Keep
  <2> QED BY <1>3, <2>1, <2>2 DEF RunSweep
<1> QED BY <1>2, <1>3 DEF Sweeping

-----------------------------------------------------------------------------
(* A chain starts with the money that came with the call.                  *)

LEMMA FreshBooks ==
    ASSUME Finite, TypeInv, TypeInv', BooksInv, NEW c \in Slots, NEW kind, kind # "claim",
           NEW method, NEW w, Fresh(c, kind, method, w),
           NEW n \in Nat, chains'[c].deposit = n, NEW m \in Nat, chains'[c].funding = m,
           kind \in {"mint", "buy", "rerent"} => chains'[c].price + m <= n,
           m <= n, kind \in Unpaid => n = 0, kind \notin MintKinds => m = 0,
           UNCHANGED sweep_back, Totals(funds'), Free(funds') = Free(funds) + n - m
    PROVE  Even
<1>1. /\ OnlyChain(c) /\ ~InFlight(c) /\ InFlight(c)' /\ chains'[c].kind = kind
      /\ chains'[c].result = "pending" /\ "pending" \notin Failures
  BY DEF Fresh, Failures
<1>2. Backed(c)'
  BY <1>1 DEF Backed, Charge
<1>3. Due(c) = 0 /\ Due(c)' = n - m
  BY <1>1 DEF Due
<1>4. Free(funds) \in Int /\ Surplus \in Int /\ n - m \in Int
  BY BooksNumbers DEF Surplus
<1>5. Free(funds') = Free(funds) + (n - m)
  BY <1>4
<1>6. BooksInv' /\ Surplus' = Surplus + (n - m) + Due(c) - (n - m)
  BY <1>1, <1>2, <1>3, <1>4, <1>5, ChainBooks
<1> QED BY <1>3, <1>4, <1>6 DEF Even

\* The calls that bring no money.
LEMMA UnpaidBooks ==
    ASSUME Finite, TypeInv, TypeInv', BooksInv, NEW c \in Slots, NEW kind \in Unpaid,
           NEW method, NEW w, Fresh(c, kind, method, w),
           chains'[c].deposit = 0, chains'[c].funding = 0, UNCHANGED <<funds, sweep_back>>
    PROVE  Even
<1>1. kind # "claim" /\ kind \notin {"mint", "buy", "rerent"} /\ kind \notin MintKinds
  BY DEF Unpaid, MintKinds
<1>2. Totals(funds') /\ Free(funds') = Free(funds) + 0 - 0
  BY BooksNumbers DEF BooksInv, Totals
<1> QED BY <1>1, <1>2, FreshBooks

LEMMA TradeBooks ==
    ASSUME Finite, TypeInv, TypeInv', BooksInv, NEW c \in Slots, NEW u \in Users,
           NEW w \in Wallets, NEW k \in Keys, Advertise(c, u, w, k) \/ Purchase(c, u, w, k)
    PROVE  Even
<1>0. "list" \in Unpaid /\ "offer" \in Unpaid /\ "buy_paid" \in Unpaid
      /\ "buy" \notin Unpaid /\ "buy" \notin MintKinds
  BY DEF Unpaid, MintKinds
<1>1. ASSUME NEW p \in Prices, list_sub_account(c, u, w, p, k)
      PROVE  Even
  <2>1. /\ Fresh(c, "list", "query", w) /\ chains'[c].deposit = 0 /\ chains'[c].funding = 0
    BY <1>1, ListStarts
  <2>2. UNCHANGED <<funds, sweep_back>>
    BY <1>1 DEF list_sub_account, worldVars, tokenVars, depositVars
  <2> QED BY <1>0, <2>1, <2>2, UnpaidBooks
<1>2. ASSUME NEW p \in Prices, NEW b \in Users, accept_offer(c, u, w, b, p, k)
      PROVE  Even
  <2>1. /\ Fresh(c, "offer", "query", w) /\ chains'[c].deposit = 0 /\ chains'[c].funding = 0
    BY <1>2, OfferStarts
  <2>2. UNCHANGED <<funds, sweep_back>>
    BY <1>2 DEF accept_offer, worldVars, tokenVars, depositVars
  <2> QED BY <1>0, <2>1, <2>2, UnpaidBooks
<1>3. ASSUME NEW paid \in Payments, buy_sub_account(c, u, w, k, paid)
      PROVE  Even
  <2>1. /\ Fresh(c, "buy", GateMethod, w) /\ chains'[c].deposit = paid
        /\ chains'[c].funding = 0 /\ chains'[c].price <= paid
    BY <1>3, BuyStarts
  <2>2. funds' = Receive(funds, paid) /\ UNCHANGED sweep_back
    BY <1>3 DEF buy_sub_account, worldVars, tokenVars, depositVars
  <2>3. paid \in Nat /\ funds \in Funds /\ Totals(funds) /\ Free(funds) \in Int
    BY InputConstants, BooksNumbers DEF TypeInv, BooksInv
  <2>4. Totals(funds') /\ Free(funds') = Free(funds) + paid - 0
    BY <2>2, <2>3, FreeMoves
  <2>5. chains'[c].price \in Nat
    BY <2>1 DEF TypeInv, ChainsOK, GoodChain, ChainRecord, Fresh
  <2>6. chains'[c].price + 0 <= paid /\ 0 <= paid /\ 0 \in Nat
    BY <2>1, <2>3, <2>5
  <2> QED BY <1>0, <2>1, <2>2, <2>3, <2>4, <2>6, FreshBooks
<1>4. ASSUME NEW b \in Users, buy_sub_account_paid(c, u, b, w, k)
      PROVE  Even
  <2>1. /\ Fresh(c, "buy_paid", GateMethod, w)
        /\ chains'[c].deposit = 0 /\ chains'[c].funding = 0
    BY <1>4, BuyPaidStarts
  <2>2. UNCHANGED <<funds, sweep_back>>
    BY <1>4 DEF buy_sub_account_paid, worldVars, tokenVars, depositVars
  <2> QED BY <1>0, <2>1, <2>2, UnpaidBooks
<1> QED BY <1>1, <1>2, <1>3, <1>4 DEF Advertise, Purchase

LEMMA RetryBooks ==
    ASSUME Finite, TypeInv, TypeInv', BooksInv, NEW c \in Slots, NEW u \in Users,
           NEW w \in Wallets, retry_signer_install(c, u, w)
    PROVE  Even
<1>1. /\ Fresh(c, "retry", "retry_install", w) /\ chains'[c].deposit = 0
      /\ chains'[c].funding = 0 /\ "retry" \in Unpaid
  BY RetryStarts DEF Unpaid
<1>2. UNCHANGED <<funds, sweep_back>>
  BY DEF retry_signer_install, worldVars, tokenVars, depositVars
<1> QED BY <1>1, <1>2, UnpaidBooks

LEMMA ReclaimBooks ==
    ASSUME Finite, TypeInv, TypeInv', BooksInv, NEW c \in Slots, NEW w \in Wallets,
           reclaim_finalize(c, w)
    PROVE  Even
<1>1. PICK m : Fresh(c, "reclaim", m, w)
  BY ReclaimStarts
<1>2. chains'[c].deposit = 0 /\ chains'[c].funding = 0 /\ "reclaim" \in Unpaid
  BY ReclaimStarts DEF Unpaid
<1>3. UNCHANGED <<funds, sweep_back>>
  BY DEF reclaim_finalize, worldVars, tokenVars, depositVars
<1> QED BY <1>1, <1>2, <1>3, UnpaidBooks

\* A deposit comes in, and part of it leaves with the chain.
LEMMA FreeAdvance ==
    ASSUME NEW f \in Funds, NEW n \in Nat, NEW m \in Nat, Totals(f)
    PROVE  /\ Totals(Spend(Receive(f, n), m))
           /\ Free(Spend(Receive(f, n), m)) = Free(f) + n - m
<1>1. PICK g, h : g = Receive(f, n) /\ h = Spend(g, m)
  OBVIOUS
<1>2. g \in Funds /\ Totals(g) /\ Free(g) = Free(f) + n
  BY <1>1, FundsMove, FreeMoves
<1>3. Totals(h) /\ Free(h) = Free(g) - m
  BY <1>1, <1>2, FreeMoves
<1>4. Free(f) \in Int
  BY FreeIsInt
<1> QED BY <1>1, <1>2, <1>3, <1>4

LEMMA RentBooks ==
    ASSUME Finite, TypeInv, TypeInv', BooksInv, NEW c \in Slots, NEW u \in Users,
           NEW w \in Wallets, NEW k \in Keys, NEW a \in Accounts, NEW paid \in Payments,
           rent_sub_account(c, u, w, k, a, paid)
    PROVE  Even
<1>0. /\ "rerent" \notin Unpaid /\ "mint" \notin Unpaid /\ "mint" \in MintKinds
  BY DEF Unpaid, MintKinds
<1>1. PICK m : m = chains'[c].funding
  OBVIOUS
<1>2. /\ m \in Nat /\ paid \in Nat /\ chains'[c].deposit = paid
      /\ chains'[c].price \in Nat /\ paid >= chains'[c].price + m
      /\ funds' = Spend(Receive(funds, paid), m)
  BY <1>1, RentStarts, InputConstants
<1>3. chains'[c].price + m <= paid /\ m <= paid
  BY <1>2
<1>4. Totals(funds') /\ Free(funds') = Free(funds) + paid - m
  BY <1>2, FreeAdvance DEF TypeInv, BooksInv
<1>5. UNCHANGED sweep_back
  BY DEF rent_sub_account, worldVars, tokenVars, depositVars
<1>6. CASE w \in parked_names
  <2>1. m = 0 /\ \E g : Fresh(c, "rerent", g, w)
    BY <1>1, <1>6, RentStarts
  <2> QED BY <1>0, <1>1, <1>2, <1>3, <1>4, <1>5, <2>1, FreshBooks
<1>7. CASE w \notin parked_names
  <2>1. Fresh(c, "mint", "create", w)
    BY <1>7, RentStarts
  <2> QED BY <1>0, <1>1, <1>2, <1>3, <1>4, <1>5, <2>1, FreshBooks
<1> QED BY <1>6, <1>7

LEMMA RentPaidBooks ==
    ASSUME Finite, TypeInv, TypeInv', BooksInv, NEW c \in Slots, NEW u \in Users,
           NEW w \in Wallets, NEW k \in Keys, NEW a \in Accounts, NEW paid \in Payments,
           rent_sub_account_paid(c, u, w, k, a, paid)
    PROVE  Even
<1>1. PICK m : m = fee_config.account_creation_deposit
  OBVIOUS
<1>2. /\ m \in Nat /\ paid \in Nat /\ m <= paid /\ funds' = Spend(Receive(funds, paid), m)
      /\ UNCHANGED sweep_back
  BY <1>1, FeeFields, InputConstants
     DEF TypeInv, rent_sub_account_paid, worldVars, tokenVars, depositVars
<1>3. /\ Fresh(c, "mint_paid", "create", w)
      /\ chains'[c].deposit = paid /\ chains'[c].funding = m
  BY <1>1, RentPaidStarts
<1>4. Totals(funds') /\ Free(funds') = Free(funds) + paid - m
  BY <1>2, FreeAdvance DEF TypeInv, BooksInv
<1>5. "mint_paid" \notin Unpaid /\ "mint_paid" \in MintKinds
      /\ "mint_paid" \notin {"mint", "buy", "rerent"} /\ "mint_paid" # "claim"
  BY DEF Unpaid, MintKinds
<1> QED BY <1>2, <1>3, <1>4, <1>5, FreshBooks

-----------------------------------------------------------------------------
(* Refunds are claimed.                                                    *)

\* The claim is never more than the total it is taken from.
LEMMA FreeClaimed ==
    ASSUME Finite, NEW f \in Funds, NEW u \in Users, Totals(f)
    PROVE  LET n == f.refunds[u]
               g == [f EXCEPT !.refunds = [@ EXCEPT ![u] = 0],
                              !.total_refunds = saturating_sub(@, n), !.balance = @ - n]
           IN  Totals(g) /\ Free(g) = Free(f)
<1>1. u \in Accounts /\ IsFiniteSet(Accounts)
  BY DEF Accounts, Finite
<1>2. PICK r, n, h : r = f.refunds /\ n = r[u] /\ h = [r EXCEPT ![u] = 0]
  OBVIOUS
<1>3. /\ r \in [Accounts -> Nat] /\ r \in [Accounts -> Int] /\ h \in [Accounts -> Int]
      /\ n \in Nat /\ h[u] = 0 /\ \A a \in Accounts \ {u} : h[a] = r[a]
  BY <1>1, <1>2, FundsFields
<1>4. SumFunction(r) \in Nat /\ n <= SumFunction(r)
  BY <1>1, <1>2, <1>3, SumOfNats
<1>5. SumFunction(h) = SumFunction(r) - r[u] + h[u]
  BY <1>1, <1>3, SumChange
<1>6. f.total_refunds = SumFunction(r)
  BY <1>2 DEF Totals
<1>7. PICK t : t = saturating_sub(f.total_refunds, n)
  OBVIOUS
<1>8. t = f.total_refunds - n /\ t = SumFunction(h)
  BY <1>2, <1>3, <1>4, <1>5, <1>6, <1>7 DEF saturating_sub
<1>9. PICK g : g = [f EXCEPT !.refunds = h, !.total_refunds = t, !.balance = f.balance - n]
  OBVIOUS
<1>10. g.refunds = h /\ g.total_refunds = t /\ g.balance = f.balance - n /\ g.revenue = f.revenue
  BY <1>9 DEF Funds
<1>11. Totals(g)
  BY <1>8, <1>10 DEF Totals
<1>12. Free(g) = Free(f)
  BY <1>3, <1>8, <1>10, FundsFields DEF Free
<1> QED BY <1>2, <1>7, <1>9, <1>11, <1>12

LEMMA ClaimBooks ==
    ASSUME Finite, TypeInv, TypeInv', BooksInv, NEW c \in Slots, NEW u \in Users,
           claim_refund(c, u)
    PROVE  Even
<1>1. Fresh(c, "claim", "pay", None) /\ chains'[c].funding = 0
  BY ClaimStarts
<1>2. UNCHANGED sweep_back
  BY DEF claim_refund, worldVars, tokenVars, depositVars
<1>3. Totals(funds') /\ Free(funds') = Free(funds)
  BY FreeClaimed DEF claim_refund, TypeInv, BooksInv
<1>4. /\ OnlyChain(c) /\ ~InFlight(c) /\ InFlight(c)' /\ chains'[c].kind = "claim"
      /\ chains'[c].result = "pending"
  BY <1>1 DEF Fresh
<1>5. Backed(c)' /\ Due(c) = 0 /\ Due(c)' = 0
  BY <1>1, <1>4 DEF Backed, Unpaid, MintKinds, Due
<1>6. Free(funds) \in Int /\ Surplus \in Int
  BY BooksNumbers DEF Surplus
<1>7. BooksInv' /\ Surplus' = Surplus + 0 + Due(c) - 0
  BY <1>2, <1>3, <1>4, <1>5, <1>6, ChainBooks
<1> QED BY <1>5, <1>6, <1>7 DEF Even

\* A payment that comes back is owed again.
LEMMA PaymentBooks ==
    ASSUME Finite, TypeInv, TypeInv', BooksInv, NEW c \in Slots, RunPayment(c)
    PROVE  Even
<1>1. /\ InFlight(c) /\ chains[c].kind = "claim" /\ chains[c].result = "pending"
      /\ chains[c].deposit \in Nat /\ chains[c].method = "pay"
  BY PendingTyped, WhoseMethod DEF RunPayment, TypeInv
<1>2. PICK r \in {"ok", "err"} :
        /\ AnsweredWith(c, r)
        /\ funds' = IF r = "ok" THEN funds ELSE Receive(funds, chains[c].deposit)
  BY DEF RunPayment
<1>3. Replies("pay") = {"ok", "err"}
  BY DEF Replies
<1>4. GoesOn(c) /\ chains'[c].result = r /\ chains'[c].funding = chains[c].funding
  BY <1>1, <1>2, <1>3, ChainAnswered DEF TypeInv
<1>5. UNCHANGED sweep_back
  BY DEF RunPayment, unchangedByOthers, tokenVars, depositVars
<1>6. /\ OnlyChain(c) /\ InFlight(c)' /\ chains'[c].kind = "claim"
      /\ chains'[c].deposit = chains[c].deposit
  BY <1>1, <1>4 DEF GoesOn
<1>7. Backed(c)'
  BY <1>1, <1>4, <1>6 DEF BooksInv, Backed, Unpaid, MintKinds
<1>8. Free(funds) \in Int /\ Surplus \in Int /\ funds \in Funds /\ Totals(funds)
  BY BooksNumbers DEF Surplus, TypeInv, BooksInv
<1>9. PICK n \in Int : n = IF r = "ok" THEN 0 ELSE chains[c].deposit
  BY <1>1
<1>10. Totals(funds') /\ Free(funds') = Free(funds) + n
  BY <1>1, <1>2, <1>8, <1>9, FreeMoves
<1>11. Due(c) = 0 /\ Due(c)' = n
  BY <1>1, <1>4, <1>6, <1>9 DEF Due
<1>12. BooksInv' /\ Surplus' = Surplus + n + Due(c) - n
  BY <1>5, <1>6, <1>7, <1>9, <1>10, <1>11, ChainBooks
<1> QED BY <1>8, <1>9, <1>11, <1>12 DEF Even

LEMMA ClaimedBooks ==
    ASSUME Finite, TypeInv, TypeInv', BooksInv, NEW c \in Slots, on_claim_refund_settled(c)
    PROVE  Even
<1>1. /\ InFlight(c) /\ chains[c].kind = "claim" /\ chains[c].method = "pay"
      /\ chains[c].result \in Replies("pay") /\ chains[c].deposit \in Nat
      /\ chains[c].user \in Users
  BY CallbackTyped DEF on_claim_refund_settled, TypeInv, GoodChain
<1>2. chains[c].result \in {"ok", "err"}
  BY <1>1 DEF Replies
<1>3. End(c) /\ UNCHANGED sweep_back
  BY DEF on_claim_refund_settled, worldVars, tokenVars, depositVars
<1>4. PICK n : n = chains[c].deposit
  OBVIOUS
<1>5. Free(funds) \in Int /\ Surplus \in Int /\ funds \in Funds /\ Totals(funds)
  BY BooksNumbers DEF Surplus, TypeInv, BooksInv
<1>6. CASE chains[c].result = "ok"
  <2>1. Due(c) = 0 /\ Totals(funds') /\ Free(funds') = Free(funds) + 0
    BY <1>1, <1>5, <1>6 DEF Due, on_claim_refund_settled
  <2>2. BooksInv' /\ Surplus' = Surplus + 0 + Due(c)
    BY <1>3, <2>1, EndBooks
  <2> QED BY <1>5, <2>1, <2>2 DEF Even
<1>7. CASE chains[c].result = "err"
  <2>1. funds' = Refund(funds, chains[c].user, n) /\ Due(c) = n /\ n \in Nat
    BY <1>1, <1>4, <1>7 DEF Due, on_claim_refund_settled
  <2>2. Totals(funds') /\ Free(funds') = Free(funds) - n
    BY <1>1, <1>5, <2>1, FreeRefund
  <2>3. -n \in Int /\ Free(funds') = Free(funds) + (-n)
    BY <1>5, <2>1, <2>2
  <2>4. BooksInv' /\ Surplus' = Surplus + (-n) + Due(c)
    BY <1>3, <2>2, <2>3, EndBooks
  <2> QED BY <1>5, <2>1, <2>4 DEF Even
<1> QED BY <1>2, <1>6, <1>7

-----------------------------------------------------------------------------
(* The chains go on elsewhere.                                             *)

LEMMA FundingKept ==
    ASSUME TypeInv, NEW c \in Slots, InFlight(c),
           \/ \E method : Proceed(c, method)
           \/ \E result : AnsweredWith(c, result)
           \/ \E result, unread : GateAnswer(c, unread, result)
           \/ park_wallet(c)
    PROVE  chains'[c].funding = chains[c].funding
<1>1. chains \in [Slots -> ChainRecord \cup {None}] /\ chains[c] \in ChainRecord
  BY DEF TypeInv, ChainsOK, InFlight
<1> QED BY <1>1 DEF Proceed, AnsweredWith, GateAnswer, park_wallet, ChainRecord

LEMMA AnswersBooks ==
    ASSUME Finite, TypeInv, TypeInv', BooksInv, NEW c \in Slots,
           RunQuery(c) \/ RunBalances(c) \/ RunForceTransfer(c)
    PROVE  Even
<1>1. UNCHANGED <<funds, sweep_back>>
  BY DEF RunQuery, RunBalances, RunForceTransfer, unchangedByOthers, tokenVars, depositVars
<1>2. GoesOn(c)
  BY QueryType, BalancesAnswer, TransferAnswer
<1>3. /\ InFlight(c) /\ chains[c].kind \in Kind /\ chains[c].method \in MethodsOf(chains[c].kind)
      /\ chains[c].method \in {"query", "balances", "transfer"}
  BY PendingTyped DEF RunQuery, RunBalances, RunForceTransfer, TypeInv
<1>4. chains[c].kind \notin {"claim", "mint", "mint_paid"}
  BY <1>3, WhoseMethod
<1>5. chains'[c].funding = chains[c].funding
  BY <1>3, FundingKept DEF RunQuery, RunBalances, RunForceTransfer
<1> QED BY <1>1, <1>2, <1>4, <1>5, GoesOnBooks DEF MintKinds

\* What the manager gives back the registry owes again.
LEMMA GivesBackBooks ==
    ASSUME Finite, TypeInv, TypeInv', BooksInv, NEW c \in Slots, InFlight(c),
           chains[c].kind \in MintKinds, NEW r \in Replies(chains[c].method), GiveBack(c, r),
           UNCHANGED sweep_back
    PROVE  Even
<1>1. GoesOn(c) /\ chains'[c].funding = 0
  BY ChainGivesBack DEF TypeInv
<1>2. /\ OnlyChain(c) /\ InFlight(c)' /\ chains'[c].kind = chains[c].kind
      /\ chains'[c].price = chains[c].price /\ chains'[c].deposit = chains[c].deposit
  BY <1>1 DEF GoesOn
<1>3. PICK n, m : n = chains[c].deposit /\ m = chains[c].funding
  OBVIOUS
<1>4. n \in Nat /\ m \in Nat /\ chains[c].price \in Nat
  BY <1>3, ChainTyped DEF TypeInv
<1>5. Backed(c) /\ chains[c].kind # "claim" /\ chains[c].kind \notin Unpaid
  BY DEF BooksInv, MintKinds, Unpaid
<1>6. Charge(c) \in Nat /\ Charge(c)' = Charge(c)
  BY <1>2, <1>4 DEF Charge
<1>7. Backed(c)'
  BY <1>1, <1>2, <1>3, <1>4, <1>5, <1>6 DEF Backed
<1>8. Due(c) = n - m /\ Due(c)' = n
  BY <1>1, <1>2, <1>3, <1>4, <1>5 DEF Due
<1>9. funds \in Funds /\ Totals(funds) /\ Surplus \in Int /\ funds' = Receive(funds, m)
  BY <1>3, BooksNumbers DEF TypeInv, BooksInv, Surplus, GiveBack
<1>10. Totals(funds') /\ Free(funds') = Free(funds) + m
  BY <1>4, <1>9, FreeMoves
<1>11. m \in Int /\ n \in Int
  BY <1>4
<1>12. BooksInv' /\ Surplus' = Surplus + m + Due(c) - n
  BY <1>2, <1>7, <1>8, <1>10, <1>11, ChainBooks
<1> QED BY <1>8, <1>9, <1>11, <1>12 DEF Even

LEMMA ManagerBooks ==
    ASSUME Finite, TypeInv, TypeInv', BooksInv, NEW c \in Slots, ManagerStep(c)
    PROVE  Even
<1>1. UNCHANGED sweep_back
  BY DEF ManagerStep, create_sub_account, on_key_derived, on_wallet_created,
     on_signer_settled, on_creation_failed, retry_install, on_retry_key_derived,
     unchangedByManager, tokenVars, depositVars
<1>2. /\ GoesOn(c) /\ InFlight(c)
      /\ chains[c].method \in Minting \cup {"retry_install", "retry_key"}
      /\ chains[c].kind \in Kind /\ chains[c].method \in MethodsOf(chains[c].kind)
  BY ManagerType, ChainTyped DEF GoesOn, TypeInv, GoodChain
<1>3. /\ chains[c].method \in Minting => chains[c].kind \in MintKinds
      /\ chains[c].method \notin Minting => chains[c].kind \in {"reclaim", "retry"}
      /\ chains[c].kind # "claim"
  BY <1>2, WhoseMethod DEF MintKinds
<1>4. ASSUME NEW r \in Failures, GiveBack(c, r), r \in Replies(chains[c].method),
             chains[c].method \in Minting
      PROVE  Even
  BY <1>1, <1>2, <1>3, <1>4, GivesBackBooks
<1>5. ASSUME UNCHANGED funds, chains'[c].funding = chains[c].funding,
             chains[c].method \in Minting => chains'[c].result \notin Failures
      PROVE  Even
  <2>1. chains[c].kind \in MintKinds => chains[c].method \in Minting
    BY <1>3 DEF MintKinds
  <2> QED BY <1>1, <1>2, <1>3, <1>5, <2>1, GoesOnBooks
<1>6. chains \in [Slots -> ChainRecord \cup {None}] /\ chains[c] \in ChainRecord
  BY <1>2 DEF TypeInv, ChainsOK, InFlight
<1>7. /\ {"create", "derive", "account", "install", "return"} = Minting
      /\ "retry_install" \notin Minting /\ "retry_key" \notin Minting
      /\ Failures = {"err", "CreationFailed"}
      /\ Replies("create") = {"err"} /\ Replies("return") = {"CreationFailed"}
  BY DEF Minting, Failures, Replies
<1>8. ASSUME NEW m, Proceed(c, m)
      PROVE  chains'[c].funding = chains[c].funding /\ chains'[c].result \notin Failures
  BY <1>6, <1>7, <1>8 DEF Proceed, ChainRecord
<1>9. ASSUME NEW r, AnsweredWith(c, r)
      PROVE  chains'[c].funding = chains[c].funding /\ chains'[c].result = r
  BY <1>6, <1>9 DEF AnsweredWith, ChainRecord
<1>10. CASE create_sub_account(c)
  BY <1>4, <1>5, <1>7, <1>8, <1>10 DEF create_sub_account, Pending
<1>11. CASE on_key_derived(c) \/ on_wallet_created(c)
  BY <1>5, <1>8, <1>11 DEF on_key_derived, on_wallet_created
<1>12. CASE on_signer_settled(c)
  BY <1>5, <1>7, <1>9, <1>12 DEF on_signer_settled
<1>13. CASE on_creation_failed(c)
  BY <1>4, <1>7, <1>13 DEF on_creation_failed, Pending
<1>14. CASE retry_install(c) \/ on_retry_key_derived(c)
  BY <1>5, <1>7, <1>8, <1>9, <1>14 DEF retry_install, on_retry_key_derived, Pending
<1> QED BY <1>10, <1>11, <1>12, <1>13, <1>14 DEF ManagerStep

-----------------------------------------------------------------------------
(* The callbacks settle.                                                   *)

\* A chain ends and what it was owed is booked.
LEMMA SettledBooks ==
    ASSUME Finite, TypeInv, TypeInv', BooksInv, NEW c \in Slots, End(c), UNCHANGED sweep_back,
           Totals(funds'), Free(funds') = Free(funds) - Due(c)
    PROVE  Even
<1>1. Due(c) \in Int /\ Free(funds) \in Int /\ Surplus \in Int
  BY DueIs, BooksNumbers DEF Surplus
<1>2. PICK n \in Int : n = -Due(c)
  BY <1>1
<1>3. Free(funds') = Free(funds) + n
  BY <1>1, <1>2
<1>4. BooksInv' /\ Surplus' = Surplus + n + Due(c)
  BY <1>3, EndBooks
<1> QED BY <1>1, <1>2, <1>4 DEF Even

\* A chain that took no money along ends.
LEMMA UnpaidEnds ==
    ASSUME Finite, TypeInv, TypeInv', BooksInv, NEW c \in Slots, InFlight(c),
           chains[c].kind \in Unpaid, End(c), UNCHANGED <<funds, sweep_back>>
    PROVE  Even
<1>1. chains[c].deposit = 0 /\ chains[c].funding = 0 /\ chains[c].kind # "claim"
  BY DEF BooksInv, Backed, Unpaid, MintKinds
<1>2. Due(c) = 0
  BY <1>1 DEF Due
<1>3. Totals(funds') /\ Free(funds') = Free(funds) - Due(c)
  BY <1>2, BooksNumbers DEF BooksInv
<1> QED BY <1>3, SettledBooks

LEMMA UnpaidCallbacks ==
    ASSUME Finite, TypeInv, TypeInv', BooksInv, NEW c \in Slots,
           \/ on_listing_verified(c) \/ on_offer_verified(c) \/ on_sub_account_sold_paid(c)
           \/ on_retry_signer_settled(c) \/ on_reclaim_finalized(c)
    PROVE  Even
<1>1. End(c) /\ UNCHANGED <<funds, sweep_back>>
  BY DEF on_listing_verified, on_offer_verified, on_sub_account_sold_paid,
     on_retry_signer_settled, on_reclaim_finalized, worldVars, tokenVars, depositVars
<1>2. InFlight(c) /\ chains[c].kind \in {"list", "offer", "buy_paid", "retry", "reclaim"}
  BY DEF on_listing_verified, on_offer_verified, on_sub_account_sold_paid,
     on_retry_signer_settled, on_reclaim_finalized, CallbackDue
<1> QED BY <1>1, <1>2, UnpaidEnds DEF Unpaid

\* The deposit of a chain is booked back, with what had left with it back.
LEMMA BookedBack ==
    ASSUME Finite, TypeInv, TypeInv', BooksInv, NEW c \in Slots, InFlight(c), End(c),
           chains[c].kind \in {"buy", "rerent", "mint", "mint_paid"},
           chains[c].kind \in MintKinds => chains[c].result \in Failures,
           chains[c].user \in Users,
           funds' = Refund(funds, chains[c].user, chains[c].deposit), UNCHANGED sweep_back
    PROVE  Even
<1>1. chains[c].funding = 0 /\ chains[c].deposit \in Nat
  BY ChainTyped DEF TypeInv, BooksInv, Backed
<1>2. Due(c) = chains[c].deposit
  BY <1>1 DEF Due
<1>3. funds \in Funds /\ Totals(funds)
  BY DEF TypeInv, BooksInv
<1>4. Totals(funds') /\ Free(funds') = Free(funds) - chains[c].deposit
  BY <1>1, <1>3, FreeRefund
<1> QED BY <1>2, <1>4, SettledBooks

\* At the gate a chain goes on with its money, or it is booked back.
LEMMA GateBooks ==
    ASSUME Finite, TypeInv, TypeInv', BooksInv, NEW c \in Slots,
           \/ on_buy_balances_checked(c) \/ on_buy_paid_balances_checked(c)
           \/ on_re_rent_balances_checked(c) \/ on_balances_checked(c)
    PROVE  Even
<1>1. /\ InFlight(c) /\ GoodChain(chains[c]) /\ UNCHANGED sweep_back
      /\ chains[c].kind \in {"buy", "buy_paid", "rerent", "reclaim"}
  BY CallbackTyped DEF on_buy_balances_checked, on_buy_paid_balances_checked,
     on_re_rent_balances_checked, on_balances_checked, TypeInv, worldVars, tokenVars, depositVars
<1>2. chains[c].kind \notin MintKinds /\ chains[c].kind # "claim"
  BY <1>1 DEF MintKinds
<1>3. ASSUME Proceed(c, "transfer"), chains[c].kind # "reclaim", UNCHANGED funds
      PROVE  Even
  <2>1. "transfer" \in MethodsOf(chains[c].kind)
    BY <1>1, <1>3, MethodFacts
  <2>2. GoesOn(c) /\ chains'[c].funding = chains[c].funding
    BY <1>1, <1>3, <2>1, ChainProceeds DEF TypeInv
  <2> QED BY <1>1, <1>2, <1>3, <2>2, GoesOnBooks
<1>4. ASSUME park_wallet(c), chains[c].kind = "reclaim", UNCHANGED funds
      PROVE  Even
  <2>1. GoesOn(c) /\ chains'[c].funding = chains[c].funding
    BY <1>1, <1>4, ChainParks DEF TypeInv
  <2> QED BY <1>1, <1>2, <1>4, <2>1, GoesOnBooks
<1>5. ASSUME on_buy_paid_balances_checked(c) \/ on_balances_checked(c)
      PROVE  Even
  <2>1. /\ chains[c].kind \in Unpaid /\ UNCHANGED funds
        /\ \/ End(c)
           \/ Proceed(c, "transfer") /\ chains[c].kind = "buy_paid"
           \/ park_wallet(c) /\ chains[c].kind = "reclaim"
    BY <1>5 DEF on_buy_paid_balances_checked, on_balances_checked, CallbackDue, Unpaid
  <2> QED BY <1>1, <1>3, <1>4, <2>1, UnpaidEnds
<1>6. ASSUME on_buy_balances_checked(c) \/ on_re_rent_balances_checked(c)
      PROVE  Even
  <2>1. chains[c].kind \in {"buy", "rerent"} /\ chains[c].user \in Users
    BY <1>1, <1>6 DEF on_buy_balances_checked, on_re_rent_balances_checked, CallbackDue,
       GoodChain
  <2>2. \/ Proceed(c, "transfer") /\ UNCHANGED funds
        \/ End(c) /\ funds' = Refund(funds, chains[c].user, chains[c].deposit)
    BY <1>6 DEF on_buy_balances_checked, on_re_rent_balances_checked, abort_sale,
       settle_failed_mint
  <2> QED BY <1>1, <1>2, <1>3, <2>1, <2>2, BookedBack
<1> QED BY <1>5, <1>6

\* A sale: the commission, the seller's proceeds and what the buyer paid too
\* much are the deposit.
LEMMA SoldBooks ==
    ASSUME Finite, TypeInv, TypeInv', BooksInv, NEW c \in Slots, on_sub_account_sold(c)
    PROVE  Even
<1>1. /\ InFlight(c) /\ GoodChain(chains[c]) /\ chains[c].kind = "buy" /\ End(c)
      /\ chains[c].user \in Users /\ chains[c].wallet \in Wallets
      /\ chains[c].deposit \in Nat /\ chains[c].price \in Nat
  BY CallbackTyped DEF on_sub_account_sold, TypeInv, GoodChain
<1>2. UNCHANGED sweep_back /\ chains[c].kind \notin MintKinds
  BY <1>1 DEF on_sub_account_sold, worldVars, tokenVars, depositVars, MintKinds
<1>3. CASE ~Sold(chains[c])
  <2>1. funds' = Refund(funds, chains[c].user, chains[c].deposit)
    BY <1>3 DEF on_sub_account_sold
  <2> QED BY <1>1, <1>2, <2>1, BookedBack
<1>4. CASE Sold(chains[c])
  <2>1. PICK n, p, bps, u, b :
          /\ n = chains[c].deposit /\ p = chains[c].price /\ b = chains[c].user
          /\ bps = fee_config.resale_commission_bps /\ u = sub_accounts[chains[c].wallet].owner
    OBVIOUS
  <2>2. n \in Nat /\ p \in Nat /\ bps \in Nat /\ u \in Users /\ b \in Users
    BY <1>1, <1>4, <2>1, FeeFields, NameFields DEF TypeInv, Sold
  <2>3. p <= n /\ chains[c].funding = 0 /\ Due(c) = n
    <3>1. Backed(c) /\ Charge(c) = p
      BY <1>1, <2>1 DEF BooksInv, Charge
    <3>2. chains[c].funding = 0 /\ p + chains[c].funding <= n
      BY <1>1, <1>2, <2>1, <3>1 DEF Backed
    <3> QED BY <1>1, <2>1, <2>2, <3>2 DEF Due
  <2>4. PICK x, y : x = Commission(p, bps) /\ y = SellerProceeds(p, bps)
    OBVIOUS
  <2>5. x \in Nat /\ y \in Nat /\ x + y = p
    BY <2>2, <2>4, ResaleSplit
  <2>6. PICK f, g : f = Earn(funds, x) /\ g = Refund(f, u, y)
    OBVIOUS
  <2>7. f \in Funds /\ Totals(f) /\ Free(f) = Free(funds) - x /\ Free(funds) \in Int
    BY <2>5, <2>6, FundsMove, FreeMoves, FreeIsInt DEF TypeInv, BooksInv
  <2>8. g \in Funds /\ Totals(g) /\ Free(g) = Free(f) - y
    BY <2>2, <2>5, <2>6, <2>7, FundsRefund, FreeRefund
  <2>9. funds' = refund_excess(g, b, n, p)
    BY <1>4, <2>1, <2>4, <2>6 DEF on_sub_account_sold, SettledFunds
  <2>10. Totals(funds') /\ Free(funds') = Free(g) - (n - p)
    BY <2>2, <2>3, <2>8, <2>9, FreeExcess
  <2>11. Free(funds') = Free(funds) - Due(c)
    BY <2>2, <2>3, <2>5, <2>7, <2>8, <2>10
  <2> QED BY <1>1, <1>2, <2>10, <2>11, SettledBooks
<1> QED BY <1>3, <1>4

\* A deposit that is charged when the chain settles.
LEMMA FreeSettled ==
    ASSUME Finite, NEW f \in Funds, NEW u \in Users, NEW n \in Nat, NEW m \in Nat,
           NEW x \in Nat, Totals(f)
    PROVE  /\ Totals(refund_excess(Earn(f, m), u, n, x))
           /\ Free(refund_excess(Earn(f, m), u, n, x))
                = Free(f) - m - (IF n >= x THEN n - x ELSE 0)
<1>1. PICK g, h : g = Earn(f, m) /\ h = refund_excess(g, u, n, x)
  OBVIOUS
<1>2. g \in Funds /\ Totals(g) /\ Free(g) = Free(f) - m
  BY <1>1, FundsMove, FreeMoves
<1>3. Totals(h) /\ Free(h) = Free(g) - (IF n >= x THEN n - x ELSE 0)
  BY <1>1, <1>2, FreeExcess
<1> QED BY <1>1, <1>2, <1>3

LEMMA ReRentedBooks ==
    ASSUME Finite, TypeInv, TypeInv', BooksInv, NEW c \in Slots, on_sub_account_re_rented(c)
    PROVE  Even
<1>1. /\ InFlight(c) /\ GoodChain(chains[c]) /\ chains[c].kind = "rerent" /\ End(c)
      /\ chains[c].user \in Users /\ chains[c].deposit \in Nat /\ chains[c].price \in Nat
  BY CallbackTyped DEF on_sub_account_re_rented, TypeInv, GoodChain
<1>2. UNCHANGED sweep_back /\ chains[c].kind \notin MintKinds
  BY <1>1 DEF on_sub_account_re_rented, worldVars, tokenVars, depositVars, MintKinds
<1>3. CASE chains[c].result = "err"
  <2>1. funds' = Refund(funds, chains[c].user, chains[c].deposit)
    BY <1>3 DEF on_sub_account_re_rented, settle_failed_mint
  <2> QED BY <1>1, <1>2, <2>1, BookedBack
<1>4. CASE chains[c].result # "err"
  <2>1. PICK n, p, b : n = chains[c].deposit /\ p = chains[c].price /\ b = chains[c].user
    OBVIOUS
  <2>2. n \in Nat /\ p \in Nat /\ b \in Users /\ funds \in Funds /\ Totals(funds)
        /\ Free(funds) \in Int
    BY <1>1, <2>1, FreeIsInt DEF TypeInv, BooksInv
  <2>3. p <= n /\ Due(c) = n
    <3>1. Backed(c) /\ Charge(c) = p
      BY <1>1, <2>1 DEF BooksInv, Charge
    <3>2. chains[c].funding = 0 /\ p + chains[c].funding <= n
      BY <1>1, <1>2, <2>1, <3>1 DEF Backed
    <3> QED BY <1>1, <2>1, <2>2, <3>2 DEF Due
  <2>4. funds' = refund_excess(Earn(funds, p), b, n, p)
    BY <1>4, <2>1 DEF on_sub_account_re_rented
  <2>5. Totals(funds') /\ Free(funds') = Free(funds) - p - (n - p)
    BY <2>2, <2>3, <2>4, FreeSettled
  <2>6. Free(funds') = Free(funds) - Due(c)
    BY <2>2, <2>3, <2>5
  <2> QED BY <1>1, <1>2, <2>5, <2>6, SettledBooks
<1> QED BY <1>3, <1>4

-----------------------------------------------------------------------------
(* The mint, which is charged for at the price of the day.                 *)

\* The callback of a mint that created the wallet.
Records(c) ==
    /\ InFlight(c) /\ chains[c].kind \in MintKinds
    /\ chains[c].result \in {"Active", "SignerPending"}
    /\ RecordRental(c) /\ End(c) /\ UNCHANGED worldVars

LEMMA CreatedIs ==
    ASSUME TypeInv, NEW c \in Slots, on_sub_account_created(c) \/ on_sub_account_created_paid(c)
    PROVE  /\ InFlight(c) /\ chains[c].kind \in MintKinds /\ End(c) /\ UNCHANGED worldVars
           /\ chains[c].user \in Users /\ chains[c].wallet \in Wallets
           /\ \/ Records(c)
              \/ chains[c].result \in Failures /\ settle_failed_mint(c)
<1>1. PICK kind \in MintKinds : Created(c, kind)
  BY DEF on_sub_account_created, on_sub_account_created_paid, MintKinds
<1>2. /\ InFlight(c) /\ GoodChain(chains[c]) /\ chains[c].kind = kind
      /\ chains[c].method \in {"create", "install", "return"}
      /\ chains[c].result \in Replies(chains[c].method) /\ End(c) /\ UNCHANGED worldVars
  BY <1>1, CallbackTyped DEF Created, TypeInv
<1>3. chains[c].user \in Users /\ chains[c].wallet \in Wallets
  BY <1>2 DEF GoodChain, MintKinds
<1>4. chains[c].result \in Failures \cup {"Active", "SignerPending"}
  BY <1>2 DEF Replies, Failures
<1>5. chains[c].result \in {"Active", "SignerPending"} => RecordRental(c)
  BY <1>1 DEF Created
<1>6. chains[c].result \notin {"Active", "SignerPending"} => settle_failed_mint(c)
  BY <1>1 DEF Created
<1> QED BY <1>2, <1>3, <1>4, <1>5, <1>6 DEF Records

LEMMA FailedBooks ==
    ASSUME Finite, TypeInv, TypeInv', BooksInv, NEW c \in Slots, InFlight(c), End(c),
           chains[c].kind \in MintKinds, chains[c].user \in Users,
           chains[c].result \in Failures, settle_failed_mint(c), UNCHANGED worldVars
    PROVE  Even
<1>1. funds' = Refund(funds, chains[c].user, chains[c].deposit) /\ UNCHANGED sweep_back
  BY DEF settle_failed_mint, worldVars, tokenVars, depositVars
<1>2. chains[c].kind \in {"buy", "rerent", "mint", "mint_paid"}
  BY DEF MintKinds
<1> QED BY <1>1, <1>2, BookedBack

\* Nothing is missing if no more had left than the amount of the day, and
\* nothing is left over if it is the same and the name is there.
LEMMA RecordedBooks ==
    ASSUME Finite, TypeInv, TypeInv', BooksInv, NEW c \in Slots, Records(c),
           chains[c].user \in Users
    PROVE  LET D == fee_config.account_creation_deposit
           IN  /\ BooksInv' /\ Surplus' \in Int
               /\ chains[c].funding <= D => Surplus' >= Surplus
               /\ chains[c].funding = D /\ Rented(chains[c].wallet) => Surplus' = Surplus
<1>1. PICK n, m, D, rent, b :
        /\ n = chains[c].deposit /\ m = chains[c].funding /\ b = chains[c].user
        /\ D = fee_config.account_creation_deposit
        /\ rent = IF chains[c].kind = "mint" THEN chains[c].price ELSE 0
  OBVIOUS
<1>2. /\ InFlight(c) /\ chains[c].kind \in MintKinds /\ chains[c].kind # "claim" /\ End(c)
      /\ UNCHANGED sweep_back
  BY DEF Records, MintKinds, worldVars, tokenVars, depositVars
<1>3. n \in Nat /\ m \in Nat /\ D \in Nat /\ rent \in Nat
  BY <1>1, <1>2, ChainTyped, FeeFields DEF TypeInv
<1>4. rent + m <= n
  <2>1. Backed(c) /\ Charge(c) = rent
    BY <1>1, <1>2 DEF BooksInv, Charge, MintKinds
  <2> QED BY <1>1, <1>2, <2>1 DEF Backed
<1>5. Due(c) = n - m
  BY <1>1, <1>2 DEF Due
<1>6. funds \in Funds /\ Totals(funds) /\ Free(funds) \in Int /\ Surplus \in Int
  BY BooksNumbers DEF TypeInv, BooksInv, Surplus
<1>7. CASE Rented(chains[c].wallet)
  <2>1. funds' = refund_excess(Earn(funds, rent), b, n, rent + D) /\ rent + D \in Nat
    BY <1>1, <1>3, <1>7 DEF Records, RecordRental
  <2>2. PICK e : e = IF n >= rent + D THEN n - (rent + D) ELSE 0
    OBVIOUS
  <2>3. e \in Int
    BY <1>3, <2>2
  <2>4. Totals(funds') /\ Free(funds') = Free(funds) - rent - e
    BY <1>1, <1>3, <1>6, <2>1, <2>2, FreeSettled
  <2> DEFINE y == 0 - rent - e
  <2>y. y \in Int
    BY <1>3, <2>3
  <2>5. PICK x \in Int : x = 0 - rent - e
    BY <2>y
  <2>6. Free(funds') = Free(funds) + x
    BY <1>3, <1>6, <2>3, <2>4, <2>5
  <2>7. BooksInv' /\ Surplus' = Surplus + x + Due(c)
    BY <1>2, <2>4, <2>6, EndBooks
  <2>8. Surplus' \in Int /\ (m <= D => Surplus' >= Surplus) /\ (m = D => Surplus' = Surplus)
    BY <1>3, <1>4, <1>5, <1>6, <2>2, <2>3, <2>5, <2>7
  <2> QED BY <1>1, <2>7, <2>8
<1>8. CASE ~Rented(chains[c].wallet)
  <2>1. UNCHANGED funds
    BY <1>8 DEF Records, RecordRental
  <2>2. Totals(funds') /\ Free(funds') = Free(funds) + 0
    BY <1>6, <2>1
  <2>3. BooksInv' /\ Surplus' = Surplus + 0 + Due(c)
    BY <1>2, <2>2, EndBooks
  <2>4. Surplus' \in Int /\ Surplus' >= Surplus
    BY <1>3, <1>4, <1>5, <1>6, <2>3
  <2> QED BY <1>8, <2>3, <2>4
<1> QED BY <1>7, <1>8

-----------------------------------------------------------------------------
(* Every step.                                                             *)

LEMMA ReceiptBooks ==
    ASSUME Finite, TypeInv, TypeInv', BooksInv, NEW c \in Slots, RunReceipt(c)
    PROVE  Even \/ (Records(c) /\ chains[c].user \in Users)
<1>1. CASE RunExternal(c)
  BY <1>1, AnswersBooks, PaymentBooks, ManagerBooks DEF RunExternal
<1>2. CASE on_sub_account_created(c) \/ on_sub_account_created_paid(c)
  BY <1>2, CreatedIs, FailedBooks
<1>3. CASE \/ on_listing_verified(c) \/ on_offer_verified(c) \/ on_sub_account_sold_paid(c)
           \/ on_retry_signer_settled(c) \/ on_reclaim_finalized(c)
  BY <1>3, UnpaidCallbacks
<1>4. CASE \/ on_buy_balances_checked(c) \/ on_buy_paid_balances_checked(c)
           \/ on_re_rent_balances_checked(c) \/ on_balances_checked(c)
  BY <1>4, GateBooks
<1>5. CASE on_sub_account_sold(c) \/ on_sub_account_re_rented(c) \/ on_claim_refund_settled(c)
  BY <1>5, SoldBooks, ReRentedBooks, ClaimedBooks
<1> QED BY <1>1, <1>2, <1>3, <1>4, <1>5 DEF RunReceipt, RunCallback

LEMMA KeepBooks ==
    ASSUME Finite, TypeInv, TypeInv', BooksInv, KeepName
    PROVE  Even
<1>1. PICK u \in Users, w \in Wallets :
        \/ \E paid \in Payments : renew_sub_account(u, w, paid)
        \/ \E m \in Accounts : set_main_wallet(u, w, m)
        \/ \E c \in Slots : retry_signer_install(c, u, w)
  BY DEF KeepName
<1>2. CASE \E m \in Accounts : set_main_wallet(u, w, m)
  BY <1>2, NoMoneyMoves, NothingBooked DEF Moneyless
<1> QED BY <1>1, <1>2, RenewBooks, RetryBooks

LEMMA WorldBooks ==
    ASSUME Finite, TypeInv, TypeInv', BooksInv, TokenStep \/ Tick
    PROVE  Even
<1>1. CASE Tick
  BY <1>1, TickMarks, MarkedBooks DEF Tick, tokenVars, depositVars
<1>2. ASSUME NEW w \in Wallets, NEW token \in Tokens, TokenLeaves(w, token)
      PROVE  Even
  BY <1>2, LeavesMarks, MarkedBooks DEF TokenLeaves, depositVars
<1>3. CASE \E w \in Wallets, token \in Tokens : TokenArrives(w, token)
  BY <1>3, NoMoneyMoves, NothingBooked DEF Moneyless
<1> QED BY <1>1, <1>2, <1>3 DEF TokenStep

LEMMA RequestBooks ==
    ASSUME Finite, TypeInv, TypeInv', BooksInv,
           Trade \/ RentName \/ RunTla \/ Reclaiming \/ Claiming \/ AdminMoney
    PROVE  Even
<1>1. CASE Trade
  BY <1>1, TradeBooks DEF Trade
<1>2. CASE RentName
  BY <1>2, RentBooks, RentPaidBooks DEF RentName
<1>3. CASE RunTla
  BY <1>3, TlaBooks DEF RunTla
<1>4. CASE Reclaiming
  BY <1>4, ReclaimBooks DEF Reclaiming
<1>5. CASE Claiming
  BY <1>5, ClaimBooks DEF Claiming
<1>6. CASE AdminMoney
  BY <1>6, WithdrawBooks DEF AdminMoney
<1> QED BY <1>1, <1>2, <1>3, <1>4, <1>5, <1>6

\* The books stay as they are but for the mints that are recorded.
LEMMA MoneyStep ==
    ASSUME Finite, TypeInv, TypeInv', BooksInv, [RegistryNext]_registryVars
    PROVE  Even \/ \E c \in Slots : Records(c) /\ chains[c].user \in Users
<1>1. CASE Receipts
  BY <1>1, ReceiptBooks DEF Receipts
<1>2. CASE KeepName \/ TokenStep \/ Tick \/ Sweeping
  BY <1>2, KeepBooks, WorldBooks, SweepBooks
<1>3. CASE Trade \/ RentName \/ RunTla \/ Reclaiming \/ Claiming \/ AdminMoney
  BY <1>3, RequestBooks
<1>4. CASE \/ Withdrawal \/ Retract \/ Anchor \/ AdminRoles \/ AdminConfig \/ AdminTlas
           \/ AdminOverrides \/ RecoveryStep \/ HaltStep \/ UNCHANGED registryVars
  BY <1>4, NoMoneyMoves, NothingBooked DEF Moneyless
<1> QED BY <1>1, <1>2, <1>3, <1>4 DEF RegistryNext

-----------------------------------------------------------------------------
(* What left with a mint is the creation deposit of the day it started.    *)

\* The mint holds what it held, or starts with the deposit in force.
Holds(c) ==
    \/ Minted(c) /\ chains'[c].funding = chains[c].funding
    \/ /\ ~InFlight(c) /\ UNCHANGED fee_config
       /\ chains'[c].funding = fee_config.account_creation_deposit

MintsHold == \A c \in Slots : Minted(c)' => Holds(c)

LEMMA MintsSame ==
    ASSUME UNCHANGED chains
    PROVE  MintsHold
BY DEF MintsHold, Holds, Minted, InFlight

LEMMA MintsMarked ==
    ASSUME \A c \in Slots : (InFlight(c)' <=> InFlight(c)) /\ (InFlight(c) => Marked(c))
    PROVE  MintsHold
BY DEF MintsHold, Holds, Minted, Marked

LEMMA MintsOne ==
    ASSUME NEW c \in Slots, OnlyChain(c), Minted(c)' => Holds(c)
    PROVE  MintsHold
BY DEF MintsHold, Holds, Minted, InFlight, OnlyChain

LEMMA MintsOther ==
    ASSUME NEW c \in Slots, NEW kind, kind \notin MintKinds, NEW method, NEW w,
           Fresh(c, kind, method, w)
    PROVE  MintsHold
<1>1. OnlyChain(c) /\ chains'[c].kind = kind
  BY DEF Fresh
<1>2. ~Minted(c)'
  BY <1>1 DEF Minted
<1> QED BY <1>1, <1>2, MintsOne

LEMMA RentMints ==
    ASSUME TypeInv, RentName
    PROVE  MintsHold
<1>1. PICK c \in Slots, u \in Users, w \in Wallets, k \in Keys, m \in Accounts,
           paid \in Payments :
             rent_sub_account(c, u, w, k, m, paid) \/ rent_sub_account_paid(c, u, w, k, m, paid)
  BY DEF RentName
<1>2. "rerent" \notin MintKinds
  BY DEF MintKinds
<1>3. CASE rent_sub_account(c, u, w, k, m, paid)
  <2>1. CASE w \in parked_names
    BY <1>2, <1>3, <2>1, RentStarts, MintsOther
  <2>2. CASE w \notin parked_names
    <3>1. /\ Fresh(c, "mint", "create", w)
          /\ chains'[c].funding = fee_config.account_creation_deposit
      BY <1>3, <2>2, RentStarts
    <3>2. UNCHANGED fee_config
      BY <1>3 DEF rent_sub_account, configVars
    <3> QED BY <3>1, <3>2, MintsOne DEF Fresh, Holds
  <2> QED BY <2>1, <2>2
<1>4. CASE rent_sub_account_paid(c, u, w, k, m, paid)
  <2>1. /\ Fresh(c, "mint_paid", "create", w)
        /\ chains'[c].funding = fee_config.account_creation_deposit
    BY <1>4, RentPaidStarts
  <2>2. UNCHANGED fee_config
    BY <1>4 DEF rent_sub_account_paid, configVars
  <2> QED BY <2>1, <2>2, MintsOne DEF Fresh, Holds
<1> QED BY <1>1, <1>3, <1>4

LEMMA RequestMints ==
    ASSUME TypeInv,
           \/ Trade \/ Reclaiming \/ Claiming
           \/ \E c \in Slots, u \in Users, w \in Wallets : retry_signer_install(c, u, w)
    PROVE  MintsHold
<1>0. {"list", "offer", "buy", "buy_paid", "reclaim", "claim", "retry"} \cap MintKinds = {}
  BY DEF MintKinds
<1>1. CASE Trade
  <2>1. PICK c \in Slots, u \in Users, w \in Wallets, k \in Keys :
          Advertise(c, u, w, k) \/ Purchase(c, u, w, k)
    BY <1>1 DEF Trade
  <2>2. ASSUME NEW p \in Prices, list_sub_account(c, u, w, p, k)
        PROVE  MintsHold
    BY <1>0, <2>2, ListStarts, MintsOther
  <2>3. ASSUME NEW p \in Prices, NEW b \in Users, accept_offer(c, u, w, b, p, k)
        PROVE  MintsHold
    BY <1>0, <2>3, OfferStarts, MintsOther
  <2>4. ASSUME NEW paid \in Payments, buy_sub_account(c, u, w, k, paid)
        PROVE  MintsHold
    BY <1>0, <2>4, BuyStarts, MintsOther
  <2>5. ASSUME NEW b \in Users, buy_sub_account_paid(c, u, b, w, k)
        PROVE  MintsHold
    BY <1>0, <2>5, BuyPaidStarts, MintsOther
  <2> QED BY <2>1, <2>2, <2>3, <2>4, <2>5 DEF Advertise, Purchase
<1>2. CASE Reclaiming
  BY <1>0, <1>2, ReclaimStarts, MintsOther DEF Reclaiming
<1>3. CASE Claiming
  BY <1>0, <1>3, ClaimStarts, MintsOther DEF Claiming
<1>4. ASSUME NEW c \in Slots, NEW u \in Users, NEW w \in Wallets, retry_signer_install(c, u, w)
      PROVE  MintsHold
  BY <1>0, <1>4, RetryStarts, MintsOther
<1> QED BY <1>1, <1>2, <1>3, <1>4

LEMMA CallbackMints ==
    ASSUME TypeInv, NEW c \in Slots, RunCallback(c)
    PROVE  MintsHold
<1>1. CASE Ends(c)
  BY <1>1, MintsOne DEF Ends, Minted
<1>2. CASE Passes(c)
  <2>1. /\ OnlyChain(c) /\ InFlight(c) /\ chains'[c].kind = chains[c].kind
        /\ chains[c].method = "balances"
    BY <1>2 DEF Passes, GoesOn
  <2>2. chains[c].kind \in Kind /\ chains[c].method \in MethodsOf(chains[c].kind)
    BY <2>1, ChainTyped DEF TypeInv, GoodChain
  <2>3. chains[c].kind \notin MintKinds
    BY <2>1, <2>2, WhoseMethod DEF MintKinds
  <2> QED BY <2>1, <2>3, MintsOne DEF Minted
<1> QED BY <1>1, <1>2, CallbackChain

\* The manager keeps the deposit or gives it back with the failure.
LEMMA ManagerMints ==
    ASSUME TypeInv, NEW c \in Slots, ManagerStep(c)
    PROVE  MintsHold
<1>1. GoesOn(c) /\ OnlyChain(c) /\ InFlight(c) /\ chains'[c].kind = chains[c].kind
  BY ManagerType DEF GoesOn
<1>2. chains \in [Slots -> ChainRecord \cup {None}] /\ chains[c] \in ChainRecord
  BY <1>1 DEF TypeInv, ChainsOK, InFlight
<1>3. chains[c].result = "pending" /\ "pending" \notin Failures
  BY DEF ManagerStep, create_sub_account, on_key_derived, on_wallet_created, on_signer_settled,
     on_creation_failed, retry_install, on_retry_key_derived, Pending, Failures
<1>4. chains[c].kind \in MintKinds => Minted(c)
  BY <1>1, <1>3 DEF Minted
<1>5. ASSUME NEW m, Proceed(c, m)
      PROVE  chains'[c].funding = chains[c].funding
  BY <1>2, <1>5 DEF Proceed, ChainRecord
<1>6. ASSUME NEW r, AnsweredWith(c, r)
      PROVE  chains'[c].funding = chains[c].funding
  BY <1>2, <1>6 DEF AnsweredWith, ChainRecord
<1>7. ASSUME NEW r \in Failures, GiveBack(c, r)
      PROVE  chains'[c].result \in Failures
  BY <1>2, <1>7 DEF GiveBack, ChainRecord
<1>8. chains'[c].funding = chains[c].funding \/ chains'[c].result \in Failures
  <2>1. "err" \in Failures /\ "CreationFailed" \in Failures
    BY DEF Failures
  <2> QED BY <1>5, <1>6, <1>7, <2>1 DEF ManagerStep, create_sub_account, on_key_derived,
          on_wallet_created, on_signer_settled, on_creation_failed, retry_install,
          on_retry_key_derived
<1>9. Minted(c)' => Holds(c)
  BY <1>1, <1>4, <1>8 DEF Minted, Holds
<1> QED BY <1>1, <1>9, MintsOne

LEMMA ExternalMints ==
    ASSUME TypeInv, NEW c \in Slots, RunExternal(c)
    PROVE  MintsHold
<1>1. CASE RunQuery(c) \/ RunBalances(c) \/ RunForceTransfer(c) \/ RunPayment(c)
  <2>1. GoesOn(c)
    BY <1>1, ExternalChain, BalancesAnswer DEF MovesOn
  <2>2. /\ OnlyChain(c) /\ chains'[c].kind = chains[c].kind
        /\ chains[c].kind \in Kind /\ chains[c].method \in MethodsOf(chains[c].kind)
        /\ chains[c].method \in {"query", "balances", "transfer", "pay"}
    BY <1>1, <2>1, PendingTyped
       DEF GoesOn, RunQuery, RunBalances, RunForceTransfer, RunPayment, TypeInv
  <2>3. chains[c].kind \notin MintKinds
    BY <2>2, WhoseMethod DEF MintKinds
  <2> QED BY <2>2, <2>3, MintsOne DEF Minted
<1> QED BY <1>1, ManagerMints DEF RunExternal

LEMMA MintStep ==
    ASSUME TypeInv, [RegistryNext]_registryVars
    PROVE  MintsHold
<1>1. CASE UNCHANGED registryVars
  BY <1>1, MintsSame DEF registryVars
<1>2. CASE KeepName
  BY <1>2, QuietChains, MintsSame, RequestMints DEF KeepName
<1>3. CASE Receipts
  BY <1>3, CallbackMints, ExternalMints DEF Receipts, RunReceipt
<1>4. CASE TokenStep
  <2>1. ASSUME NEW w \in Wallets, NEW token \in Tokens, TokenArrives(w, token)
        PROVE  MintsHold
    BY <2>1, MintsSame DEF TokenArrives
  <2>2. ASSUME NEW w \in Wallets, NEW token \in Tokens, TokenLeaves(w, token)
        PROVE  MintsHold
    BY <2>2, LeavesMarks, MintsMarked
  <2> QED BY <1>4, <2>1, <2>2 DEF TokenStep
<1>5. CASE Tick
  BY <1>5, TickMarks, MintsMarked
<1>6. CASE RentName \/ Trade \/ Reclaiming \/ Claiming
  BY <1>6, RentMints, RequestMints
<1>7. CASE \/ Withdrawal \/ RunTla \/ Retract \/ Anchor \/ Sweeping
           \/ AdminRoles \/ AdminConfig \/ AdminTlas \/ AdminOverrides \/ AdminMoney
           \/ RecoveryStep \/ HaltStep
  BY <1>7, QuietChains, MintsSame
<1> QED BY <1>1, <1>2, <1>3, <1>4, <1>5, <1>6, <1>7 DEF RegistryNext

-----------------------------------------------------------------------------
(* The hypotheses on what admins do, and the theorems.                     *)

\* While a mint holds its deposit, update_fee_config leaves the creation
\* deposit as it is.
DepositKept ==
    (\E c \in Slots : Minted(c)) =>
        fee_config'.account_creation_deposit = fee_config.account_creation_deposit

MintsExact ==
    \A c \in Slots : Minted(c) => chains[c].funding = fee_config.account_creation_deposit

MintsWithin ==
    \A c \in Slots : Minted(c) => chains[c].funding <= fee_config.account_creation_deposit

LEMMA MintsExactStep ==
    ASSUME TypeInv, MintsExact, [RegistryNext]_registryVars, DepositKept
    PROVE  MintsExact'
<1> SUFFICES ASSUME NEW c \in Slots, Minted(c)'
             PROVE  chains'[c].funding = fee_config'.account_creation_deposit
  BY DEF MintsExact
<1>1. Holds(c)
  BY MintStep DEF MintsHold
<1> QED BY <1>1 DEF Holds, MintsExact, DepositKept

LEMMA MintsWithinStep ==
    ASSUME TypeInv, TypeInv', MintsWithin, [RegistryNext]_registryVars, DepositNotLowered
    PROVE  MintsWithin'
<1> SUFFICES ASSUME NEW c \in Slots, Minted(c)'
             PROVE  chains'[c].funding <= fee_config'.account_creation_deposit
  BY DEF MintsWithin
<1>1. Holds(c)
  BY MintStep DEF MintsHold
<1>2. PICK D, E : D = fee_config.account_creation_deposit /\ E = fee_config'.account_creation_deposit
  OBVIOUS
<1>3. D \in Nat /\ E \in Nat
  BY <1>2, FeeFields, RegistryConstants DEF TypeInv, ConfigOK, FeeConfig
<1>4. CASE Minted(c) /\ chains'[c].funding = chains[c].funding
  <2>1. chains[c].funding \in Nat
    BY <1>4, ChainTyped DEF TypeInv, Minted
  <2>2. chains[c].funding <= D /\ D <= E
    BY <1>2, <1>3, <1>4 DEF MintsWithin, DepositNotLowered
  <2> QED BY <1>2, <1>3, <1>4, <2>1, <2>2
<1>5. CASE ~Minted(c) \/ chains'[c].funding # chains[c].funding
  BY <1>1, <1>2, <1>3, <1>5 DEF Holds
<1> QED BY <1>4, <1>5

\* An override is never forgotten.
LEMMA OverridesStay ==
    ASSUME [RegistryNext]_registryVars
    PROVE  overridden \subseteq overridden'
<1>1. CASE AdminOverrides
  BY <1>1, OverridesGrow
<1>2. CASE Trade \/ Withdrawal
  <2>1. CASE Withdrawal
    BY <2>1 DEF Withdrawal, unlist_sub_account, revoke_offer, worldVars
  <2>2. ASSUME NEW c \in Slots, NEW u \in Users, NEW w \in Wallets, NEW k \in Keys
        PROVE  /\ Advertise(c, u, w, k) => UNCHANGED overridden
               /\ Purchase(c, u, w, k) => UNCHANGED overridden
    <3>1. Advertise(c, u, w, k) => UNCHANGED overridden
      BY DEF Advertise, list_sub_account, accept_offer, worldVars
    <3>2. Purchase(c, u, w, k) => UNCHANGED overridden
      BY DEF Purchase, buy_sub_account, buy_sub_account_paid, worldVars
    <3> QED BY <3>1, <3>2
  <2> QED BY <1>2, <2>1, <2>2 DEF Trade
<1>3. CASE RentName \/ KeepName
  <2>1. ASSUME NEW c \in Slots, NEW u \in Users, NEW w \in Wallets, NEW k \in Keys,
               NEW m \in Accounts, NEW paid \in Payments
        PROVE  /\ rent_sub_account(c, u, w, k, m, paid) => UNCHANGED overridden
               /\ rent_sub_account_paid(c, u, w, k, m, paid) => UNCHANGED overridden
    BY DEF rent_sub_account, rent_sub_account_paid, worldVars
  <2>2. ASSUME NEW u \in Users, NEW w \in Wallets
        PROVE  /\ \A m \in Accounts : set_main_wallet(u, w, m) => UNCHANGED overridden
               /\ \A c \in Slots : retry_signer_install(c, u, w) => UNCHANGED overridden
    BY DEF set_main_wallet, retry_signer_install, worldVars
  <2>3. ASSUME NEW u \in Users, NEW w \in Wallets, NEW paid \in Payments
        PROVE  renew_sub_account(u, w, paid) => UNCHANGED overridden
    BY DEF renew_sub_account, worldVars
  <2> QED BY <1>3, <2>1, <2>2, <2>3 DEF RentName, KeepName
<1>4. CASE RunTla
  BY <1>4 DEF RunTla, activate_tla, renew_tla, worldVars
<1>5. CASE Retract \/ Anchor \/ Reclaiming \/ Sweeping \/ Claiming
  BY <1>5 DEF Retract, schedule_retraction, cancel_retraction, SetRetraction, Anchor, set_mother,
     Reclaiming, reclaim_finalize, Sweeping, reclaim_sweep_ft, RunSweep, Claiming, claim_refund,
     worldVars
<1>6. CASE AdminRoles \/ AdminMoney
  BY <1>6 DEF AdminRoles, pause, unpause, add_admin, remove_admin, add_payment_authority,
     remove_payment_authority, SetRoles, AdminMoney, withdraw, worldVars
<1>7. CASE AdminConfig \/ AdminTlas
  <2>1. CASE AdminConfig
    BY <2>1 DEF AdminConfig, update_fee_config, set_parked_signer_pubkey, add_ft_allowlist,
       remove_ft_allowlist, set_business_sub_cap, Configure, worldVars
  <2>2. CASE AdminTlas
    BY <2>2 DEF AdminTlas, register_tla, suspend_tla, unsuspend_tla, activate_open_tla, SetTla,
       worldVars
  <2> QED BY <1>7, <2>1, <2>2
<1>8. ASSUME NEW c \in Slots, RunExternal(c)
      PROVE  UNCHANGED overridden
  BY <1>8 DEF RunExternal, RunQuery, RunBalances, RunForceTransfer, RunPayment, ManagerStep,
     create_sub_account, on_key_derived, on_wallet_created, on_signer_settled,
     on_creation_failed, retry_install, on_retry_key_derived, unchangedByOthers,
     unchangedByManager
<1>9. ASSUME NEW c \in Slots, RunCallback(c)
      PROVE  UNCHANGED overridden
  BY <1>9 DEF RunCallback, on_listing_verified, on_offer_verified, on_buy_balances_checked,
     on_buy_paid_balances_checked, on_sub_account_sold, on_sub_account_sold_paid,
     on_sub_account_created, on_sub_account_created_paid, Created, on_re_rent_balances_checked,
     on_sub_account_re_rented, on_retry_signer_settled, on_balances_checked,
     on_reclaim_finalized, on_claim_refund_settled, worldVars
<1>10. CASE RecoveryStep \/ HaltStep \/ TokenStep \/ Tick \/ UNCHANGED registryVars
  BY <1>10 DEF RecoveryStep, HaltStep, unchangedByOthers, TokenStep, TokenArrives,
     TokenLeaves, Tick, registryVars, worldVars
<1> QED BY <1>1, <1>2, <1>3, <1>4, <1>5, <1>6, <1>7, <1>8, <1>9, <1>10
        DEF RegistryNext, Receipts, RunReceipt

-----------------------------------------------------------------------------

LEMMA FiniteMoney ==
    ASSUME IsFiniteSet(Users), IsFiniteSet(Wallets), IsFiniteSet(Slots)
    PROVE  Finite
BY FS_Union DEF Finite, Accounts

LEMMA MoneyInit ==
    ASSUME Finite, RegistryInit
    PROVE  BooksInv /\ Surplus = 0 /\ \A c \in Slots : ~Minted(c)
<1>1. PICK f : f = [a \in Accounts |-> 0]
  OBVIOUS
<1>2. f \in [Accounts -> Int] /\ \A a \in Accounts : f[a] = 0
  BY <1>1
<1>3. SumFunction(f) = 0
  BY <1>2, SumOfZeros DEF Finite
<1>4. funds = [refunds |-> f, total_refunds |-> 0, revenue |-> 0, balance |-> 0]
      /\ sweep_back = 0 /\ \A c \in Slots : ~InFlight(c)
  BY <1>1 DEF RegistryInit, EmptyBooks, DepositsInit, InFlight
<1>5. PICK g : g = [c \in Slots |-> Due(c)]
  OBVIOUS
<1>6. g \in [Slots -> Int] /\ \A c \in Slots : g[c] = 0
  BY <1>4, <1>5 DEF Due
<1>7. SumFunction(g) = 0
  BY <1>6, SumOfZeros DEF Finite
<1>8. BooksInv
  BY <1>3, <1>4 DEF BooksInv, Totals
<1>9. Surplus = 0
  BY <1>4, <1>5, <1>7 DEF Surplus, Free, Owed
<1> QED BY <1>4, <1>8, <1>9 DEF Minted

\* The books stay true whatever the admins do.
LEMMA BooksStep ==
    ASSUME Finite, TypeInv, TypeInv', BooksInv, [RegistryNext]_registryVars
    PROVE  BooksInv'
BY MoneyStep, RecordedBooks DEF Even

LEMMA SurplusStep ==
    ASSUME Finite, TypeInv, TypeInv', BooksInv, MintsWithin, Surplus >= 0,
           [RegistryNext]_registryVars
    PROVE  Surplus' >= 0
<1>1. Surplus \in Int
  BY BooksNumbers DEF Surplus
<1>2. CASE Even
  BY <1>2 DEF Even
<1>3. ASSUME NEW c \in Slots, Records(c), chains[c].user \in Users
      PROVE  Surplus' >= 0
  <2>1. Minted(c)
    BY <1>3 DEF Records, Minted, Failures
  <2>2. chains[c].funding <= fee_config.account_creation_deposit
    BY <2>1 DEF MintsWithin
  <2>3. Surplus' \in Int /\ Surplus' >= Surplus
    BY <1>3, <2>2, RecordedBooks
  <2> QED BY <1>1, <2>3
<1> QED BY <1>2, <1>3, MoneyStep

Settles == overridden = {} => Surplus = 0

LEMMA SettlesStep ==
    ASSUME NoticeOutlastsChains, Finite, TypeInv, TypeInv', TenancyInv, BooksInv, MintsExact,
           Settles, [RegistryNext]_registryVars
    PROVE  Settles'
<1> SUFFICES ASSUME overridden' = {}
             PROVE  Surplus' = 0
  BY DEF Settles
<1>1. overridden = {} /\ Surplus = 0
  BY OverridesStay DEF Settles
<1>2. CASE Even
  BY <1>1, <1>2 DEF Even
<1>3. ASSUME NEW c \in Slots, Records(c), chains[c].user \in Users
      PROVE  Surplus' = 0
  <2>1. InFlight(c) /\ chains[c].kind \in MintKinds /\ Minted(c)
    BY <1>3 DEF Records, Minted, Failures
  <2>2. PICK w : w = chains[c].wallet
    OBVIOUS
  <2>3. w \in Wallets
    BY <2>1, <2>2, ChainTyped DEF TypeInv, GoodChain, MintKinds
  <2>4. On(c, w, RentalKinds)
    BY <2>1, <2>2 DEF On, RentalKinds, MintKinds
  <2>5. Covered(w)
    BY <1>1 DEF Covered
  <2>6. Rented(w)
    BY <2>3, <2>4, <2>5 DEF TenancyInv, WalletInv, RentalRuns
  <2>7. chains[c].funding = fee_config.account_creation_deposit
    BY <2>1 DEF MintsExact
  <2> QED BY <1>1, <1>3, <2>2, <2>6, <2>7, RecordedBooks
<1> QED BY <1>2, <1>3, MoneyStep

\* The running total of the refunds is the sum of what is owed to each
\* account (add_pending_refund, claim_refund, on_claim_refund_settled): no
\* order of settlements and claims lets withdraw take what belongs to users.
RefundTotal == funds.total_refunds = SumFunction(funds.refunds)

\* The total stays the sum for any number of accounts and chains, whatever
\* the admins do, overrides and fee changes included.
THEOREM RefundsAddUp ==
    ASSUME IsFiniteSet(Users), IsFiniteSet(Wallets), IsFiniteSet(Slots)
    PROVE  RegistrySpec => []RefundTotal
<1>0. Finite
  BY FiniteMoney
<1>1. RegistryInit => BooksInv
  BY <1>0, MoneyInit
<1>2. TypeInv /\ TypeInv' /\ BooksInv /\ [RegistryNext]_registryVars => BooksInv'
  BY <1>0, BooksStep
<1>3. BooksInv => RefundTotal
  BY DEF BooksInv, Totals, RefundTotal
<1> QED BY <1>1, <1>2, <1>3, TypesHold, PTL DEF RegistrySpec

\* The registry is solvent however sales, mints, failures, claims, sweeps and
\* admin overrides interleave, as long as admins do not lower the creation
\* deposit while a mint holds one: on_sub_account_created charges the deposit
\* of the day it runs, and a lower one refunds money that has already left.
THEOREM RegistrySolvent ==
    ASSUME IsFiniteSet(Users), IsFiniteSet(Wallets), IsFiniteSet(Slots)
    PROVE  RegistrySpec /\ [][DepositNotLowered]_registryVars => []EveryClaimCovered
<1>0. Finite
  BY FiniteMoney
<1> DEFINE Inv == BooksInv /\ MintsWithin /\ Surplus >= 0
<1>1. RegistryInit => Inv
  BY <1>0, MoneyInit DEF MintsWithin
<1>2. /\ TypeInv /\ TypeInv' /\ Inv /\ [RegistryNext]_registryVars
      /\ [DepositNotLowered]_registryVars
      => Inv'
  <2> SUFFICES ASSUME TypeInv, TypeInv', Inv, [RegistryNext]_registryVars,
                      [DepositNotLowered]_registryVars
               PROVE  Inv'
    OBVIOUS
  <2>1. BooksInv' /\ (Surplus >= 0)'
    BY <1>0, BooksStep, SurplusStep
  <2>2. CASE DepositNotLowered
    BY <2>1, <2>2, MintsWithinStep
  <2>3. CASE UNCHANGED registryVars
    <3>1. UNCHANGED <<chains, fee_config>>
      BY <2>3 DEF registryVars, configVars
    <3>2. MintsWithin'
      BY <3>1 DEF MintsWithin, Minted, InFlight
    <3> QED BY <2>1, <3>2
  <2> QED BY <2>2, <2>3
<1>3. TypeInv /\ Inv => EveryClaimCovered
  <2> SUFFICES ASSUME TypeInv, Inv PROVE EveryClaimCovered
    OBVIOUS
  <2>1. sweep_back \in Int /\ Owed \in Int
    BY <1>0, BooksNumbers
  <2>2. Free(funds) - sweep_back - Owed >= 0
    BY DEF Surplus
  <2>3. funds.balance >= funds.total_refunds + funds.revenue + Owed + sweep_back
    BY <2>1, <2>2, FundsFields DEF Free, TypeInv
  <2> QED BY <2>3 DEF EveryClaimCovered, Owed
<1> HIDE DEF Inv
<1> QED BY <1>1, <1>2, <1>3, TypesHold, PTL DEF RegistrySpec

\* The books are exact, to the yocto, as long as admins change neither the
\* creation deposit while a mint holds one nor the locks of a chain in
\* flight, and a retraction's notice is longer than a chain takes.
THEOREM MoneyAccounted ==
    ASSUME IsFiniteSet(Users), IsFiniteSet(Wallets), IsFiniteSet(Slots), NoticeOutlastsChains
    PROVE  RegistrySpec /\ [][DepositKept]_registryVars
             => [](overridden = {} => EveryYoctoAccounted)
<1>0. Finite
  BY FiniteMoney
<1> DEFINE Inv == BooksInv /\ MintsExact /\ Settles
<1>1. RegistryInit => Inv
  BY <1>0, MoneyInit DEF MintsExact, Settles
<1>2. /\ TypeInv /\ TypeInv' /\ TenancyInv /\ Inv /\ [RegistryNext]_registryVars
      /\ [DepositKept]_registryVars
      => Inv'
  <2> SUFFICES ASSUME TypeInv, TypeInv', TenancyInv, Inv, [RegistryNext]_registryVars,
                      [DepositKept]_registryVars
               PROVE  Inv'
    OBVIOUS
  <2>1. BooksInv' /\ Settles'
    BY <1>0, BooksStep, SettlesStep
  <2>2. CASE DepositKept
    BY <2>1, <2>2, MintsExactStep
  <2>3. CASE UNCHANGED registryVars
    <3>1. UNCHANGED <<chains, fee_config>>
      BY <2>3 DEF registryVars, configVars
    <3>2. MintsExact'
      BY <3>1 DEF MintsExact, Minted, InFlight
    <3> QED BY <2>1, <3>2
  <2> QED BY <2>2, <2>3
<1>3. TypeInv /\ Inv => (overridden = {} => EveryYoctoAccounted)
  <2> SUFFICES ASSUME TypeInv, Inv, overridden = {} PROVE EveryYoctoAccounted
    OBVIOUS
  <2>1. sweep_back \in Int /\ Owed \in Int
    BY <1>0, BooksNumbers
  <2>2. Free(funds) - sweep_back - Owed = 0
    BY DEF Surplus, Settles
  <2>3. funds.balance = funds.total_refunds + funds.revenue + Owed + sweep_back
    BY <2>1, <2>2, FundsFields DEF Free, TypeInv
  <2>4. funds.total_refunds = SumFunction(funds.refunds)
    BY DEF BooksInv, Totals
  <2> QED BY <2>3, <2>4 DEF EveryYoctoAccounted, Owed
<1> HIDE DEF Inv
<1> QED BY <1>1, <1>2, <1>3, TypesHold, TenancyHolds, PTL DEF RegistrySpec

=============================================================================
