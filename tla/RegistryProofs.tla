--------------------------- MODULE RegistryProofs ---------------------------
(* Proofs about the registry with the contracts it calls, for any number   *)
(* of names, users, tokens and chains of receipts in flight.               *)
EXTENDS TlaRegistry, SumProofs

-----------------------------------------------------------------------------
(* Amounts and prices.                                                     *)

\* A difference that cannot go below zero (u128::saturating_sub).
LEMMA SaturatingSub ==
    ASSUME NEW a \in Nat, NEW b \in Nat
    PROVE  /\ saturating_sub(a, b) \in Nat
           /\ saturating_sub(a, b) <= a
           /\ b <= a => b + saturating_sub(a, b) = a
  BY DEF saturating_sub

\* A product that stops at the largest amount is a natural (saturating_mul).
LEMMA SaturatingMul ==
    ASSUME NEW a \in Nat, NEW b \in Nat
    PROVE  saturating_mul(a, b) \in Nat
  <1>1. a * b \in Nat
    OBVIOUS
  <1>2. QED
    BY <1>1, FeeConstants DEF saturating_mul

\* Integer division of a natural is a natural (the / of u128).
LEMMA QuotientIsNat ==
    ASSUME NEW a \in Nat, NEW b \in Nat, b > 0
    PROVE  a \div b \in Nat
  OBVIOUS

\* split_resale loses and invents nothing: for every price and every rate,
\* sensible or not, and also where the product saturates, the commission and
\* what the seller gets are amounts that add up to the price.
THEOREM ResaleSplit ==
    ASSUME NEW price \in Nat, NEW bps \in Nat
    PROVE  /\ Commission(price, bps) \in Nat
           /\ SellerProceeds(price, bps) \in Nat
           /\ Commission(price, bps) <= price
           /\ Commission(price, bps) + SellerProceeds(price, bps) = price
  <1> DEFINE share == saturating_mul(price, bps) \div 10000
  <1>1. share \in Nat
    BY SaturatingMul, QuotientIsNat
  <1>2. Commission(price, bps) \in Nat /\ Commission(price, bps) <= price
    BY <1>1 DEF Commission
  <1>3. QED
    BY <1>2, SaturatingSub DEF SellerProceeds

-----------------------------------------------------------------------------
(* Types.  A chain of each kind carries the arguments its callbacks read,  *)
(* and a rented name is under a registered TLA.                            *)

Minting == {"create", "derive", "account", "install", "return"}

MethodsOf(kind) ==
    CASE kind \in {"list", "offer"} -> {"query"}
      [] kind \in {"buy", "buy_paid", "rerent"} -> {"balances", "transfer"}
      [] kind \in {"mint", "mint_paid"} -> Minting
      [] kind = "reclaim" -> {"balances"} \cup Rekeying
      [] kind = "retry" -> {"retry_install", "retry_key"}
      [] OTHER -> {"pay"}

Replies(method) ==
    CASE method = "query" -> {"err"} \cup KeyOrNone
      [] method = "balances" -> {"clear", "blocked"}
      [] method = "transfer" -> {"true", "false", "err"}
      [] method \in {"create", "retry_install"} -> {"err"}
      [] method = "install" -> {"Active", "SignerPending"}
      [] method = "return" -> {"CreationFailed"}
      [] method \in {"retry_key", "pay"} -> {"ok", "err"}
      [] OTHER -> {}

GoodChain(x) ==
    /\ x \in ChainRecord
    /\ x.method \in MethodsOf(x.kind)
    /\ x.result = "pending" \/ x.result \in Replies(x.method)
    /\ x.kind # "claim" => x.wallet \in Wallets
    /\ x.kind \notin {"reclaim", "retry"} => x.user \in Users
    /\ x.kind \in {"offer", "buy_paid"} => x.other \in Users
    /\ x.kind \notin {"reclaim", "claim"} \/ x.method \in Rekeying => x.key \in Keys
    /\ x.kind \in {"buy", "buy_paid"} => x.expected \in Keys

TlasOK == tlas \in [Tlas -> TlaEntry \cup {None}]

NamesOK ==
    /\ sub_accounts \in [Wallets -> SubAccountEntry \cup {None}]
    /\ parked_names \subseteq Wallets
    /\ signer_pending \in [Wallets -> KeyOrNone]

SalesOK ==
    /\ listings \in [Wallets -> Listing \cup {None}]
    /\ accepted_offers \in [Wallets -> AcceptedOffer \cup {None}]

LinksOK == \A w \in Wallets : Rented(w) => Tla(w) # None

AnchorsOK ==
    /\ mothers \in [Accounts -> Accounts \cup {None}]
    /\ mother_use_count \in [Accounts -> Nat]

CountsOK == business_sub_count \in [Tlas -> Nat] /\ sub_account_count \in Nat

Funds == [refunds : [Accounts -> Nat], total_refunds : Nat, revenue : Nat, balance : Nat]

RolesOK ==
    paused \in BOOLEAN /\ admins \subseteq Admins /\ payment_authorities \subseteq Users

ConfigOK ==
    /\ ft_allowlist \subseteq Tokens
    /\ fee_config \in FeeConfigs
    /\ parked_signer_pubkey \in Keys
    /\ business_sub_cap_override \in [Tlas -> Nat \cup {None}]

ChainsOK ==
    /\ chains \in [Slots -> ChainRecord \cup {None}]
    /\ \A c \in Slots : InFlight(c) => GoodChain(chains[c])

OwnersOK ==
    /\ owner \in [Wallets -> KeyOrNone]
    /\ hold \in [Wallets -> {"open", "halted", "held"}]
    /\ beneficiary \in [Wallets -> KeyOrNone]
    /\ \A w \in Wallets : beneficiary[w] # None => owner[w] # None

WorldOK == held \in [Wallets -> SUBSET Tokens] /\ now \in Nat /\ overridden \subseteq Wallets

TypeInv ==
    /\ TlasOK /\ NamesOK /\ SalesOK /\ LinksOK /\ reclaim_pending \subseteq Wallets
    /\ AnchorsOK /\ CountsOK /\ funds \in Funds /\ RolesOK /\ ConfigOK /\ ChainsOK
    /\ OwnersOK /\ WorldOK

-----------------------------------------------------------------------------
(* Chains.                                                                 *)

\* The other chains are left alone.
OnlyChain(c) == \A d \in Slots \ {c} : chains'[d] = chains[d]

LEMMA ChainBase ==
    ASSUME ConfigOK, NEW kind \in Kind, NEW method \in Method, NEW w \in Wallets \cup {None}
    PROVE  /\ Chain(kind, method, w) \in ChainRecord
           /\ Chain(kind, method, w).kind = kind
           /\ Chain(kind, method, w).method = method
           /\ Chain(kind, method, w).wallet = w
           /\ Chain(kind, method, w).result = "pending"
           /\ Chain(kind, method, w).user = None
           /\ Chain(kind, method, w).other = None
           /\ Chain(kind, method, w).key = None
           /\ Chain(kind, method, w).expected = None
           /\ Chain(kind, method, w).price = 0
           /\ Chain(kind, method, w).deposit = 0
           /\ Chain(kind, method, w).funding = 0
           /\ ~Chain(kind, method, w).aged
BY DEF Chain, ChainRecord, ConfigOK, KeyOrNone

LEMMA ChainGate ==
    ASSUME NEW kind, NEW method, NEW w
    PROVE  /\ method # "balances" => /\ Chain(kind, method, w).unread = {}
                                     /\ Chain(kind, method, w).stuck = {}
           /\ method = "balances" =>
                /\ Chain(kind, method, w).unread = ft_allowlist
                /\ Chain(kind, method, w).stuck = ft_allowlist \cap held[w]
BY DEF Chain

\* A chain with all its arguments.
With(x, user, other, key, expected, price, deposit, funding) ==
    [x EXCEPT !.user = user, !.other = other, !.key = key, !.expected = expected,
              !.price = price, !.deposit = deposit, !.funding = funding]

\* Starts(c, ...): a chain with these arguments starts in slot c.
Starts(c, kind, method, w, user, other, key, expected, price, deposit, funding) ==
    Start(c, With(Chain(kind, method, w), user, other, key, expected, price, deposit, funding))

\* What is known of a chain that has just started.
Fresh(c, kind, method, w) ==
    /\ OnlyChain(c) /\ ~InFlight(c) /\ InFlight(c)'
    /\ chains'[c].kind = kind /\ chains'[c].method = method /\ chains'[c].wallet = w
    /\ chains'[c].result = "pending" /\ ~chains'[c].aged
    /\ chains'[c].unread = Chain(kind, method, w).unread
    /\ chains'[c].stuck = Chain(kind, method, w).stuck

LEMMA MethodFacts ==
    /\ "query" \in MethodsOf("list") /\ "query" \in MethodsOf("offer")
    /\ \A kind \in {"buy", "buy_paid", "rerent"} : MethodsOf(kind) = {"balances", "transfer"}
    /\ \A kind \in {"mint", "mint_paid"} : MethodsOf(kind) = Minting
    /\ MethodsOf("reclaim") = {"balances"} \cup Rekeying
    /\ MethodsOf("retry") = {"retry_install", "retry_key"}
    /\ MethodsOf("claim") = {"pay"}
BY DEF MethodsOf

LEMMA ChainsChange ==
    ASSUME ChainsOK, NEW c \in Slots, NEW x, x = None \/ GoodChain(x),
           chains' = [chains EXCEPT ![c] = x]
    PROVE  ChainsOK'
BY DEF ChainsOK, InFlight, GoodChain

\* The chain goes on, with what it is for.
GoesOn(c) ==
    /\ OnlyChain(c)
    /\ InFlight(c) /\ InFlight(c)'
    /\ chains'[c].kind = chains[c].kind
    /\ chains'[c].wallet = chains[c].wallet
    /\ chains'[c].user = chains[c].user
    /\ chains'[c].price = chains[c].price
    /\ chains'[c].deposit = chains[c].deposit
    /\ chains'[c].aged = chains[c].aged
    /\ chains'[c].stuck = chains[c].stuck

LEMMA ChainStarts ==
    ASSUME ChainsOK, NEW c \in Slots, NEW x, GoodChain(x), Start(c, x)
    PROVE  /\ ChainsOK' /\ OnlyChain(c)
           /\ ~InFlight(c) /\ InFlight(c)' /\ chains'[c] = x
<1>1. x # None
  BY RegistryNone DEF GoodChain
<1> QED BY <1>1, ChainsChange DEF Start, ChainsOK, OnlyChain, InFlight

LEMMA NewChain ==
    ASSUME ConfigOK, ChainsOK, NEW c \in Slots, NEW kind \in Kind, NEW method,
           method \in MethodsOf(kind),
           NEW w \in Wallets \cup {None}, kind # "claim" => w \in Wallets,
           NEW user \in Users \cup {None}, kind \notin {"reclaim", "retry"} => user \in Users,
           NEW other \in Users \cup {None}, kind \in {"offer", "buy_paid"} => other \in Users,
           NEW key \in KeyOrNone,
           kind \notin {"reclaim", "claim"} \/ method \in Rekeying => key \in Keys,
           NEW expected \in KeyOrNone, kind \in {"buy", "buy_paid"} => expected \in Keys,
           NEW price \in Nat, NEW deposit \in Nat, NEW funding \in Nat,
           Starts(c, kind, method, w, user, other, key, expected, price, deposit, funding)
    PROVE  /\ ChainsOK' /\ Fresh(c, kind, method, w)
           /\ chains'[c].user = user /\ chains'[c].key = key
           /\ chains'[c].price = price /\ chains'[c].deposit = deposit
           /\ chains'[c].funding = funding
<1>1. method \in Method
  BY DEF MethodsOf, Method, Kind, Minting, Rekeying
<1>2. PICK x, y : /\ x = Chain(kind, method, w)
                  /\ y = With(x, user, other, key, expected, price, deposit, funding)
  OBVIOUS
<1>3. /\ x \in ChainRecord /\ x.kind = kind /\ x.method = method /\ x.wallet = w
      /\ x.result = "pending" /\ ~x.aged
  BY <1>1, <1>2, ChainBase
<1>4. /\ y \in ChainRecord
      /\ y.kind = kind /\ y.method = method /\ y.wallet = w
      /\ y.result = "pending" /\ ~y.aged
      /\ y.unread = x.unread /\ y.stuck = x.stuck
      /\ y.user = user /\ y.other = other /\ y.key = key /\ y.expected = expected
      /\ y.price = price /\ y.deposit = deposit /\ y.funding = funding
  <2>1. /\ y \in ChainRecord
        /\ y.kind = x.kind /\ y.method = x.method /\ y.wallet = x.wallet
        /\ y.result = x.result /\ (y.aged <=> x.aged)
        /\ y.unread = x.unread /\ y.stuck = x.stuck
        /\ y.user = user /\ y.other = other /\ y.key = key /\ y.expected = expected
        /\ y.price = price /\ y.deposit = deposit /\ y.funding = funding
    BY <1>2, <1>3 DEF With, ChainRecord
  <2> QED BY <1>3, <2>1
<1>5. GoodChain(y)
  BY <1>4 DEF GoodChain
<1>6. Start(c, y)
  BY <1>2 DEF Starts
<1>7. ChainsOK' /\ OnlyChain(c) /\ ~InFlight(c) /\ InFlight(c)' /\ chains'[c] = y
  BY <1>5, <1>6, ChainStarts
<1> QED BY <1>2, <1>4, <1>7 DEF Fresh

LEMMA ChainEnds ==
    ASSUME ChainsOK, NEW c \in Slots, End(c)
    PROVE  ChainsOK' /\ OnlyChain(c) /\ ~InFlight(c)' /\ chains'[c] = None
BY ChainsChange DEF End, ChainsOK, OnlyChain, InFlight

\* The call of a chain is answered, or its next call goes out.
Advance(c, method, result, key, funding, unread) ==
    chains' = [chains EXCEPT ![c] =
      [chains[c] EXCEPT !.method = method, !.result = result, !.key = key,
                        !.funding = funding, !.unread = unread]]

LEMMA ChainAdvances ==
    ASSUME ChainsOK, NEW c \in Slots, InFlight(c), NEW method, NEW result,
           method \in MethodsOf(chains[c].kind),
           result = "pending" \/ result \in Replies(method),
           NEW key \in KeyOrNone,
           chains[c].kind \notin {"reclaim", "claim"} \/ method \in Rekeying => key \in Keys,
           NEW funding \in Nat, NEW unread \in SUBSET Tokens,
           Advance(c, method, result, key, funding, unread)
    PROVE  /\ ChainsOK' /\ GoesOn(c)
           /\ chains'[c].method = method /\ chains'[c].result = result
           /\ chains'[c].key = key /\ chains'[c].funding = funding
           /\ chains'[c].unread = unread
           /\ chains'[c].expected = chains[c].expected
<1> DEFINE y == [chains[c] EXCEPT !.method = method, !.result = result, !.key = key,
                                  !.funding = funding, !.unread = unread]
<1>1. GoodChain(chains[c]) /\ chains[c] \in ChainRecord
  BY DEF ChainsOK, GoodChain
<1>2. method \in Method
  BY <1>1 DEF MethodsOf, Method, ChainRecord, Kind, Minting, Rekeying
<1>3. result \in {"pending", "clear", "blocked", "true", "false", "ok", "err", "Active",
               "SignerPending", "CreationFailed", None} \cup Keys
  BY DEF Replies, KeyOrNone
<1>4. y \in ChainRecord
  BY <1>1, <1>2, <1>3 DEF ChainRecord
<1>5. /\ y.kind = chains[c].kind /\ y.wallet = chains[c].wallet /\ y.user = chains[c].user
      /\ y.other = chains[c].other /\ y.expected = chains[c].expected
      /\ y.price = chains[c].price /\ y.deposit = chains[c].deposit
      /\ y.aged = chains[c].aged /\ y.stuck = chains[c].stuck
      /\ y.method = method /\ y.result = result /\ y.key = key
      /\ y.funding = funding /\ y.unread = unread
  BY <1>1 DEF ChainRecord
<1>6. GoodChain(y)
  BY <1>1, <1>4, <1>5 DEF GoodChain
<1>7. y # None
  BY <1>4, RegistryNone
<1>8. chains' = [chains EXCEPT ![c] = y]
  BY DEF Advance
<1> HIDE DEF y
<1>9. ChainsOK' /\ chains'[c] = y /\ OnlyChain(c)
  BY <1>6, <1>8, ChainsChange DEF ChainsOK, OnlyChain
<1> QED BY <1>5, <1>7, <1>9 DEF GoesOn, InFlight

LEMMA ChainTyped ==
    ASSUME ChainsOK, NEW c \in Slots, InFlight(c)
    PROVE  /\ chains[c] \in ChainRecord /\ GoodChain(chains[c])
           /\ chains[c].kind \in Kind
           /\ chains[c].price \in Nat /\ chains[c].deposit \in Nat /\ chains[c].funding \in Nat
           /\ chains[c].key \in KeyOrNone
           /\ chains[c].unread \in SUBSET Tokens /\ chains[c].stuck \in SUBSET Tokens
           /\ chains[c].aged \in BOOLEAN
BY DEF ChainsOK, GoodChain, ChainRecord

LEMMA ChainProceeds ==
    ASSUME ChainsOK, NEW c \in Slots, InFlight(c), NEW method,
           method \in MethodsOf(chains[c].kind),
           method \in Rekeying => chains[c].kind # "reclaim" \/ chains[c].method \in Rekeying,
           Proceed(c, method)
    PROVE  /\ ChainsOK' /\ GoesOn(c)
           /\ chains'[c].method = method /\ chains'[c].result = "pending"
           /\ chains'[c].key = chains[c].key /\ chains'[c].funding = chains[c].funding
           /\ chains'[c].unread = chains[c].unread
           /\ chains'[c].expected = chains[c].expected
<1> DEFINE x == chains[c]
<1>1. x \in ChainRecord /\ GoodChain(x)
  BY ChainTyped
<1>2. [x EXCEPT !.method = method, !.result = "pending"]
        = [x EXCEPT !.method = method, !.result = "pending", !.key = x.key,
                    !.funding = x.funding, !.unread = x.unread]
  BY <1>1 DEF ChainRecord
<1>3. Advance(c, method, "pending", x.key, x.funding, x.unread)
  BY <1>2 DEF Advance, Proceed
<1>4. x.kind = "claim" => method \notin Rekeying
  BY DEF MethodsOf, Rekeying
<1>5. x.kind \notin {"reclaim", "claim"} \/ method \in Rekeying => x.key \in Keys
  BY <1>1, <1>4 DEF GoodChain
<1>6. x.key \in KeyOrNone /\ x.funding \in Nat /\ x.unread \in SUBSET Tokens
  BY ChainTyped
<1> HIDE DEF x
<1> QED BY <1>3, <1>5, <1>6, ChainAdvances DEF x

LEMMA ChainAnswered ==
    ASSUME ChainsOK, NEW c \in Slots, InFlight(c), NEW result,
           result = "pending" \/ result \in Replies(chains[c].method),
           AnsweredWith(c, result)
    PROVE  /\ ChainsOK' /\ GoesOn(c)
           /\ chains'[c].method = chains[c].method /\ chains'[c].result = result
           /\ chains'[c].key = chains[c].key /\ chains'[c].funding = chains[c].funding
           /\ chains'[c].unread = chains[c].unread
           /\ chains'[c].expected = chains[c].expected
<1> DEFINE x == chains[c]
<1>1. x \in ChainRecord /\ GoodChain(x)
  BY ChainTyped
<1>2. [x EXCEPT !.result = result]
        = [x EXCEPT !.method = x.method, !.result = result, !.key = x.key,
                    !.funding = x.funding, !.unread = x.unread]
  BY <1>1 DEF ChainRecord
<1>3. Advance(c, x.method, result, x.key, x.funding, x.unread)
  BY <1>2 DEF Advance, AnsweredWith
<1>5. /\ x.kind \notin {"reclaim", "claim"} \/ x.method \in Rekeying => x.key \in Keys
      /\ x.method \in MethodsOf(x.kind)
  BY <1>1 DEF GoodChain
<1>6. x.key \in KeyOrNone /\ x.funding \in Nat /\ x.unread \in SUBSET Tokens
  BY ChainTyped
<1> HIDE DEF x
<1> QED BY <1>3, <1>5, <1>6, ChainAdvances DEF x

LEMMA ChainGivesBack ==
    ASSUME ChainsOK, NEW c \in Slots, InFlight(c), NEW result,
           result \in Replies(chains[c].method), GiveBack(c, result)
    PROVE  /\ ChainsOK' /\ GoesOn(c)
           /\ chains'[c].method = chains[c].method /\ chains'[c].result = result
           /\ chains'[c].key = chains[c].key /\ chains'[c].funding = 0
           /\ chains'[c].unread = chains[c].unread
           /\ chains'[c].expected = chains[c].expected
<1> DEFINE x == chains[c]
<1>1. x \in ChainRecord /\ GoodChain(x)
  BY ChainTyped
<1>2. [x EXCEPT !.result = result, !.funding = 0]
        = [x EXCEPT !.method = x.method, !.result = result, !.key = x.key,
                    !.funding = 0, !.unread = x.unread]
  BY <1>1 DEF ChainRecord
<1>3. Advance(c, x.method, result, x.key, 0, x.unread)
  BY <1>2 DEF Advance, GiveBack
<1>5. /\ x.kind \notin {"reclaim", "claim"} \/ x.method \in Rekeying => x.key \in Keys
      /\ x.method \in MethodsOf(x.kind)
  BY <1>1 DEF GoodChain
<1>6. x.key \in KeyOrNone /\ 0 \in Nat /\ x.unread \in SUBSET Tokens
  BY ChainTyped
<1> HIDE DEF x
<1> QED BY <1>3, <1>5, <1>6, ChainAdvances DEF x

LEMMA ChainAtGate ==
    ASSUME ChainsOK, NEW c \in Slots, InFlight(c), NEW unread \in SUBSET Tokens, NEW result,
           result = "pending" \/ result \in Replies(chains[c].method),
           GateAnswer(c, unread, result)
    PROVE  /\ ChainsOK' /\ GoesOn(c)
           /\ chains'[c].method = chains[c].method /\ chains'[c].result = result
           /\ chains'[c].key = chains[c].key /\ chains'[c].funding = chains[c].funding
           /\ chains'[c].unread = unread
           /\ chains'[c].expected = chains[c].expected
<1> DEFINE x == chains[c]
<1>1. x \in ChainRecord /\ GoodChain(x)
  BY ChainTyped
<1>2. [x EXCEPT !.unread = unread, !.result = result]
        = [x EXCEPT !.method = x.method, !.result = result, !.key = x.key,
                    !.funding = x.funding, !.unread = unread]
  BY <1>1 DEF ChainRecord
<1>3. Advance(c, x.method, result, x.key, x.funding, unread)
  BY <1>2 DEF Advance, GateAnswer
<1>5. /\ x.kind \notin {"reclaim", "claim"} \/ x.method \in Rekeying => x.key \in Keys
      /\ x.method \in MethodsOf(x.kind)
  BY <1>1 DEF GoodChain
<1>6. x.key \in KeyOrNone /\ x.funding \in Nat
  BY ChainTyped
<1> HIDE DEF x
<1> QED BY <1>3, <1>5, <1>6, ChainAdvances DEF x

ProceedsWith(c, method, key) ==
    chains' = [chains EXCEPT ![c] =
      [chains[c] EXCEPT !.method = method, !.result = "pending", !.key = key]]

LEMMA ChainRekeys ==
    ASSUME ChainsOK, NEW c \in Slots, InFlight(c), NEW method, NEW key \in Keys,
           method \in MethodsOf(chains[c].kind), ProceedsWith(c, method, key)
    PROVE  /\ ChainsOK' /\ GoesOn(c)
           /\ chains'[c].method = method /\ chains'[c].result = "pending"
           /\ chains'[c].key = key /\ chains'[c].funding = chains[c].funding
<1> DEFINE x == chains[c]
<1>1. x \in ChainRecord
  BY ChainTyped
<1>2. [x EXCEPT !.method = method, !.result = "pending", !.key = key]
        = [x EXCEPT !.method = method, !.result = "pending", !.key = key,
                    !.funding = x.funding, !.unread = x.unread]
  BY <1>1 DEF ChainRecord
<1>3. Advance(c, method, "pending", key, x.funding, x.unread)
  BY <1>2 DEF Advance, ProceedsWith
<1>4. x.funding \in Nat /\ x.unread \in SUBSET Tokens /\ key \in KeyOrNone
  BY ChainTyped DEF KeyOrNone
<1> HIDE DEF x
<1> QED BY <1>3, <1>4, ChainAdvances DEF x

LEMMA ChainParks ==
    ASSUME ChainsOK, ConfigOK, NEW c \in Slots, InFlight(c), chains[c].kind = "reclaim",
           park_wallet(c)
    PROVE  /\ ChainsOK' /\ GoesOn(c)
           /\ chains'[c].method = ParkMethod(chains[c].wallet)
           /\ chains'[c].result = "pending" /\ chains'[c].key = parked_signer_pubkey
           /\ chains'[c].funding = chains[c].funding
<1>1. ParkMethod(chains[c].wallet) \in MethodsOf(chains[c].kind)
  BY DEF ParkMethod, MethodsOf, Rekeying
<1>2. parked_signer_pubkey \in Keys
  BY DEF ConfigOK
<1>3. ProceedsWith(c, ParkMethod(chains[c].wallet), parked_signer_pubkey)
  BY DEF park_wallet, ProceedsWith
<1> QED BY <1>1, <1>2, <1>3, ChainRekeys

\* The chain stands as it was but for its age and its tokens.
Marked(c) ==
    /\ chains'[c].kind = chains[c].kind /\ chains'[c].wallet = chains[c].wallet
    /\ chains'[c].method = chains[c].method /\ chains'[c].result = chains[c].result
    /\ chains'[c].key = chains[c].key /\ chains'[c].user = chains[c].user
    /\ chains'[c].unread = chains[c].unread /\ chains'[c].price = chains[c].price
    /\ chains'[c].deposit = chains[c].deposit /\ chains'[c].funding = chains[c].funding

\* Time passes, or a token leaves a wallet, under the chains in flight.
Marks(mark, left) ==
    chains' = [c \in Slots |->
      IF InFlight(c) THEN [chains[c] EXCEPT !.aged = mark[c], !.stuck = left[c]] ELSE None]

LEMMA ChainsMarked ==
    ASSUME ChainsOK, NEW mark, mark \in [Slots -> BOOLEAN],
           NEW left, left \in [Slots -> SUBSET Tokens], Marks(mark, left)
    PROVE  /\ ChainsOK'
           /\ \A c \in Slots :
                /\ InFlight(c)' <=> InFlight(c)
                /\ InFlight(c) => /\ Marked(c)
                                  /\ chains'[c].aged = mark[c]
                                  /\ chains'[c].stuck = left[c]
<1>1. ASSUME NEW c \in Slots, InFlight(c)
      PROVE  /\ chains'[c] = [chains[c] EXCEPT !.aged = mark[c], !.stuck = left[c]]
             /\ chains[c] \in ChainRecord /\ GoodChain(chains[c])
             /\ mark[c] \in BOOLEAN /\ left[c] \in SUBSET Tokens
  BY <1>1, ChainTyped DEF Marks
<1>2. ASSUME NEW c \in Slots, InFlight(c)
      PROVE  Marked(c) /\ GoodChain(chains'[c]) /\ InFlight(c)'
             /\ chains'[c].aged = mark[c] /\ chains'[c].stuck = left[c]
  <2>1. PICK x, y, a, l : x = chains[c] /\ y = chains'[c] /\ a = mark[c] /\ l = left[c]
    OBVIOUS
  <2>2. x \in ChainRecord /\ GoodChain(x) /\ a \in BOOLEAN /\ l \in SUBSET Tokens
        /\ y = [x EXCEPT !.aged = a, !.stuck = l]
    BY <1>1, <1>2, <2>1
  <2>3. /\ y \in ChainRecord
        /\ y.kind = x.kind /\ y.wallet = x.wallet /\ y.method = x.method
        /\ y.result = x.result /\ y.key = x.key /\ y.user = x.user
        /\ y.other = x.other /\ y.expected = x.expected /\ y.unread = x.unread
        /\ y.price = x.price /\ y.deposit = x.deposit /\ y.funding = x.funding
        /\ y.aged = a /\ y.stuck = l
    BY <2>2 DEF ChainRecord
  <2>4. GoodChain(y) /\ y # None
    BY <2>2, <2>3, RegistryNone DEF GoodChain
  <2> QED BY <2>1, <2>3, <2>4 DEF Marked, InFlight
<1>3. ASSUME NEW c \in Slots, ~InFlight(c)
      PROVE  chains'[c] = None /\ ~InFlight(c)'
  BY <1>3 DEF InFlight, Marks
<1>4. chains' \in [Slots -> ChainRecord \cup {None}]
  <2>1. \A c \in Slots : chains'[c] \in ChainRecord \cup {None}
    BY <1>2, <1>3 DEF GoodChain
  <2> QED BY <2>1 DEF Marks
<1>5. ChainsOK'
  BY <1>2, <1>3, <1>4 DEF ChainsOK, GoodChain
<1> QED BY <1>2, <1>3, <1>5

-----------------------------------------------------------------------------
(* Entries and amounts.                                                    *)

LEMMA TlaFields ==
    ASSUME TlasOK, NEW t \in Tlas, tlas[t] # None
    PROVE  /\ tlas[t] \in TlaEntry /\ tlas[t].tla_type \in TlaType
           /\ tlas[t].status \in {"Registered", "Active", "Suspended"}
           /\ tlas[t].licensee \in Users \cup {None}
           /\ tlas[t].premium_category \in PremiumCategory
           /\ tlas[t].expires_at \in Nat
BY DEF TlasOK, TlaEntry

LEMMA NameFields ==
    ASSUME NamesOK, NEW w \in Wallets, Rented(w)
    PROVE  /\ sub_accounts[w] \in SubAccountEntry
           /\ sub_accounts[w].owner \in Users /\ sub_accounts[w].main_wallet \in Accounts
           /\ sub_accounts[w].expires_at \in Nat
           /\ sub_accounts[w].retraction_at \in Nat \cup {None}
BY DEF NamesOK, SubAccountEntry, Rented

LEMMA SaleFields ==
    ASSUME SalesOK, NEW w \in Wallets
    PROVE  /\ listings[w] # None => /\ listings[w] \in Listing
                                    /\ listings[w].price \in Nat
                                    /\ listings[w].owner_key \in Keys
                                    /\ listings[w].settling \in BOOLEAN
           /\ accepted_offers[w] # None => /\ accepted_offers[w] \in AcceptedOffer
                                           /\ accepted_offers[w].buyer \in Users
                                           /\ accepted_offers[w].price \in Nat
                                           /\ accepted_offers[w].owner_key \in Keys
                                           /\ accepted_offers[w].settling \in BOOLEAN
BY DEF SalesOK, Listing, AcceptedOffer

LEMMA FeeFields ==
    ASSUME ConfigOK
    PROVE  /\ fee_config.tla_allocation_fee \in Nat /\ fee_config.rent_tier_5 \in Nat
           /\ fee_config.rent_tier_8 \in Nat /\ fee_config.rent_tier_10 \in Nat
           /\ fee_config.rent_tier_12plus \in Nat /\ fee_config.sub_fee_per_account \in Nat
           /\ fee_config.account_creation_deposit \in Nat
           /\ fee_config.business_max_subs \in Nat
           /\ fee_config.retraction_notice_ns \in Nat
           /\ fee_config.resale_commission_bps \in Nat
BY RegistryConstants DEF ConfigOK, FeeConfig

LEMMA BaseRentIsNat ==
    ASSUME ConfigOK, NEW len \in Nat
    PROVE  base_rent(len, fee_config) \in Nat
BY FeeFields DEF base_rent

LEMMA TlaRentIsNat ==
    ASSUME ConfigOK, NEW t \in Tlas
    PROVE  TlaRent(t) \in Nat
BY BaseRentIsNat, RegistryConstants DEF TlaRent

LEMMA RentIsNat ==
    ASSUME ConfigOK, TlasOK, NEW w \in Wallets, Tla(w) # None
    PROVE  Rent(w) \in Nat
<1>1. Tla(w).premium_category \in PremiumCategory /\ NameLength[w] \in Nat
  BY TlaFields, RegistryConstants DEF Tla
<1>2. base_rent(NameLength[w], fee_config) \in Nat
  BY <1>1, BaseRentIsNat
<1>3. /\ MultiplierNum(Tla(w).premium_category) \in Nat
      /\ MultiplierDen(Tla(w).premium_category) \in {1, 2}
  BY <1>1 DEF MultiplierNum, MultiplierDen, PremiumCategory
<1>4. sub_account_rent(NameLength[w], Tla(w).premium_category, fee_config) \in Nat
  <2>1. saturating_mul(base_rent(NameLength[w], fee_config),
                       MultiplierNum(Tla(w).premium_category)) \in Nat
    BY <1>2, <1>3, SaturatingMul
  <2> QED BY <1>3, <2>1, QuotientIsNat DEF sub_account_rent
<1> QED BY <1>4, FeeFields DEF Rent, calculate_rent

LEMMA FundsFields ==
    ASSUME NEW f \in Funds
    PROVE  /\ f.balance \in Nat /\ f.revenue \in Nat /\ f.total_refunds \in Nat
           /\ f.refunds \in [Accounts -> Nat]
BY DEF Funds

LEMMA FundsMove ==
    ASSUME NEW f \in Funds, NEW n \in Nat
    PROVE  /\ Receive(f, n) \in Funds /\ Receive(f, n).balance = f.balance + n
           /\ Receive(f, n).revenue = f.revenue
           /\ n <= f.balance => Spend(f, n) \in Funds
           /\ Spend(f, n).revenue = f.revenue
           /\ Earn(f, n) \in Funds
           /\ Earn(f, n).revenue = f.revenue + n
BY DEF Funds, Receive, Spend, Earn

LEMMA FundsRefund ==
    ASSUME NEW f \in Funds, NEW u \in Users, NEW n \in Nat
    PROVE  Refund(f, u, n) \in Funds /\ Refund(f, u, n).revenue = f.revenue
<1>1. u \in Accounts
  BY DEF Accounts
<1>2. [f.refunds EXCEPT ![u] = f.refunds[u] + n] \in [Accounts -> Nat]
  BY <1>1 DEF Funds
<1>3. PICK g \in [Accounts -> Nat] : g = [f.refunds EXCEPT ![u] = f.refunds[u] + n]
  BY <1>2
<1>4. Refund(f, u, n) = [f EXCEPT !.refunds = g, !.total_refunds = f.total_refunds + n]
  BY <1>3 DEF Refund
<1>5. f.total_refunds + n \in Nat
  BY DEF Funds
<1> QED BY <1>4, <1>5 DEF Funds

LEMMA FundsExcess ==
    ASSUME NEW f \in Funds, NEW u \in Users, NEW n \in Nat, NEW m \in Nat
    PROVE  /\ refund_excess(f, u, n, m) \in Funds
           /\ refund_excess(f, u, n, m).revenue = f.revenue
BY FundsRefund, SaturatingSub DEF refund_excess

-----------------------------------------------------------------------------
(* Type correctness, method by method.                                     *)

LEMMA TypeFrame ==
    ASSUME TypeInv,
           UNCHANGED tlas \/ TlasOK',
           UNCHANGED nameVars \/ NamesOK',
           UNCHANGED <<tlas, sub_accounts>> \/ LinksOK',
           UNCHANGED saleVars \/ SalesOK',
           UNCHANGED reclaim_pending \/ (reclaim_pending \subseteq Wallets)',
           UNCHANGED anchorVars \/ AnchorsOK',
           UNCHANGED countVars \/ CountsOK',
           UNCHANGED funds \/ (funds \in Funds)',
           UNCHANGED roleVars \/ RolesOK',
           UNCHANGED configVars \/ ConfigOK',
           UNCHANGED chains \/ ChainsOK',
           UNCHANGED ownershipVars \/ OwnersOK',
           UNCHANGED <<held, now, overridden>> \/ WorldOK'
    PROVE  TypeInv'
<1>1. TlasOK' BY DEF TypeInv, TlasOK
<1>2. NamesOK' BY DEF TypeInv, NamesOK, nameVars
<1>3. LinksOK' BY DEF TypeInv, LinksOK, Rented, Tla
<1>4. SalesOK' BY DEF TypeInv, SalesOK, saleVars
<1>5. (reclaim_pending \subseteq Wallets)' BY DEF TypeInv
<1>6. AnchorsOK' BY DEF TypeInv, AnchorsOK, anchorVars
<1>7. CountsOK' BY DEF TypeInv, CountsOK, countVars
<1>8. (funds \in Funds)' BY DEF TypeInv
<1>9. RolesOK' BY DEF TypeInv, RolesOK, roleVars
<1>10. ConfigOK' BY DEF TypeInv, ConfigOK, configVars
<1>11. ChainsOK' BY DEF TypeInv, ChainsOK, InFlight
<1>12. OwnersOK' BY DEF TypeInv, OwnersOK, ownershipVars
<1>13. WorldOK' BY DEF TypeInv, WorldOK
<1> QED BY <1>1, <1>2, <1>3, <1>4, <1>5, <1>6, <1>7, <1>8, <1>9, <1>10, <1>11, <1>12, <1>13
        DEF TypeInv

LEMMA ListStarts ==
    ASSUME TypeInv, NEW c \in Slots, NEW u \in Users, NEW w \in Wallets, NEW p \in Prices,
           NEW k \in Keys, list_sub_account(c, u, w, p, k)
    PROVE  /\ ChainsOK' /\ Fresh(c, "list", "query", w)
           /\ chains'[c].deposit = 0 /\ chains'[c].funding = 0
<1>1. p \in Nat /\ k \in KeyOrNone /\ None \in KeyOrNone /\ "list" \in Kind /\ "query" \in Method
  BY InputConstants DEF KeyOrNone, Kind, Method
<1>2. PICK x : x = Chain("list", "query", w)
  OBVIOUS
<1>3. x \in ChainRecord /\ x.other = None /\ x.expected = None /\ x.deposit = 0 /\ x.funding = 0
  BY <1>1, <1>2, ChainBase DEF TypeInv
<1>4. [x EXCEPT !.user = u, !.key = k, !.price = p] = With(x, u, None, k, None, p, 0, 0)
  BY <1>3 DEF With, ChainRecord
<1>5. Starts(c, "list", "query", w, u, None, k, None, p, 0, 0)
  BY <1>2, <1>4 DEF list_sub_account, Starts
<1> QED BY <1>1, <1>5, NewChain, MethodFacts DEF TypeInv

LEMMA OfferStarts ==
    ASSUME TypeInv, NEW c \in Slots, NEW u \in Users, NEW w \in Wallets, NEW b \in Users,
           NEW p \in Prices, NEW k \in Keys, accept_offer(c, u, w, b, p, k)
    PROVE  /\ ChainsOK' /\ Fresh(c, "offer", "query", w)
           /\ chains'[c].deposit = 0 /\ chains'[c].funding = 0
<1>1. p \in Nat /\ k \in KeyOrNone /\ None \in KeyOrNone /\ "offer" \in Kind /\ "query" \in Method
  BY InputConstants DEF KeyOrNone, Kind, Method
<1>2. PICK x : x = Chain("offer", "query", w)
  OBVIOUS
<1>3. x \in ChainRecord /\ x.expected = None /\ x.deposit = 0 /\ x.funding = 0
  BY <1>1, <1>2, ChainBase DEF TypeInv
<1>4. [x EXCEPT !.user = u, !.other = b, !.key = k, !.price = p]
        = With(x, u, b, k, None, p, 0, 0)
  BY <1>3 DEF With, ChainRecord
<1>5. Starts(c, "offer", "query", w, u, b, k, None, p, 0, 0)
  BY <1>2, <1>4 DEF accept_offer, Starts
<1> QED BY <1>1, <1>5, NewChain, MethodFacts DEF TypeInv

LEMMA ListType ==
    ASSUME TypeInv, NEW c \in Slots, NEW u \in Users, NEW w \in Wallets, NEW p \in Prices,
           NEW k \in Keys, list_sub_account(c, u, w, p, k)
    PROVE  TypeInv'
BY ListStarts, TypeFrame DEF list_sub_account, nameVars, worldVars, tokenVars

LEMMA OfferType ==
    ASSUME TypeInv, NEW c \in Slots, NEW u \in Users, NEW w \in Wallets, NEW b \in Users,
           NEW p \in Prices, NEW k \in Keys, accept_offer(c, u, w, b, p, k)
    PROVE  TypeInv'
BY OfferStarts, TypeFrame DEF accept_offer, nameVars, worldVars, tokenVars

LEMMA ListedType ==
    ASSUME TypeInv, NEW c \in Slots, on_listing_verified(c)
    PROVE  TypeInv'
<1> DEFINE q == chains[c]
           l == [price |-> q.price, settling |-> FALSE, owner_key |-> q.key]
<1>1. InFlight(c) /\ GoodChain(q) /\ q.price \in Nat /\ q.kind = "list"
  BY ChainTyped DEF on_listing_verified, CallbackDue, TypeInv
<1>2. l \in Listing
  BY <1>1 DEF Listing, GoodChain
<1> HIDE DEF l
<1>3. listings' = listings \/ listings' = [listings EXCEPT ![q.wallet] = l]
  BY DEF on_listing_verified, l
<1>4. SalesOK'
  BY <1>2, <1>3 DEF on_listing_verified, TypeInv, SalesOK
<1>5. ChainsOK'
  BY ChainEnds DEF on_listing_verified, TypeInv
<1> QED BY <1>4, <1>5, TypeFrame DEF on_listing_verified, nameVars, worldVars, tokenVars

LEMMA OfferedType ==
    ASSUME TypeInv, NEW c \in Slots, on_offer_verified(c)
    PROVE  TypeInv'
<1> DEFINE q == chains[c]
           l == [buyer |-> q.other, price |-> q.price, settling |-> FALSE, owner_key |-> q.key]
<1>1. InFlight(c) /\ GoodChain(q) /\ q.price \in Nat /\ q.kind = "offer"
  BY ChainTyped DEF on_offer_verified, CallbackDue, TypeInv
<1>2. l \in AcceptedOffer
  BY <1>1 DEF AcceptedOffer, GoodChain
<1> HIDE DEF l
<1>3. \/ accepted_offers' = accepted_offers
      \/ accepted_offers' = [accepted_offers EXCEPT ![q.wallet] = l]
  BY DEF on_offer_verified, l
<1>4. SalesOK'
  BY <1>2, <1>3 DEF on_offer_verified, TypeInv, SalesOK
<1>5. ChainsOK'
  BY ChainEnds DEF on_offer_verified, TypeInv
<1> QED BY <1>4, <1>5, TypeFrame DEF on_offer_verified, nameVars, worldVars, tokenVars

LEMMA WithdrawnType ==
    ASSUME TypeInv, NEW u \in Users, NEW w \in Wallets,
           unlist_sub_account(u, w) \/ revoke_offer(u, w)
    PROVE  TypeInv'
<1>1. SalesOK'
  BY DEF unlist_sub_account, revoke_offer, TypeInv, SalesOK
<1> QED BY <1>1, TypeFrame DEF unlist_sub_account, revoke_offer, nameVars, worldVars, tokenVars

LEMMA UnlockedType ==
    ASSUME SalesOK, NEW w \in Wallets, clear_settling(w)
    PROVE  SalesOK'
<1>1. Unlocked(listings[w]) \in Listing \cup {None}
  BY SaleFields DEF Unlocked, Listing
<1>2. Unlocked(accepted_offers[w]) \in AcceptedOffer \cup {None}
  BY SaleFields DEF Unlocked, AcceptedOffer
<1> QED BY <1>1, <1>2 DEF SalesOK, clear_settling

LEMMA LockedType ==
    ASSUME SalesOK, NEW w \in Wallets, NEW b, Terms(w, b) # None, LockTerms(w, b)
    PROVE  /\ SalesOK' /\ Terms(w, b).price \in Nat /\ Terms(w, b).owner_key \in Keys
           /\ ~SaleIdle(w)'
<1>1. CASE HasOffer(w, b)
  <2>1. accepted_offers[w] \in AcceptedOffer
    BY <1>1, SaleFields DEF HasOffer
  <2>2. [accepted_offers[w] EXCEPT !.settling = TRUE] \in AcceptedOffer
    BY <2>1 DEF AcceptedOffer
  <2>3. accepted_offers'[w] = [accepted_offers[w] EXCEPT !.settling = TRUE] /\ SalesOK'
    BY <1>1, <2>2 DEF LockTerms, SalesOK
  <2>4. accepted_offers'[w] # None /\ accepted_offers'[w].settling
    BY <2>1, <2>2, <2>3, RegistryNone DEF AcceptedOffer
  <2> QED BY <1>1, <2>1, <2>3, <2>4, SaleFields DEF Terms, HasOffer, SaleIdle
<1>2. CASE ~HasOffer(w, b)
  <2>1. listings[w] \in Listing
    BY <1>2, SaleFields DEF Terms
  <2>2. [listings[w] EXCEPT !.settling = TRUE] \in Listing
    BY <2>1 DEF Listing
  <2>3. listings'[w] = [listings[w] EXCEPT !.settling = TRUE] /\ SalesOK'
    BY <1>2, <2>2 DEF LockTerms, SalesOK
  <2>4. listings'[w] # None /\ listings'[w].settling
    BY <2>1, <2>2, <2>3, RegistryNone DEF Listing
  <2> QED BY <1>2, <2>1, <2>3, <2>4, SaleFields DEF Terms, SaleIdle
<1> QED BY <1>1, <1>2

\* A purchase, of either kind.
LEMMA BuyStarts ==
    ASSUME TypeInv, NEW c \in Slots, NEW u \in Users, NEW w \in Wallets, NEW k \in Keys,
           NEW d \in Payments, buy_sub_account(c, u, w, k, d)
    PROVE  /\ ChainsOK' /\ SalesOK' /\ ~SaleIdle(w)'
           /\ Fresh(c, "buy", GateMethod, w) /\ GateMethod \in {"balances", "transfer"}
           /\ chains'[c].deposit = d /\ chains'[c].funding = 0 /\ chains'[c].price <= d
<1>1. /\ d \in Nat /\ k \in KeyOrNone /\ None \in KeyOrNone /\ "buy" \in Kind
      /\ GateMethod \in {"balances", "transfer"} /\ GateMethod \in Method
  BY InputConstants DEF KeyOrNone, Kind, Method, GateMethod
<1>2. Terms(w, u) # None /\ LockTerms(w, u)
  BY DEF buy_sub_account, resolve_and_lock_sale
<1>3. PICK e \in Keys, p \in Nat : e = Terms(w, u).owner_key /\ p = Terms(w, u).price
  BY <1>2, LockedType DEF TypeInv
<1>4. SalesOK' /\ ~SaleIdle(w)' /\ e \in KeyOrNone
  BY <1>2, LockedType DEF TypeInv, KeyOrNone
<1>5. PICK x, m : x = Chain("buy", GateMethod, w) /\ m = GateMethod
  OBVIOUS
<1>6. x \in ChainRecord /\ x.other = None /\ x.deposit = 0 /\ x.funding = 0
  BY <1>1, <1>5, ChainBase DEF TypeInv
<1>7. [[x EXCEPT !.user = u, !.key = k, !.expected = e, !.price = p] EXCEPT !.deposit = d]
        = With(x, u, None, k, e, p, d, 0)
  BY <1>6 DEF With, ChainRecord
<1>8. Starts(c, "buy", m, w, u, None, k, e, p, d, 0)
  BY <1>3, <1>5, <1>7 DEF buy_sub_account, PendingBuy, Starts
<1>9. m \in MethodsOf("buy")
  BY <1>1, <1>5, MethodFacts
<1>10. /\ ChainsOK' /\ Fresh(c, "buy", m, w)
       /\ chains'[c].deposit = d /\ chains'[c].funding = 0 /\ chains'[c].price = p
  <2>1. /\ ConfigOK /\ ChainsOK /\ w \in Wallets \cup {None} /\ u \in Users \cup {None}
        /\ None \in Users \cup {None}
    BY DEF TypeInv
  <2> QED BY <1>1, <1>4, <1>8, <1>9, <2>1, NewChain
<1>11. p <= d
  BY <1>1, <1>3 DEF buy_sub_account, resolve_and_lock_sale
<1> QED BY <1>1, <1>4, <1>5, <1>10, <1>11

LEMMA BuyType ==
    ASSUME TypeInv, NEW c \in Slots, NEW u \in Users, NEW w \in Wallets, NEW k \in Keys,
           NEW d \in Payments, buy_sub_account(c, u, w, k, d)
    PROVE  TypeInv'
<1>1. funds' \in Funds
  BY FundsMove, InputConstants DEF buy_sub_account, TypeInv
<1> QED BY <1>1, BuyStarts, TypeFrame DEF buy_sub_account, nameVars, worldVars, tokenVars

LEMMA BuyPaidStarts ==
    ASSUME TypeInv, NEW c \in Slots, NEW u \in Users, NEW b \in Users, NEW w \in Wallets,
           NEW k \in Keys, buy_sub_account_paid(c, u, b, w, k)
    PROVE  /\ ChainsOK' /\ SalesOK' /\ ~SaleIdle(w)'
           /\ Fresh(c, "buy_paid", GateMethod, w) /\ GateMethod \in {"balances", "transfer"}
           /\ chains'[c].deposit = 0 /\ chains'[c].funding = 0
<1>1. /\ k \in KeyOrNone /\ None \in KeyOrNone /\ "buy_paid" \in Kind
      /\ GateMethod \in {"balances", "transfer"} /\ GateMethod \in Method
  BY InputConstants DEF KeyOrNone, Kind, Method, GateMethod
<1>2. Terms(w, b) # None /\ LockTerms(w, b)
  BY DEF buy_sub_account_paid, resolve_and_lock_paid_sale
<1>3. PICK e \in Keys, p \in Nat : e = Terms(w, b).owner_key /\ p = Terms(w, b).price
  BY <1>2, LockedType DEF TypeInv
<1>4. SalesOK' /\ ~SaleIdle(w)' /\ e \in KeyOrNone
  BY <1>2, LockedType DEF TypeInv, KeyOrNone
<1>5. PICK x, m : x = Chain("buy_paid", GateMethod, w) /\ m = GateMethod
  OBVIOUS
<1>6. x \in ChainRecord /\ x.deposit = 0 /\ x.funding = 0
  BY <1>1, <1>5, ChainBase DEF TypeInv
<1>7. [[x EXCEPT !.user = b, !.key = k, !.expected = e, !.price = p] EXCEPT !.other = u]
        = With(x, b, u, k, e, p, 0, 0)
  BY <1>6 DEF With, ChainRecord
<1>8. Starts(c, "buy_paid", m, w, b, u, k, e, p, 0, 0)
  BY <1>3, <1>5, <1>7 DEF buy_sub_account_paid, PendingBuy, Starts
<1>9. m \in MethodsOf("buy_paid")
  BY <1>1, <1>5, MethodFacts
<1>10. ChainsOK' /\ Fresh(c, "buy_paid", m, w) /\ chains'[c].deposit = 0 /\ chains'[c].funding = 0
  BY <1>1, <1>4, <1>8, <1>9, NewChain DEF TypeInv
<1> QED BY <1>1, <1>4, <1>5, <1>10

LEMMA BuyPaidType ==
    ASSUME TypeInv, NEW c \in Slots, NEW u \in Users, NEW b \in Users, NEW w \in Wallets,
           NEW k \in Keys, buy_sub_account_paid(c, u, b, w, k)
    PROVE  TypeInv'
BY BuyPaidStarts, TypeFrame DEF buy_sub_account_paid, nameVars, worldVars, tokenVars

LEMMA CallbackTyped ==
    ASSUME ChainsOK, NEW c \in Slots, NEW kinds, NEW methods, CallbackDue(c, kinds, methods)
    PROVE  /\ InFlight(c) /\ GoodChain(chains[c])
           /\ chains[c].kind \in kinds /\ chains[c].method \in methods
           /\ chains[c].result \in Replies(chains[c].method)
           /\ chains[c].deposit \in Nat /\ chains[c].price \in Nat /\ chains[c].funding \in Nat
<1>1. InFlight(c) /\ chains[c].result # "pending"
  BY DEF CallbackDue
<1> QED BY <1>1, ChainTyped DEF CallbackDue, GoodChain

LEMMA BuyGateType ==
    ASSUME TypeInv, NEW c \in Slots, on_buy_balances_checked(c)
    PROVE  TypeInv'
<1>1. /\ InFlight(c) /\ GoodChain(chains[c]) /\ chains[c].kind = "buy"
      /\ chains[c].deposit \in Nat /\ chains[c].user \in Users /\ chains[c].wallet \in Wallets
  BY CallbackTyped DEF on_buy_balances_checked, TypeInv, GoodChain
<1>2. CASE chains[c].result = "blocked"
  <2>1. funds' \in Funds /\ SalesOK' /\ ChainsOK'
    BY <1>1, <1>2, FundsRefund, UnlockedType, ChainEnds
       DEF on_buy_balances_checked, abort_sale, TypeInv
  <2> QED BY <2>1, TypeFrame DEF on_buy_balances_checked, nameVars, worldVars, tokenVars
<1>3. CASE chains[c].result # "blocked"
  <2>1. ChainsOK'
    BY <1>1, <1>3, ChainProceeds, MethodFacts DEF on_buy_balances_checked, TypeInv
  <2> QED BY <1>3, <2>1, TypeFrame DEF on_buy_balances_checked, nameVars, worldVars, tokenVars
<1> QED BY <1>2, <1>3

LEMMA BuyPaidGateType ==
    ASSUME TypeInv, NEW c \in Slots, on_buy_paid_balances_checked(c)
    PROVE  TypeInv'
<1>1. /\ InFlight(c) /\ GoodChain(chains[c]) /\ chains[c].kind = "buy_paid"
      /\ chains[c].wallet \in Wallets
  BY CallbackTyped DEF on_buy_paid_balances_checked, TypeInv, GoodChain
<1>2. CASE chains[c].result = "blocked"
  <2>1. SalesOK' /\ ChainsOK'
    BY <1>1, <1>2, UnlockedType, ChainEnds DEF on_buy_paid_balances_checked, TypeInv
  <2> QED BY <2>1, TypeFrame DEF on_buy_paid_balances_checked, nameVars, worldVars, tokenVars
<1>3. CASE chains[c].result # "blocked"
  <2>1. ChainsOK'
    BY <1>1, <1>3, ChainProceeds, MethodFacts DEF on_buy_paid_balances_checked, TypeInv
  <2> QED BY <1>3, <2>1, TypeFrame
          DEF on_buy_paid_balances_checked, nameVars, worldVars, tokenVars
<1> QED BY <1>2, <1>3

LEMMA LinksKept ==
    ASSUME LinksOK, UNCHANGED tlas, \A w \in Wallets : Rented(w)' => Rented(w)
    PROVE  LinksOK'
BY DEF LinksOK, Tla

\* A name gets another entry, or none.
SetEntry(w, e) == sub_accounts' = [sub_accounts EXCEPT ![w] = e]

LEMMA EntryChange ==
    ASSUME NamesOK, NEW w \in Wallets, NEW e \in SubAccountEntry \cup {None}, SetEntry(w, e)
    PROVE  /\ sub_accounts' \in [Wallets -> SubAccountEntry \cup {None}]
           /\ sub_accounts'[w] = e /\ (Rented(w)' <=> e # None)
           /\ \A v \in Wallets \ {w} : sub_accounts'[v] = sub_accounts[v]
           /\ \A v \in Wallets \ {w} : Rented(v)' <=> Rented(v)
BY DEF NamesOK, Rented, SetEntry

LEMMA TenantChange ==
    ASSUME NamesOK, NEW w \in Wallets, Rented(w), NEW o \in Users, NEW m \in Accounts,
           sub_accounts' = NewTenant(w, o, m)
    PROVE  /\ sub_accounts' \in [Wallets -> SubAccountEntry \cup {None}]
           /\ sub_accounts'[w].expires_at = sub_accounts[w].expires_at
           /\ sub_accounts'[w].retraction_at = sub_accounts[w].retraction_at
           /\ \A v \in Wallets \ {w} : sub_accounts'[v] = sub_accounts[v]
           /\ \A v \in Wallets : Rented(v)' <=> Rented(v)
<1>1. PICK x, e : x = sub_accounts[w] /\ e = [x EXCEPT !.owner = o, !.main_wallet = m]
  OBVIOUS
<1>2. x \in SubAccountEntry
  BY <1>1, NameFields
<1>3. /\ e \in SubAccountEntry
      /\ e.expires_at = x.expires_at /\ e.retraction_at = x.retraction_at
  BY <1>1, <1>2 DEF SubAccountEntry
<1>4. SetEntry(w, e) /\ e # None
  BY <1>1, <1>3, RegistryNone DEF NewTenant, SetEntry
<1>5. /\ sub_accounts' \in [Wallets -> SubAccountEntry \cup {None}]
      /\ sub_accounts'[w] = e /\ Rented(w)'
      /\ \A v \in Wallets \ {w} : sub_accounts'[v] = sub_accounts[v]
      /\ \A v \in Wallets \ {w} : Rented(v)' <=> Rented(v)
  BY <1>3, <1>4, EntryChange
<1> QED BY <1>1, <1>3, <1>5

LEMMA ClearedType ==
    ASSUME SalesOK, NEW w \in Wallets, NEW sold, OrClear(w, sold)
    PROVE  SalesOK'
<1>1. CASE sold
  BY <1>1 DEF OrClear, SalesOK
<1>2. CASE ~sold
  BY <1>2, UnlockedType DEF OrClear
<1> QED BY <1>1, <1>2

LEMMA SettledType ==
    ASSUME TypeInv, NEW c \in Slots, InFlight(c), chains[c].kind = "buy", Rented(chains[c].wallet)
    PROVE  /\ SettledFunds(chains[c]) \in Funds
           /\ SettledFunds(chains[c]).revenue >= funds.revenue
<1>1. PICK s, bps, u : /\ s = chains[c] /\ bps = fee_config.resale_commission_bps
                       /\ u = sub_accounts[chains[c].wallet].owner
  OBVIOUS
<1>2. /\ s.price \in Nat /\ s.deposit \in Nat /\ s.user \in Users /\ bps \in Nat /\ u \in Users
  BY <1>1, ChainTyped, FeeFields, NameFields DEF TypeInv, GoodChain
<1>3. Commission(s.price, bps) \in Nat /\ SellerProceeds(s.price, bps) \in Nat
  BY <1>2, ResaleSplit
<1>4. /\ Earn(funds, Commission(s.price, bps)) \in Funds
      /\ Earn(funds, Commission(s.price, bps)).revenue
           = funds.revenue + Commission(s.price, bps)
  BY <1>3, FundsMove DEF TypeInv
<1>5. PICK f : f = Refund(Earn(funds, Commission(s.price, bps)), u, SellerProceeds(s.price, bps))
  OBVIOUS
<1>6. f \in Funds /\ f.revenue = funds.revenue + Commission(s.price, bps)
  BY <1>2, <1>3, <1>4, <1>5, FundsRefund
<1>7. /\ refund_excess(f, s.user, s.deposit, s.price) \in Funds
      /\ refund_excess(f, s.user, s.deposit, s.price).revenue = f.revenue
  BY <1>2, <1>6, FundsExcess
<1>8. SettledFunds(s) = refund_excess(f, s.user, s.deposit, s.price)
  BY <1>1, <1>5 DEF SettledFunds
<1>9. funds.revenue \in Nat
  BY FundsFields DEF TypeInv
<1> QED BY <1>1, <1>3, <1>6, <1>7, <1>8, <1>9

LEMMA SoldType ==
    ASSUME TypeInv, NEW c \in Slots, on_sub_account_sold(c)
    PROVE  TypeInv'
<1>1. /\ InFlight(c) /\ GoodChain(chains[c]) /\ chains[c].kind = "buy"
      /\ chains[c].deposit \in Nat /\ chains[c].user \in Users /\ chains[c].wallet \in Wallets
  BY CallbackTyped DEF on_sub_account_sold, TypeInv, GoodChain
<1>2. SalesOK' /\ ChainsOK'
  BY <1>1, ClearedType, ChainEnds DEF on_sub_account_sold, TypeInv
<1>3. CASE Sold(chains[c])
  <2>1. funds' \in Funds
    BY <1>1, <1>3, SettledType DEF on_sub_account_sold, Sold
  <2>2. NamesOK' /\ LinksOK'
    BY <1>1, <1>3, TenantChange, LinksKept DEF on_sub_account_sold, Sold, TypeInv, NamesOK, Accounts
  <2> QED BY <1>2, <2>1, <2>2, TypeFrame DEF on_sub_account_sold, worldVars, tokenVars
<1>4. CASE ~Sold(chains[c])
  <2>1. funds' \in Funds
    BY <1>1, <1>4, FundsRefund DEF on_sub_account_sold, TypeInv
  <2> QED BY <1>2, <1>4, <2>1, TypeFrame DEF on_sub_account_sold, nameVars, worldVars, tokenVars
<1> QED BY <1>3, <1>4

LEMMA SoldPaidType ==
    ASSUME TypeInv, NEW c \in Slots, on_sub_account_sold_paid(c)
    PROVE  TypeInv'
<1>1. /\ InFlight(c) /\ GoodChain(chains[c]) /\ chains[c].kind = "buy_paid"
      /\ chains[c].other \in Users /\ chains[c].user \in Users /\ chains[c].wallet \in Wallets
  BY CallbackTyped DEF on_sub_account_sold_paid, TypeInv, GoodChain
<1>2. SalesOK' /\ ChainsOK'
  BY <1>1, ClearedType, ChainEnds DEF on_sub_account_sold_paid, TypeInv
<1>3. CASE Sold(chains[c])
  <2>1. NamesOK' /\ LinksOK'
    BY <1>1, <1>3, TenantChange, LinksKept
       DEF on_sub_account_sold_paid, Sold, TypeInv, NamesOK, Accounts
  <2> QED BY <1>2, <2>1, TypeFrame DEF on_sub_account_sold_paid, worldVars, tokenVars
<1>4. CASE ~Sold(chains[c])
  BY <1>2, <1>4, TypeFrame DEF on_sub_account_sold_paid, nameVars, worldVars, tokenVars
<1> QED BY <1>3, <1>4

\* A TLA gets another entry; it never loses the one it has.
SetEntryOf(t, e) == tlas' = [tlas EXCEPT ![t] = e]

LEMMA TlaChange ==
    ASSUME TlasOK, LinksOK, NEW t \in Tlas, NEW e \in TlaEntry, SetEntryOf(t, e),
           UNCHANGED sub_accounts
    PROVE  /\ TlasOK' /\ LinksOK' /\ tlas'[t] = e /\ e # None
           /\ \A s \in Tlas \ {t} : tlas'[s] = tlas[s]
<1>1. e # None
  BY RegistryNone
<1>2. TlasOK' /\ tlas'[t] = e /\ \A s \in Tlas \ {t} : tlas'[s] = tlas[s]
  BY DEF TlasOK, SetEntryOf
<1>3. \A w \in Wallets : TlaOf[w] \in Tlas
  BY RegistryConstants
<1>4. LinksOK'
  BY <1>1, <1>2, <1>3 DEF LinksOK, Tla, Rented
<1> QED BY <1>1, <1>2, <1>4

LEMMA RenewedIsLater ==
    ASSUME WorldOK, NEW e \in Nat
    PROVE  Renewed(e) \in Nat /\ Renewed(e) >= e /\ Renewed(e) > now
BY RegistryConstants DEF WorldOK, Renewed

\* What a payment that is charged at once does to the books.
LEMMA ChargedType ==
    ASSUME NEW f \in Funds, NEW u \in Users, NEW attached \in Nat, NEW fee \in Nat
    PROVE  refund_excess(Earn(Receive(f, attached), fee), u, attached, fee) \in Funds
<1>1. Receive(f, attached) \in Funds
  BY FundsMove
<1>2. Earn(Receive(f, attached), fee) \in Funds
  BY <1>1, FundsMove
<1> QED BY <1>2, FundsExcess

LEMMA ActivateEntry ==
    ASSUME TypeInv, NEW u \in Users, NEW t \in Tlas, NEW paid \in Payments,
           activate_tla(u, t, paid)
    PROVE  \E e \in TlaEntry :
             /\ SetEntryOf(t, e) /\ tlas[t] # None /\ tlas[t].status = "Registered"
             /\ e.status = "Active" /\ e.expires_at = now + Year /\ e.tla_type = tlas[t].tla_type
             /\ e.premium_category = tlas[t].premium_category /\ e.licensee = tlas[t].licensee
             /\ e.tla_type = "Business"
<1>1. PICK x, e : x = tlas[t] /\ e = [x EXCEPT !.status = "Active", !.expires_at = now + Year]
  OBVIOUS
<1>2. x \in TlaEntry /\ now + Year \in Nat
  BY <1>1, TlaFields, RegistryConstants DEF TypeInv, activate_tla, WorldOK
<1>3. /\ e \in TlaEntry /\ e.status = "Active" /\ e.expires_at = now + Year
      /\ e.tla_type = x.tla_type /\ e.premium_category = x.premium_category
      /\ e.licensee = x.licensee
  BY <1>1, <1>2 DEF TlaEntry
<1>4. SetEntryOf(t, e) /\ x # None /\ x.status = "Registered" /\ x.tla_type = "Business"
  BY <1>1 DEF activate_tla, SetEntryOf, IsBusiness
<1> QED BY <1>1, <1>3, <1>4

LEMMA ActivateType ==
    ASSUME TypeInv, NEW u \in Users, NEW t \in Tlas, NEW paid \in Payments,
           activate_tla(u, t, paid)
    PROVE  TypeInv'
<1>1. TlasOK' /\ LinksOK'
  BY ActivateEntry, TlaChange DEF TypeInv, activate_tla, nameVars
<1>2. fee_config.tla_allocation_fee + TlaRent(t) \in Nat /\ paid \in Nat
  BY FeeFields, TlaRentIsNat, InputConstants DEF TypeInv
<1>3. funds' \in Funds
  BY <1>2, ChargedType DEF activate_tla, TypeInv
<1> QED BY <1>1, <1>3, TypeFrame DEF activate_tla, worldVars, tokenVars

LEMMA RenewTlaEntry ==
    ASSUME TypeInv, NEW u \in Users, NEW t \in Tlas, NEW paid \in Payments,
           renew_tla(u, t, paid)
    PROVE  \E e \in TlaEntry :
             /\ SetEntryOf(t, e) /\ tlas[t] # None
             /\ e.status = tlas[t].status /\ tlas[t].status = "Active"
             /\ e.expires_at = Renewed(tlas[t].expires_at) /\ e.tla_type = tlas[t].tla_type
             /\ e.premium_category = tlas[t].premium_category /\ e.licensee = tlas[t].licensee
<1>1. PICK x, n, e : /\ x = tlas[t] /\ n = Renewed(tlas[t].expires_at)
                     /\ e = [x EXCEPT !.expires_at = n]
  OBVIOUS
<1>2. x \in TlaEntry /\ n \in Nat
  BY <1>1, TlaFields, RenewedIsLater DEF TypeInv, renew_tla
<1>3. /\ e \in TlaEntry /\ e.status = x.status /\ e.expires_at = n
      /\ e.tla_type = x.tla_type /\ e.premium_category = x.premium_category
      /\ e.licensee = x.licensee
  BY <1>1, <1>2 DEF TlaEntry
<1>4. tlas' = [tlas EXCEPT ![t] = [x EXCEPT !.expires_at = n]]
  BY <1>1 DEF renew_tla
<1>5. SetEntryOf(t, e) /\ x # None /\ x.status = "Active"
  BY <1>1, <1>4 DEF renew_tla, SetEntryOf
<1> QED BY <1>1, <1>3, <1>5

LEMMA RenewTlaType ==
    ASSUME TypeInv, NEW u \in Users, NEW t \in Tlas, NEW paid \in Payments,
           renew_tla(u, t, paid)
    PROVE  TypeInv'
<1>1. TlasOK' /\ LinksOK'
  BY RenewTlaEntry, TlaChange DEF TypeInv, renew_tla, nameVars
<1>2. TlaRent(t) \in Nat /\ paid \in Nat
  BY TlaRentIsNat, InputConstants DEF TypeInv
<1>3. funds' \in Funds
  BY <1>2, ChargedType DEF renew_tla, TypeInv
<1> QED BY <1>1, <1>3, TypeFrame DEF renew_tla, worldVars, tokenVars

LEMMA NewEntryType ==
    ASSUME WorldOK, NEW u \in Users, NEW m \in Accounts
    PROVE  NewEntry(u, m) \in SubAccountEntry /\ NewEntry(u, m) # None
<1>1. now + Year \in Nat
  BY RegistryConstants DEF WorldOK
<1>2. NewEntry(u, m) \in SubAccountEntry
  BY <1>1 DEF NewEntry, SubAccountEntry
<1> QED BY <1>2, RegistryNone

LEMMA BumpType ==
    ASSUME TypeInv, NEW t \in Tlas, business_count_check_and_bump(t)
    PROVE  business_sub_count' \in [Tlas -> Nat]
BY DEF TypeInv, CountsOK, business_count_check_and_bump

LEMMA DropType ==
    ASSUME TypeInv, NEW t \in Tlas, business_count_decrement_if_business(t)
    PROVE  business_sub_count' \in [Tlas -> Nat]
<1>1. business_sub_count[t] \in Nat /\ saturating_sub(business_sub_count[t], 1) \in Nat
  BY SaturatingSub DEF TypeInv, CountsOK
<1> QED BY <1>1 DEF TypeInv, CountsOK, business_count_decrement_if_business

LEMMA DefaultType ==
    ASSUME TypeInv, NEW u \in Users, ensure_mother_default(u)
    PROVE  AnchorsOK'
<1>1. u \in Accounts
  BY DEF Accounts
<1> QED BY <1>1 DEF TypeInv, AnchorsOK, ensure_mother_default, increment_mother_use, anchorVars

LEMMA EnterType ==
    ASSUME TypeInv, NEW w \in Wallets, NEW u \in Users, NEW m \in Accounts, Enter(w, u, m),
           Tla(w) # None, UNCHANGED <<tlas, parked_names, signer_pending, sub_account_count>>
    PROVE  AnchorsOK' /\ CountsOK' /\ NamesOK' /\ LinksOK'
<1>1. TlaOf[w] \in Tlas
  BY RegistryConstants
<1>2. AnchorsOK' /\ CountsOK'
  BY <1>1, DefaultType, BumpType DEF Enter, TypeInv, CountsOK
<1>3. SetEntry(w, NewEntry(u, m)) /\ NewEntry(u, m) \in SubAccountEntry /\ NewEntry(u, m) # None
  BY NewEntryType DEF Enter, SetEntry, TypeInv
<1>4. /\ sub_accounts' \in [Wallets -> SubAccountEntry \cup {None}]
      /\ \A v \in Wallets \ {w} : Rented(v)' <=> Rented(v)
  BY <1>3, EntryChange DEF TypeInv
<1> QED BY <1>2, <1>4 DEF TypeInv, NamesOK, LinksOK, Tla

LEMMA RentStarts ==
    ASSUME TypeInv, NEW c \in Slots, NEW u \in Users, NEW w \in Wallets, NEW k \in Keys,
           NEW m \in Accounts, NEW paid \in Payments, rent_sub_account(c, u, w, k, m, paid)
    PROVE  /\ ChainsOK'
           /\ w \in parked_names => \E g \in {"balances", "transfer"} :
                                       g = GateMethod /\ Fresh(c, "rerent", g, w)
           /\ w \notin parked_names => Fresh(c, "mint", "create", w)
           /\ chains'[c].deposit = paid /\ chains'[c].price = Rent(w)
           /\ Rent(w) \in Nat /\ chains'[c].funding \in Nat /\ paid >= Rent(w) + chains'[c].funding
           /\ chains'[c].user = u
           /\ funds' = Spend(Receive(funds, paid), chains'[c].funding)
           /\ w \in parked_names => chains'[c].funding = 0
           /\ w \notin parked_names =>
                chains'[c].funding = fee_config.account_creation_deposit
<1>1. PICK kind, method, creation, rent :
        /\ kind = (IF w \in parked_names THEN "rerent" ELSE "mint")
        /\ method = (IF w \in parked_names THEN GateMethod ELSE "create")
        /\ creation = (IF w \in parked_names THEN 0 ELSE fee_config.account_creation_deposit)
        /\ rent = Rent(w)
  OBVIOUS
<1>2. creation \in Nat /\ rent \in Nat /\ paid \in Nat
  BY <1>1, FeeFields, RentIsNat, InputConstants
     DEF TypeInv, rent_sub_account, is_accepting_rentals, Tla
<1>3. /\ kind \in Kind /\ kind \notin {"offer", "buy", "buy_paid", "claim"}
      /\ method \in Method /\ method \in MethodsOf(kind)
      /\ k \in KeyOrNone /\ None \in KeyOrNone
      /\ w \in parked_names => kind = "rerent" /\ method \in {"balances", "transfer"}
      /\ w \notin parked_names => kind = "mint" /\ method = "create"
  BY <1>1, MethodFacts DEF GateMethod, Kind, Method, KeyOrNone, Minting
<1>4. PICK x : x = Chain(kind, method, w)
  OBVIOUS
<1>5. x \in ChainRecord /\ x.other = None /\ x.expected = None
  BY <1>3, <1>4, ChainBase DEF TypeInv
<1>6. [x EXCEPT !.user = u, !.key = k, !.price = rent, !.deposit = paid, !.funding = creation]
        = With(x, u, None, k, None, rent, paid, creation)
  BY <1>5 DEF With, ChainRecord
<1>7. Starts(c, kind, method, w, u, None, k, None, rent, paid, creation)
  BY <1>1, <1>4, <1>6 DEF rent_sub_account, Starts
<1>8. /\ ChainsOK' /\ Fresh(c, kind, method, w) /\ chains'[c].user = u
      /\ chains'[c].price = rent /\ chains'[c].deposit = paid /\ chains'[c].funding = creation
  BY <1>2, <1>3, <1>7, NewChain DEF TypeInv
<1>9. paid >= rent + creation /\ funds' = Spend(Receive(funds, paid), creation)
  BY <1>1 DEF rent_sub_account
<1> QED BY <1>1, <1>2, <1>3, <1>8, <1>9

LEMMA AdvanceFunds ==
    ASSUME NEW f \in Funds, NEW paid \in Nat, NEW creation \in Nat, paid >= creation
    PROVE  /\ Spend(Receive(f, paid), creation) \in Funds
           /\ Spend(Receive(f, paid), creation).revenue = f.revenue
<1>1. Receive(f, paid) \in Funds /\ Receive(f, paid).balance = f.balance + paid
      /\ Receive(f, paid).revenue = f.revenue
  BY FundsMove
<1>2. creation <= Receive(f, paid).balance
  BY <1>1, FundsFields
<1> QED BY <1>1, <1>2, FundsMove

LEMMA RentType ==
    ASSUME TypeInv, NEW c \in Slots, NEW u \in Users, NEW w \in Wallets, NEW k \in Keys,
           NEW m \in Accounts, NEW paid \in Payments, rent_sub_account(c, u, w, k, m, paid)
    PROVE  TypeInv'
<1>1. AnchorsOK' /\ CountsOK' /\ NamesOK' /\ LinksOK'
  BY EnterType DEF rent_sub_account, is_accepting_rentals, Tla
<1>2. PICK n \in Nat : /\ paid >= Rent(w) + n /\ funds' = Spend(Receive(funds, paid), n)
                      /\ Rent(w) \in Nat
  BY RentStarts
<1>3. paid \in Nat /\ paid >= n
  BY <1>2, InputConstants
<1>4. funds' \in Funds
  BY <1>2, <1>3, AdvanceFunds DEF TypeInv
<1>5. ChainsOK'
  BY RentStarts
<1> QED BY <1>1, <1>4, <1>5, TypeFrame DEF rent_sub_account, worldVars, tokenVars

LEMMA RentPaidStarts ==
    ASSUME TypeInv, NEW c \in Slots, NEW u \in Users, NEW w \in Wallets, NEW k \in Keys,
           NEW m \in Accounts, NEW paid \in Payments, rent_sub_account_paid(c, u, w, k, m, paid)
    PROVE  /\ ChainsOK' /\ Fresh(c, "mint_paid", "create", w) /\ chains'[c].user = u
           /\ chains'[c].funding = fee_config.account_creation_deposit
           /\ chains'[c].deposit = paid /\ Rent(w) \in Nat
<1>1. PICK creation, rent : creation = fee_config.account_creation_deposit /\ rent = Rent(w)
  OBVIOUS
<1>2. creation \in Nat /\ rent \in Nat /\ paid \in Nat
  BY <1>1, FeeFields, RentIsNat, InputConstants
     DEF TypeInv, rent_sub_account_paid, is_accepting_rentals, Tla
<1>3. /\ "mint_paid" \in Kind /\ "create" \in Method /\ "create" \in MethodsOf("mint_paid")
      /\ k \in KeyOrNone /\ None \in KeyOrNone
  BY MethodFacts DEF Kind, Method, KeyOrNone, Minting
<1>4. PICK x : x = Chain("mint_paid", "create", w)
  OBVIOUS
<1>5. x \in ChainRecord /\ x.other = None /\ x.expected = None
  BY <1>3, <1>4, ChainBase DEF TypeInv
<1>6. [x EXCEPT !.user = u, !.key = k, !.price = rent, !.deposit = paid, !.funding = creation]
        = With(x, u, None, k, None, rent, paid, creation)
  BY <1>5 DEF With, ChainRecord
<1>7. Starts(c, "mint_paid", "create", w, u, None, k, None, rent, paid, creation)
  BY <1>1, <1>4, <1>6 DEF rent_sub_account_paid, Starts
<1>8. /\ ChainsOK' /\ Fresh(c, "mint_paid", "create", w) /\ chains'[c].user = u
      /\ chains'[c].deposit = paid /\ chains'[c].funding = creation
  <2>1. ConfigOK /\ ChainsOK /\ w \in Wallets \cup {None} /\ u \in Users \cup {None}
        /\ None \in Users \cup {None}
    BY DEF TypeInv
  <2> QED BY <1>2, <1>3, <1>7, <2>1, NewChain
<1> QED BY <1>1, <1>2, <1>8

LEMMA RentPaidType ==
    ASSUME TypeInv, NEW c \in Slots, NEW u \in Users, NEW w \in Wallets, NEW k \in Keys,
           NEW m \in Accounts, NEW paid \in Payments, rent_sub_account_paid(c, u, w, k, m, paid)
    PROVE  TypeInv'
<1>1. AnchorsOK' /\ CountsOK' /\ NamesOK' /\ LinksOK'
  BY EnterType DEF rent_sub_account_paid, is_accepting_rentals, Tla
<1>2. paid \in Nat /\ fee_config.account_creation_deposit \in Nat
      /\ paid >= fee_config.account_creation_deposit
  BY FeeFields, InputConstants DEF rent_sub_account_paid, TypeInv
<1>3. funds' \in Funds /\ ChainsOK'
  BY <1>2, RentPaidStarts, AdvanceFunds DEF TypeInv, rent_sub_account_paid
<1> QED BY <1>1, <1>3, TypeFrame DEF rent_sub_account_paid, worldVars, tokenVars

\* Another main wallet, another expiry, another retraction.
LEMMA MainWalletEntry ==
    ASSUME TypeInv, NEW u \in Users, NEW w \in Wallets, NEW m \in Accounts,
           set_main_wallet(u, w, m)
    PROVE  \E e \in SubAccountEntry :
             /\ SetEntry(w, e) /\ Rented(w) /\ e.expires_at = sub_accounts[w].expires_at
             /\ e.owner = sub_accounts[w].owner
             /\ e.retraction_at = sub_accounts[w].retraction_at
<1>1. PICK x, e : x = sub_accounts[w] /\ e = [x EXCEPT !.main_wallet = m]
  OBVIOUS
<1>2. x \in SubAccountEntry
  BY <1>1, NameFields DEF TypeInv, set_main_wallet
<1>3. /\ e \in SubAccountEntry /\ e.owner = x.owner
      /\ e.expires_at = x.expires_at /\ e.retraction_at = x.retraction_at
  BY <1>1, <1>2 DEF SubAccountEntry
<1>4. SetEntry(w, e) /\ Rented(w)
  BY <1>1 DEF set_main_wallet, SetEntry
<1> QED BY <1>1, <1>3, <1>4

LEMMA RenewEntry ==
    ASSUME TypeInv, NEW u \in Users, NEW w \in Wallets, NEW paid \in Payments,
           renew_sub_account(u, w, paid)
    PROVE  \E e \in SubAccountEntry :
             /\ SetEntry(w, e) /\ Rented(w) /\ e.expires_at = Renewed(sub_accounts[w].expires_at)
             /\ e.owner = sub_accounts[w].owner
             /\ e.main_wallet = sub_accounts[w].main_wallet
             /\ e.retraction_at = sub_accounts[w].retraction_at
<1>1. PICK x, n, e : /\ x = sub_accounts[w] /\ n = Renewed(sub_accounts[w].expires_at)
                     /\ e = [x EXCEPT !.expires_at = n]
  OBVIOUS
<1>2. x \in SubAccountEntry /\ n \in Nat
  BY <1>1, NameFields, RenewedIsLater DEF TypeInv, renew_sub_account
<1>3. /\ e \in SubAccountEntry /\ e.owner = x.owner /\ e.main_wallet = x.main_wallet
      /\ e.expires_at = n /\ e.retraction_at = x.retraction_at
  BY <1>1, <1>2 DEF SubAccountEntry
<1>4. sub_accounts' = [sub_accounts EXCEPT ![w] = [x EXCEPT !.expires_at = n]]
  BY <1>1 DEF renew_sub_account
<1>5. SetEntry(w, e) /\ Rented(w)
  BY <1>1, <1>4 DEF renew_sub_account, SetEntry
<1> QED BY <1>1, <1>3, <1>5

LEMMA RetractionEntry ==
    ASSUME TypeInv, NEW w \in Wallets, Rented(w), NEW at \in Nat \cup {None}, SetRetraction(w, at)
    PROVE  \E e \in SubAccountEntry :
             /\ SetEntry(w, e) /\ e.expires_at = sub_accounts[w].expires_at
             /\ e.owner = sub_accounts[w].owner
             /\ e.main_wallet = sub_accounts[w].main_wallet /\ e.retraction_at = at
<1>1. PICK x, e : x = sub_accounts[w] /\ e = [x EXCEPT !.retraction_at = at]
  OBVIOUS
<1>2. x \in SubAccountEntry
  BY <1>1, NameFields DEF TypeInv
<1>3. /\ e \in SubAccountEntry /\ e.owner = x.owner /\ e.main_wallet = x.main_wallet
      /\ e.expires_at = x.expires_at /\ e.retraction_at = at
  BY <1>1, <1>2 DEF SubAccountEntry
<1>4. SetEntry(w, e)
  BY <1>1 DEF SetRetraction, SetEntry
<1> QED BY <1>1, <1>3, <1>4

LEMMA EntryKept ==
    ASSUME TypeInv, NEW w \in Wallets, Rented(w), NEW e \in SubAccountEntry, SetEntry(w, e),
           UNCHANGED <<tlas, parked_names, signer_pending>>
    PROVE  NamesOK' /\ LinksOK'
<1>1. /\ sub_accounts' \in [Wallets -> SubAccountEntry \cup {None}]
      /\ \A v \in Wallets \ {w} : Rented(v)' <=> Rented(v)
  BY EntryChange DEF TypeInv
<1>2. NamesOK'
  BY <1>1 DEF TypeInv, NamesOK
<1>3. \A v \in Wallets : Rented(v)' => Rented(v)
  BY <1>1
<1> QED BY <1>2, <1>3, LinksKept DEF TypeInv

LEMMA MainWalletType ==
    ASSUME TypeInv, NEW u \in Users, NEW w \in Wallets, NEW m \in Accounts,
           set_main_wallet(u, w, m)
    PROVE  TypeInv'
<1>1. PICK e \in SubAccountEntry : SetEntry(w, e) /\ Rented(w)
  BY MainWalletEntry
<1>2. NamesOK' /\ LinksOK'
  BY <1>1, EntryKept DEF set_main_wallet
<1> QED BY <1>2, TypeFrame DEF set_main_wallet, worldVars, tokenVars

LEMMA RenewType ==
    ASSUME TypeInv, NEW u \in Users, NEW w \in Wallets, NEW paid \in Payments,
           renew_sub_account(u, w, paid)
    PROVE  TypeInv'
<1>1. PICK e \in SubAccountEntry : SetEntry(w, e) /\ Rented(w)
  BY RenewEntry
<1>2. NamesOK' /\ LinksOK'
  BY <1>1, EntryKept DEF renew_sub_account
<1>3. Rent(w) \in Nat /\ paid \in Nat
  BY <1>1, RentIsNat, InputConstants DEF TypeInv, LinksOK
<1>4. funds' \in Funds
  BY <1>3, ChargedType DEF renew_sub_account, TypeInv
<1> QED BY <1>2, <1>4, TypeFrame DEF renew_sub_account, worldVars, tokenVars

LEMMA RetractType ==
    ASSUME TypeInv, NEW u \in Users, NEW w \in Wallets,
           schedule_retraction(u, w) \/ cancel_retraction(u, w)
    PROVE  TypeInv'
<1>1. Rented(w) /\ \E at \in Nat \cup {None} : SetRetraction(w, at)
  BY DEF schedule_retraction, cancel_retraction, TypeInv, WorldOK
<1>2. PICK at \in Nat \cup {None} : SetRetraction(w, at)
  BY <1>1
<1>3. PICK e \in SubAccountEntry : SetEntry(w, e)
  BY <1>1, <1>2, RetractionEntry
<1>4. NamesOK' /\ LinksOK'
  BY <1>1, <1>2, <1>3, EntryKept DEF SetRetraction
<1> QED BY <1>2, <1>4, TypeFrame DEF SetRetraction, worldVars, tokenVars

\* The entry of a failed mint goes, the payment is booked back.
LEMMA FailedMintType ==
    ASSUME TypeInv, NEW c \in Slots, InFlight(c), chains[c].wallet \in Wallets,
           chains[c].user \in Users, settle_failed_mint(c), UNCHANGED tlas
    PROVE  /\ NamesOK' /\ LinksOK' /\ CountsOK' /\ funds' \in Funds
           /\ funds'.revenue = funds.revenue
           /\ SetEntry(chains[c].wallet, None)
<1>1. PICK w : w = chains[c].wallet
  OBVIOUS
<1>2. SetEntry(w, None) /\ w \in Wallets /\ TlaOf[w] \in Tlas
  BY <1>1, RegistryConstants DEF settle_failed_mint, SetEntry
<1>3. /\ sub_accounts' \in [Wallets -> SubAccountEntry \cup {None}] /\ ~Rented(w)'
      /\ \A v \in Wallets \ {w} : Rented(v)' <=> Rented(v)
  BY <1>2, EntryChange DEF TypeInv
<1>4. NamesOK'
  BY <1>3 DEF TypeInv, NamesOK, settle_failed_mint
<1>5. \A v \in Wallets : Rented(v)' => Rented(v)
  BY <1>3
<1>6. LinksOK'
  BY <1>5, LinksKept DEF TypeInv
<1>7. CountsOK'
  BY <1>1, <1>2, DropType DEF TypeInv, CountsOK, settle_failed_mint
<1>8. chains[c].deposit \in Nat
  BY ChainTyped DEF TypeInv
<1>9. funds' \in Funds /\ funds'.revenue = funds.revenue
  BY <1>8, FundsRefund DEF settle_failed_mint, TypeInv
<1> QED BY <1>1, <1>2, <1>4, <1>6, <1>7, <1>9

LEMMA RecordedType ==
    ASSUME TypeInv, NEW c \in Slots, InFlight(c), chains[c].wallet \in Wallets,
           chains[c].user \in Users, chains[c].key \in Keys, RecordRental(c)
    PROVE  /\ NamesOK' /\ CountsOK' /\ funds' \in Funds
<1>1. PICK r, w, rent, dep :
        /\ r = chains[c] /\ w = chains[c].wallet
        /\ rent = (IF r.kind = "mint" THEN r.price ELSE 0)
        /\ dep = fee_config.account_creation_deposit
  OBVIOUS
<1>2. r.price \in Nat /\ r.deposit \in Nat /\ dep \in Nat /\ r.user \in Users /\ rent \in Nat
  BY <1>1, ChainTyped, FeeFields DEF TypeInv
<1>3. rent + dep \in Nat
  BY <1>2
<1>4. Earn(funds, rent) \in Funds
  BY <1>2, FundsMove DEF TypeInv
<1>5. refund_excess(Earn(funds, rent), r.user, r.deposit, rent + dep) \in Funds
  BY <1>2, <1>3, <1>4, FundsExcess
<1>6. funds' = refund_excess(Earn(funds, rent), r.user, r.deposit, rent + dep) \/ funds' = funds
  BY <1>1 DEF RecordRental
<1>7. CountsOK'
  BY DEF RecordRental, TypeInv, CountsOK
<1>8. NamesOK'
  BY DEF RecordRental, TypeInv, NamesOK, KeyOrNone
<1> QED BY <1>5, <1>6, <1>7, <1>8 DEF TypeInv

LEMMA CreatedType ==
    ASSUME TypeInv, NEW c \in Slots, NEW kind \in {"mint", "mint_paid"}, Created(c, kind)
    PROVE  TypeInv'
<1>1. /\ InFlight(c) /\ chains[c].wallet \in Wallets /\ chains[c].user \in Users
      /\ chains[c].key \in Keys /\ ChainsOK'
  BY CallbackTyped, ChainEnds DEF Created, TypeInv, GoodChain
<1>2. CASE chains[c].result \in {"Active", "SignerPending"}
  <2>1. NamesOK' /\ CountsOK' /\ funds' \in Funds /\ UNCHANGED sub_accounts
    BY <1>1, <1>2, RecordedType DEF Created, RecordRental
  <2> QED BY <1>1, <2>1, TypeFrame DEF Created, worldVars, tokenVars
<1>3. CASE chains[c].result \notin {"Active", "SignerPending"}
  <2>1. NamesOK' /\ LinksOK' /\ CountsOK' /\ funds' \in Funds
    BY <1>1, <1>3, FailedMintType DEF Created
  <2> QED BY <1>1, <2>1, TypeFrame DEF Created, worldVars, tokenVars
<1> QED BY <1>2, <1>3

LEMMA ReRentGateType ==
    ASSUME TypeInv, NEW c \in Slots, on_re_rent_balances_checked(c)
    PROVE  TypeInv'
<1>1. /\ InFlight(c) /\ chains[c].wallet \in Wallets /\ chains[c].user \in Users
      /\ chains[c].kind = "rerent"
  BY CallbackTyped DEF on_re_rent_balances_checked, TypeInv, GoodChain
<1>2. CASE chains[c].result = "blocked"
  <2>1. NamesOK' /\ LinksOK' /\ CountsOK' /\ funds' \in Funds /\ ChainsOK'
    BY <1>1, <1>2, FailedMintType, ChainEnds DEF on_re_rent_balances_checked, TypeInv
  <2> QED BY <2>1, TypeFrame DEF on_re_rent_balances_checked, worldVars, tokenVars
<1>3. CASE chains[c].result # "blocked"
  <2>1. ChainsOK'
    BY <1>1, <1>3, ChainProceeds, MethodFacts DEF on_re_rent_balances_checked, TypeInv
  <2> QED BY <1>3, <2>1, TypeFrame DEF on_re_rent_balances_checked, nameVars, worldVars, tokenVars
<1> QED BY <1>2, <1>3

LEMMA ReRentedType ==
    ASSUME TypeInv, NEW c \in Slots, on_sub_account_re_rented(c)
    PROVE  TypeInv'
<1>1. /\ InFlight(c) /\ chains[c].wallet \in Wallets /\ chains[c].user \in Users
      /\ chains[c].price \in Nat /\ chains[c].deposit \in Nat /\ ChainsOK'
  BY CallbackTyped, ChainEnds DEF on_sub_account_re_rented, TypeInv, GoodChain
<1>2. CASE chains[c].result = "err"
  <2>1. NamesOK' /\ LinksOK' /\ CountsOK' /\ funds' \in Funds
    BY <1>1, <1>2, FailedMintType DEF on_sub_account_re_rented
  <2> QED BY <1>1, <2>1, TypeFrame DEF on_sub_account_re_rented, worldVars, tokenVars
<1>3. CASE chains[c].result # "err"
  <2>1. Earn(funds, chains[c].price) \in Funds
    BY <1>1, FundsMove DEF TypeInv
  <2>2. funds' \in Funds
    BY <1>1, <1>3, <2>1, FundsExcess DEF on_sub_account_re_rented
  <2>3. NamesOK' /\ CountsOK' /\ UNCHANGED sub_accounts
    BY <1>3 DEF on_sub_account_re_rented, TypeInv, NamesOK, CountsOK
  <2> QED BY <1>1, <2>2, <2>3, TypeFrame DEF on_sub_account_re_rented, worldVars, tokenVars
<1> QED BY <1>2, <1>3

LEMMA RetryStarts ==
    ASSUME TypeInv, NEW c \in Slots, NEW u \in Users, NEW w \in Wallets,
           retry_signer_install(c, u, w)
    PROVE  /\ ChainsOK' /\ Fresh(c, "retry", "retry_install", w)
           /\ chains'[c].deposit = 0 /\ chains'[c].funding = 0
<1>1. PICK k : k = signer_pending[w]
  OBVIOUS
<1>2. /\ k \in Keys /\ k \in KeyOrNone /\ None \in KeyOrNone /\ "retry" \in Kind
      /\ "retry_install" \in Method
  BY <1>1 DEF retry_signer_install, TypeInv, NamesOK, KeyOrNone, Kind, Method
<1>3. PICK x : x = Chain("retry", "retry_install", w)
  OBVIOUS
<1>4. /\ x \in ChainRecord /\ x.user = None /\ x.other = None /\ x.expected = None
      /\ x.price = 0 /\ x.deposit = 0 /\ x.funding = 0
  BY <1>2, <1>3, ChainBase DEF TypeInv
<1>5. [x EXCEPT !.key = k] = With(x, None, None, k, None, 0, 0, 0)
  BY <1>4 DEF With, ChainRecord
<1>6. Starts(c, "retry", "retry_install", w, None, None, k, None, 0, 0, 0)
  BY <1>1, <1>3, <1>5 DEF retry_signer_install, Starts
<1>7. "retry_install" \in MethodsOf("retry")
  BY MethodFacts
<1>8. /\ ConfigOK /\ ChainsOK /\ w \in Wallets \cup {None} /\ None \in Users \cup {None}
      /\ "retry" \notin {"offer", "buy", "buy_paid", "claim"} /\ 0 \in Nat
  BY DEF TypeInv
<1>9. ChainsOK' /\ Fresh(c, "retry", "retry_install", w)
  BY <1>2, <1>6, <1>7, NewChain DEF TypeInv
<1>10. chains'[c].deposit = 0 /\ chains'[c].funding = 0
  BY <1>2, <1>6, <1>7, <1>8, NewChain
<1> QED BY <1>9, <1>10

LEMMA RetryType ==
    ASSUME TypeInv, NEW c \in Slots, NEW u \in Users, NEW w \in Wallets,
           retry_signer_install(c, u, w)
    PROVE  TypeInv'
BY RetryStarts, TypeFrame DEF retry_signer_install, nameVars, worldVars, tokenVars

LEMMA RetriedType ==
    ASSUME TypeInv, NEW c \in Slots, on_retry_signer_settled(c)
    PROVE  TypeInv'
<1>1. ChainsOK'
  BY ChainEnds DEF on_retry_signer_settled, TypeInv
<1>2. NamesOK'
  BY DEF on_retry_signer_settled, TypeInv, NamesOK, KeyOrNone
<1> QED BY <1>1, <1>2, TypeFrame DEF on_retry_signer_settled, worldVars, tokenVars

LEMMA SweepType ==
    ASSUME TypeInv, NEW s \in Sweeps, NEW u \in Users, NEW w \in Wallets, NEW ft \in Tokens,
           NEW paid \in Payments, reclaim_sweep_ft(s, u, w, ft, paid)
    PROVE  TypeInv'
<1>1. paid \in Nat /\ SweepDeposit \in Nat /\ paid >= SweepDeposit
  BY InputConstants, SweepConstants DEF reclaim_sweep_ft
<1>2. Spend(Receive(funds, paid), SweepDeposit) \in Funds
  BY <1>1, AdvanceFunds DEF TypeInv
<1>3. funds' \in Funds
  BY <1>1, <1>2, FundsExcess DEF reclaim_sweep_ft
<1> QED BY <1>3, TypeFrame DEF reclaim_sweep_ft, nameVars

LEMMA ReclaimStarts ==
    ASSUME TypeInv, NEW c \in Slots, NEW w \in Wallets, reclaim_finalize(c, w)
    PROVE  /\ ChainsOK'
           /\ ft_allowlist = {} => \E m \in Rekeying : Fresh(c, "reclaim", m, w)
           /\ ft_allowlist # {} => Fresh(c, "reclaim", "balances", w)
           /\ chains'[c].deposit = 0 /\ chains'[c].funding = 0
<1>1. PICK m, k : /\ m = (IF ft_allowlist = {} THEN ParkMethod(w) ELSE "balances")
                  /\ k = (IF ft_allowlist = {} THEN parked_signer_pubkey ELSE None)
  OBVIOUS
<1>2. /\ m \in Method /\ m \in MethodsOf("reclaim") /\ "reclaim" \in Kind
      /\ k \in KeyOrNone /\ None \in KeyOrNone /\ (m \in Rekeying => k \in Keys)
      /\ ft_allowlist = {} => m \in Rekeying
      /\ ft_allowlist # {} => m = "balances"
  BY <1>1, MethodFacts DEF ParkMethod, Rekeying, Method, Kind, KeyOrNone, TypeInv, ConfigOK
<1>3. PICK x : x = Chain("reclaim", m, w)
  OBVIOUS
<1>4. /\ x \in ChainRecord /\ x.user = None /\ x.other = None /\ x.expected = None
      /\ x.price = 0 /\ x.deposit = 0 /\ x.funding = 0 /\ x.key = None
  BY <1>2, <1>3, ChainBase DEF TypeInv
<1>5. /\ [x EXCEPT !.key = k] = With(x, None, None, k, None, 0, 0, 0)
      /\ k = None => x = With(x, None, None, k, None, 0, 0, 0)
  BY <1>4 DEF With, ChainRecord
<1>6. Starts(c, "reclaim", m, w, None, None, k, None, 0, 0, 0)
  BY <1>1, <1>3, <1>5 DEF reclaim_finalize, Starts
<1>7. ChainsOK' /\ Fresh(c, "reclaim", m, w) /\ chains'[c].deposit = 0 /\ chains'[c].funding = 0
  BY <1>2, <1>6, NewChain DEF TypeInv
<1> QED BY <1>2, <1>7

LEMMA ReclaimType ==
    ASSUME TypeInv, NEW c \in Slots, NEW w \in Wallets, reclaim_finalize(c, w)
    PROVE  TypeInv'
<1>1. ChainsOK' /\ (reclaim_pending \subseteq Wallets)'
  BY ReclaimStarts DEF reclaim_finalize, TypeInv
<1> QED BY <1>1, TypeFrame DEF reclaim_finalize, nameVars, worldVars, tokenVars

LEMMA ReclaimGateType ==
    ASSUME TypeInv, NEW c \in Slots, on_balances_checked(c)
    PROVE  TypeInv'
<1>1. /\ InFlight(c) /\ chains[c].wallet \in Wallets /\ chains[c].kind = "reclaim"
  BY CallbackTyped DEF on_balances_checked, TypeInv, GoodChain
<1>2. ChainsOK' /\ (reclaim_pending \subseteq Wallets)'
  BY <1>1, ChainParks, ChainEnds DEF on_balances_checked, TypeInv
<1> QED BY <1>2, TypeFrame DEF on_balances_checked, nameVars, worldVars, tokenVars

LEMMA ReclaimedType ==
    ASSUME TypeInv, NEW c \in Slots, on_reclaim_finalized(c)
    PROVE  TypeInv'
<1>1. PICK w, u : w = chains[c].wallet /\ u = sub_accounts[w].owner
  OBVIOUS
<1>2. w \in Wallets /\ ChainsOK' /\ (reclaim_pending \subseteq Wallets)' /\ TlaOf[w] \in Tlas
  BY <1>1, CallbackTyped, ChainEnds, RegistryConstants
     DEF on_reclaim_finalized, TypeInv, GoodChain
<1>3. CASE chains[c].result # "err" /\ Rented(w)
  <2>1. SetEntry(w, None)
    BY <1>1, <1>3 DEF on_reclaim_finalized, SetEntry
  <2>2. /\ sub_accounts' \in [Wallets -> SubAccountEntry \cup {None}]
        /\ \A v \in Wallets \ {w} : Rented(v)' <=> Rented(v)
        /\ ~Rented(w)'
    BY <1>2, <2>1, EntryChange DEF TypeInv
  <2>3. NamesOK'
    BY <1>1, <1>2, <1>3, <2>2 DEF on_reclaim_finalized, TypeInv, NamesOK, KeyOrNone
  <2>4. \A v \in Wallets : Rented(v)' => Rented(v)
    BY <2>2
  <2>5. LinksOK'
    BY <2>4, LinksKept DEF on_reclaim_finalized, TypeInv
  <2>6. SalesOK'
    BY <1>1, <1>3 DEF on_reclaim_finalized, TypeInv, SalesOK
  <2>7. CountsOK'
    <3>1. /\ business_count_decrement_if_business(TlaOf[w])
          /\ sub_account_count' = saturating_sub(sub_account_count, 1)
      BY <1>1, <1>3 DEF on_reclaim_finalized
    <3>2. business_sub_count' \in [Tlas -> Nat]
      BY <1>2, <3>1, DropType
    <3>3. sub_account_count \in Nat
      BY DEF TypeInv, CountsOK
    <3>4. sub_account_count' \in Nat
      BY <3>1, <3>3, SaturatingSub
    <3> QED BY <3>2, <3>4 DEF CountsOK
  <2>8. AnchorsOK'
    <3>1. w \in Accounts /\ mother_use_count[w] \in Nat
      BY <1>2 DEF Accounts, TypeInv, AnchorsOK
    <3>2. saturating_sub(mother_use_count[w], 1) \in Nat
      BY <3>1, SaturatingSub
    <3> QED BY <1>1, <1>3, <3>2
            DEF on_reclaim_finalized, TypeInv, AnchorsOK, anchorVars, decrement_mother_use
  <2> QED BY <1>2, <2>3, <2>5, <2>6, <2>7, <2>8, TypeFrame
          DEF on_reclaim_finalized, worldVars, tokenVars
<1>4. CASE ~(chains[c].result # "err" /\ Rented(w))
  BY <1>1, <1>2, <1>4, TypeFrame DEF on_reclaim_finalized, nameVars, worldVars, tokenVars
<1> QED BY <1>3, <1>4

\* Roles and configuration.
LEMMA RolesType ==
    ASSUME TypeInv, NEW caller \in Admins, NEW a \in Admins, NEW u \in Users,
           \/ pause(caller) \/ unpause(caller)
           \/ add_admin(caller, a) \/ remove_admin(caller, a)
           \/ add_payment_authority(caller, u) \/ remove_payment_authority(caller, u)
    PROVE  TypeInv'
<1>1. SetRoles(caller)
  BY DEF pause, unpause, add_admin, remove_admin, add_payment_authority, remove_payment_authority
<1>2. RolesOK'
  BY DEF pause, unpause, add_admin, remove_admin, add_payment_authority,
         remove_payment_authority, TypeInv, RolesOK
<1> QED BY <1>1, <1>2, TypeFrame DEF SetRoles, nameVars, worldVars, tokenVars

LEMMA ConfigType ==
    ASSUME TypeInv, NEW caller \in Admins, Configure(caller), ConfigOK'
    PROVE  TypeInv'
BY TypeFrame DEF Configure, nameVars, worldVars, tokenVars

LEMMA CapType ==
    ASSUME TypeInv, NEW caller \in Admins, NEW t \in Tlas, NEW cap \in Caps \cup {None},
           set_business_sub_cap(caller, t, cap)
    PROVE  TypeInv'
<1>1. cap \in Nat \cup {None}
  BY InputConstants
<1>2. ConfigOK' /\ Configure(caller)
  BY <1>1 DEF set_business_sub_cap, TypeInv, ConfigOK
<1> QED BY <1>2, ConfigType

\* What an admin makes of a TLA.
LEMMA AdminTlaEntry ==
    ASSUME TypeInv, NEW caller \in Admins, NEW t \in Tlas, tlas[t] # None,
           suspend_tla(caller, t) \/ unsuspend_tla(caller, t) \/ activate_open_tla(caller, t)
    PROVE  \E e \in TlaEntry :
             /\ SetTla(caller, t, e)
             /\ e.tla_type = tlas[t].tla_type /\ e.licensee = tlas[t].licensee
             /\ e.premium_category = tlas[t].premium_category /\ e.status # "Registered"
             /\ \/ e.expires_at = tlas[t].expires_at /\ tlas[t].status # "Registered"
                \/ e.expires_at = now + Year /\ tlas[t].status = "Registered"
<1>1. PICK x, n : x = tlas[t] /\ n = now + Year
  OBVIOUS
<1>2. x \in TlaEntry /\ n \in Nat
  BY <1>1, TlaFields, RegistryConstants DEF TypeInv, WorldOK
<1>3. CASE suspend_tla(caller, t)
  <2>1. PICK e : e = [x EXCEPT !.status = "Suspended"]
    OBVIOUS
  <2>2. /\ e \in TlaEntry /\ e.tla_type = x.tla_type /\ e.licensee = x.licensee
        /\ e.premium_category = x.premium_category /\ e.status = "Suspended"
        /\ e.expires_at = x.expires_at
    BY <1>2, <2>1 DEF TlaEntry
  <2>3. SetTla(caller, t, e) /\ x.status # "Registered"
    BY <1>1, <1>3, <2>1 DEF suspend_tla
  <2> QED BY <1>1, <2>2, <2>3
<1>4. CASE unsuspend_tla(caller, t)
  <2>1. PICK e : e = [x EXCEPT !.status = "Active"]
    OBVIOUS
  <2>2. /\ e \in TlaEntry /\ e.tla_type = x.tla_type /\ e.licensee = x.licensee
        /\ e.premium_category = x.premium_category /\ e.status = "Active"
        /\ e.expires_at = x.expires_at
    BY <1>2, <2>1 DEF TlaEntry
  <2>3. SetTla(caller, t, e) /\ x.status # "Registered"
    BY <1>1, <1>4, <2>1 DEF unsuspend_tla
  <2> QED BY <1>1, <2>2, <2>3
<1>5. CASE activate_open_tla(caller, t)
  <2>1. PICK e : e = [x EXCEPT !.status = "Active", !.expires_at = n]
    OBVIOUS
  <2>2. /\ e \in TlaEntry /\ e.tla_type = x.tla_type /\ e.licensee = x.licensee
        /\ e.premium_category = x.premium_category /\ e.status = "Active"
        /\ e.expires_at = n
    BY <1>2, <2>1 DEF TlaEntry
  <2>3. SetTla(caller, t, e) /\ x.status = "Registered"
    BY <1>1, <1>5, <2>1 DEF activate_open_tla
  <2> QED BY <1>1, <2>2, <2>3
<1> QED BY <1>3, <1>4, <1>5

LEMMA SetTlaType ==
    ASSUME TypeInv, NEW caller \in Admins, NEW t \in Tlas, NEW e \in TlaEntry,
           SetTla(caller, t, e)
    PROVE  TypeInv'
<1>1. SetEntryOf(t, e)
  BY DEF SetTla, SetEntryOf
<1>2. TlasOK' /\ LinksOK'
  BY <1>1, TlaChange DEF TypeInv, SetTla, nameVars
<1> QED BY <1>2, TypeFrame DEF SetTla, worldVars, tokenVars

LEMMA RegisterEntry ==
    ASSUME NEW caller \in Admins, NEW t \in Tlas, NEW tla_type \in TlaType,
           NEW premium \in PremiumCategory, NEW licensee \in Users \cup {None},
           register_tla(caller, t, tla_type, premium, licensee)
    PROVE  /\ tlas[t] = None
           /\ \E e \in TlaEntry :
                SetTla(caller, t, e) /\ e.status = "Registered" /\ e.expires_at = 0
<1>1. PICK e : e = [tla_type |-> tla_type, status |-> "Registered", licensee |-> licensee,
                    premium_category |-> premium, expires_at |-> 0]
  OBVIOUS
<1>2. e \in TlaEntry /\ e.status = "Registered" /\ e.expires_at = 0
  BY <1>1 DEF TlaEntry
<1> QED BY <1>1, <1>2 DEF register_tla

LEMMA AdminTlaType ==
    ASSUME TypeInv, NEW caller \in Admins, NEW t \in Tlas, NEW tla_type \in TlaType,
           NEW premium \in PremiumCategory, NEW licensee \in Users \cup {None},
           \/ register_tla(caller, t, tla_type, premium, licensee)
           \/ suspend_tla(caller, t) \/ unsuspend_tla(caller, t) \/ activate_open_tla(caller, t)
    PROVE  TypeInv'
<1>1. \E e \in TlaEntry : SetTla(caller, t, e)
  <2>1. CASE register_tla(caller, t, tla_type, premium, licensee)
    BY <2>1, RegisterEntry
  <2>2. CASE suspend_tla(caller, t) \/ unsuspend_tla(caller, t) \/ activate_open_tla(caller, t)
    <3>1. tlas[t] # None
      BY <2>2 DEF suspend_tla, unsuspend_tla, activate_open_tla
    <3> QED BY <2>2, <3>1, AdminTlaEntry
  <2> QED BY <2>1, <2>2
<1> QED BY <1>1, SetTlaType

LEMMA ClearType ==
    ASSUME TypeInv, NEW caller \in Admins, NEW w \in Wallets,
           admin_clear_settling(caller, w) \/ admin_clear_reclaim_pending(caller, w)
    PROVE  TypeInv'
<1>1. CASE admin_clear_settling(caller, w)
  <2>1. SalesOK' /\ WorldOK'
    BY <1>1, UnlockedType DEF admin_clear_settling, TypeInv, WorldOK, Overridden, tokenVars
  <2> QED BY <1>1, <2>1, TypeFrame DEF admin_clear_settling, nameVars
<1>2. CASE admin_clear_reclaim_pending(caller, w)
  <2>1. WorldOK' /\ (reclaim_pending \subseteq Wallets)'
    BY <1>2 DEF admin_clear_reclaim_pending, TypeInv, WorldOK, Overridden, tokenVars
  <2> QED BY <1>2, <2>1, TypeFrame DEF admin_clear_reclaim_pending, nameVars
<1> QED BY <1>1, <1>2

LEMMA ReleasedUses ==
    ASSUME AnchorsOK, NEW a \in Accounts
    PROVE  decrement_mother_use(mother_use_count, a) \in [Accounts -> Nat]
<1>1. mother_use_count[a] \in Nat
  BY DEF AnchorsOK
<1>2. saturating_sub(mother_use_count[a], 1) \in Nat
  BY <1>1, SaturatingSub
<1> QED BY <1>2 DEF AnchorsOK, decrement_mother_use

LEMMA MotherType ==
    ASSUME TypeInv, NEW u \in Users, NEW w \in Wallets, set_mother(u, w)
    PROVE  TypeInv'
<1>1. u \in Accounts /\ w \in Accounts
  BY DEF Accounts
<1>2. PICK released : released = (IF mothers[u] # None /\ Managed(mothers[u])
                                    THEN decrement_mother_use(mother_use_count, mothers[u])
                                    ELSE mother_use_count)
  OBVIOUS
<1>3. released \in [Accounts -> Nat]
  <2>1. mothers[u] # None => mothers[u] \in Accounts
    BY <1>1 DEF TypeInv, AnchorsOK
  <2> QED BY <1>2, <2>1, ReleasedUses DEF TypeInv, AnchorsOK
<1>4. mother_use_count' = increment_mother_use(released, w)
  BY <1>2 DEF set_mother
<1>5. mother_use_count' \in [Accounts -> Nat]
  BY <1>1, <1>3, <1>4 DEF increment_mother_use
<1>6. AnchorsOK'
  BY <1>1, <1>5 DEF AnchorsOK, TypeInv, set_mother
<1> QED BY <1>6, TypeFrame DEF set_mother, nameVars, worldVars, tokenVars

LEMMA ClearMotherType ==
    ASSUME TypeInv, NEW caller \in Admins, NEW u \in Users, admin_clear_mother(caller, u)
    PROVE  TypeInv'
<1>1. u \in Accounts /\ mothers[u] \in Accounts
  BY DEF Accounts, TypeInv, AnchorsOK, admin_clear_mother
<1>2. mother_use_count' \in [Accounts -> Nat]
  BY <1>1, ReleasedUses DEF admin_clear_mother, TypeInv, AnchorsOK
<1>3. AnchorsOK'
  BY <1>1, <1>2 DEF AnchorsOK, TypeInv, admin_clear_mother
<1> QED BY <1>3, TypeFrame DEF admin_clear_mother, nameVars, worldVars, tokenVars

LEMMA WithdrawType ==
    ASSUME TypeInv, NEW caller \in Admins, NEW amount \in 1..MaxMoney, NEW u \in Users,
           withdraw(caller, amount, u)
    PROVE  TypeInv' /\ funds'.revenue <= funds.revenue
<1>1. amount \in Nat /\ funds \in Funds /\ amount <= funds.revenue
  BY InputConstants DEF TypeInv, withdraw
<1>2. PICK f : f = [funds EXCEPT !.revenue = @ - amount]
  OBVIOUS
<1>3. f \in Funds /\ f.revenue <= funds.revenue
  BY <1>1, <1>2 DEF Funds
<1>4. funds' = Refund(f, u, amount)
  BY <1>2 DEF withdraw
<1>5. funds' \in Funds /\ funds'.revenue = f.revenue
  BY <1>1, <1>3, <1>4, FundsRefund
<1> QED BY <1>3, <1>5, TypeFrame DEF withdraw, nameVars, worldVars, tokenVars

LEMMA ClaimStarts ==
    ASSUME TypeInv, NEW c \in Slots, NEW u \in Users, claim_refund(c, u)
    PROVE  /\ ChainsOK' /\ Fresh(c, "claim", "pay", None)
           /\ chains'[c].deposit = funds.refunds[u] /\ chains'[c].funding = 0
<1>1. PICK n : n = funds.refunds[u]
  OBVIOUS
<1>2. /\ n \in Nat /\ None \in KeyOrNone /\ "claim" \in Kind /\ "pay" \in Method
  BY <1>1, FundsFields DEF TypeInv, Accounts, KeyOrNone, Kind, Method
<1>3. PICK x : x = Chain("claim", "pay", None)
  OBVIOUS
<1>4. /\ x \in ChainRecord /\ x.key = None /\ x.other = None /\ x.expected = None
      /\ x.price = 0 /\ x.funding = 0
  BY <1>2, <1>3, ChainBase DEF TypeInv
<1>5. [x EXCEPT !.user = u, !.deposit = n] = With(x, u, None, None, None, 0, n, 0)
  BY <1>4 DEF With, ChainRecord
<1>6. Starts(c, "claim", "pay", None, u, None, None, None, 0, n, 0)
  BY <1>1, <1>3, <1>5 DEF claim_refund, Starts
<1>7. "pay" \in MethodsOf("claim") /\ "pay" \notin Rekeying
  BY MethodFacts DEF Rekeying
<1>8. /\ ConfigOK /\ ChainsOK /\ None \in Wallets \cup {None} /\ u \in Users \cup {None}
      /\ None \in Users \cup {None}
  BY DEF TypeInv
<1>9. /\ ChainsOK' /\ Fresh(c, "claim", "pay", None)
      /\ chains'[c].deposit = n /\ chains'[c].funding = 0
  BY <1>2, <1>6, <1>7, <1>8, NewChain
<1> QED BY <1>1, <1>9

LEMMA ClaimType ==
    ASSUME TypeInv, NEW c \in Slots, NEW u \in Users, claim_refund(c, u)
    PROVE  TypeInv' /\ funds'.revenue = funds.revenue
<1>1. PICK n, g, t : /\ n = funds.refunds[u] /\ g = [funds.refunds EXCEPT ![u] = 0]
                     /\ t = saturating_sub(funds.total_refunds, n)
  OBVIOUS
<1>2. u \in Accounts /\ funds \in Funds
  BY DEF Accounts, TypeInv
<1>3. /\ n \in Nat /\ g \in [Accounts -> Nat] /\ t \in Nat /\ n <= funds.balance
      /\ funds.balance \in Nat
  BY <1>1, <1>2, FundsFields, SaturatingSub DEF claim_refund
<1>4. funds.balance - n \in Nat
  BY <1>3
<1>5. funds' = [funds EXCEPT !.refunds = g, !.total_refunds = t, !.balance = funds.balance - n]
  BY <1>1 DEF claim_refund
<1>6. funds' \in Funds /\ funds'.revenue = funds.revenue
  BY <1>2, <1>3, <1>4, <1>5 DEF Funds
<1> QED BY <1>6, ClaimStarts, TypeFrame DEF claim_refund, nameVars, worldVars, tokenVars

LEMMA ClaimedType ==
    ASSUME TypeInv, NEW c \in Slots, on_claim_refund_settled(c)
    PROVE  TypeInv' /\ funds'.revenue = funds.revenue
<1>1. chains[c].user \in Users /\ chains[c].deposit \in Nat /\ ChainsOK'
  BY CallbackTyped, ChainEnds DEF on_claim_refund_settled, TypeInv, GoodChain
<1>2. funds' \in Funds /\ funds'.revenue = funds.revenue
  BY <1>1, FundsRefund DEF on_claim_refund_settled, TypeInv
<1> QED BY <1>1, <1>2, TypeFrame DEF on_claim_refund_settled, nameVars, worldVars, tokenVars

\* The contracts the registry calls.
LEMMA PendingTyped ==
    ASSUME ChainsOK, NEW c \in Slots, NEW method, Pending(c, method)
    PROVE  /\ InFlight(c) /\ GoodChain(chains[c]) /\ chains[c].method = method
           /\ chains[c].result = "pending"
           /\ method \in MethodsOf(chains[c].kind) /\ chains[c].kind \in Kind
           /\ chains[c].deposit \in Nat /\ chains[c].funding \in Nat
BY ChainTyped DEF Pending, GoodChain

LEMMA WhoseMethod ==
    ASSUME NEW kind \in Kind, NEW method, method \in MethodsOf(kind)
    PROVE  /\ method = "query" => kind \in {"list", "offer"}
           /\ method = "balances" => kind \in {"buy", "buy_paid", "rerent", "reclaim"}
           /\ method = "transfer" => kind \in {"buy", "buy_paid", "rerent", "reclaim"}
           /\ method \in Minting => kind \in {"mint", "mint_paid"}
           /\ method \in {"retry_install", "retry_key"} => kind \in {"reclaim", "retry"}
           /\ method = "pay" => kind = "claim"
BY DEF MethodsOf, Kind, Minting, Rekeying

LEMMA OwnerSet ==
    ASSUME OwnersOK, NEW w \in Wallets, NEW k \in Keys, FirstOwner(w, k) \/ Sell(w, k)
    PROVE  /\ OwnersOK' /\ owner'[w] = k
           /\ \A v \in Wallets \ {w} : owner'[v] = owner[v]
BY DEF OwnersOK, FirstOwner, Sell, KeyOrNone

LEMMA QueryType ==
    ASSUME TypeInv, NEW c \in Slots, RunQuery(c)
    PROVE  TypeInv' /\ GoesOn(c)
<1>1. /\ InFlight(c) /\ chains[c].method = "query" /\ chains[c].kind \in {"list", "offer"}
      /\ chains[c].wallet \in Wallets
  BY PendingTyped, WhoseMethod DEF RunQuery, TypeInv, GoodChain
<1>2. PICK r \in {owner[chains[c].wallet], "err"} : AnsweredWith(c, r)
  BY DEF RunQuery
<1>3. r \in Replies(chains[c].method)
  BY <1>1 DEF Replies, TypeInv, OwnersOK, KeyOrNone
<1>4. ChainsOK' /\ GoesOn(c)
  BY <1>1, <1>2, <1>3, ChainAnswered DEF TypeInv
<1> QED BY <1>4, TypeFrame DEF RunQuery, unchangedByOthers, nameVars, tokenVars

LEMMA BalancesAnswer ==
    ASSUME TypeInv, NEW c \in Slots, RunBalances(c)
    PROVE  /\ ChainsOK' /\ GoesOn(c) /\ chains'[c].method = "balances"
           /\ chains[c].method = "balances" /\ chains[c].result = "pending"
           /\ chains[c].wallet \in Wallets
           /\ \/ chains'[c].unread = {} /\ chains'[c].result = "blocked"
              \/ \E token \in Tokens :
                   /\ token \notin held[chains[c].wallet]
                   /\ token \in chains[c].unread
                   /\ chains'[c].unread = chains[c].unread \ {token}
                   /\ chains'[c].result =
                        IF chains[c].unread = {token} THEN "clear" ELSE "pending"
<1>1. /\ InFlight(c) /\ chains[c].method = "balances" /\ chains[c].wallet \in Wallets
      /\ chains[c].result = "pending" /\ chains[c].unread \in SUBSET Tokens
  BY PendingTyped, WhoseMethod, ChainTyped DEF RunBalances, TypeInv, GoodChain
<1>2. Replies("balances") = {"clear", "blocked"}
  BY DEF Replies
<1>3. PICK token \in chains[c].unread :
        \/ /\ token \notin held[chains[c].wallet]
           /\ GateAnswer(c, chains[c].unread \ {token},
                         IF chains[c].unread = {token} THEN "clear" ELSE "pending")
        \/ GateAnswer(c, {}, "blocked")
  BY DEF RunBalances
<1>4. CASE GateAnswer(c, {}, "blocked")
  <2>1. {} \in SUBSET Tokens /\ "blocked" \in Replies(chains[c].method)
    BY <1>1, <1>2
  <2> QED BY <1>1, <1>4, <2>1, ChainAtGate DEF TypeInv
<1>5. CASE /\ token \notin held[chains[c].wallet]
           /\ GateAnswer(c, chains[c].unread \ {token},
                         IF chains[c].unread = {token} THEN "clear" ELSE "pending")
  <2>1. PICK rest, r : /\ rest = chains[c].unread \ {token}
                       /\ r = IF chains[c].unread = {token} THEN "clear" ELSE "pending"
    OBVIOUS
  <2>2. /\ rest \in SUBSET Tokens /\ GateAnswer(c, rest, r)
        /\ r = "pending" \/ r \in Replies(chains[c].method)
    BY <1>1, <1>2, <1>5, <2>1
  <2>3. /\ ChainsOK' /\ GoesOn(c) /\ chains'[c].method = chains[c].method
        /\ chains'[c].result = r /\ chains'[c].unread = rest
    BY <1>1, <2>2, ChainAtGate DEF TypeInv
  <2> QED BY <1>1, <1>5, <2>1, <2>3
<1> QED BY <1>3, <1>4, <1>5

LEMMA BalancesType ==
    ASSUME TypeInv, NEW c \in Slots, RunBalances(c)
    PROVE  TypeInv'
BY BalancesAnswer, TypeFrame DEF RunBalances, unchangedByOthers, nameVars, tokenVars

LEMMA TransferAnswer ==
    ASSUME TypeInv, NEW c \in Slots, RunForceTransfer(c)
    PROVE  /\ ChainsOK' /\ OwnersOK' /\ GoesOn(c)
           /\ chains[c].method = "transfer" /\ chains'[c].method = "transfer"
           /\ chains[c].wallet \in Wallets
           /\ \/ UNCHANGED ownershipVars /\ chains'[c].result \in {"false", "err"}
              \/ /\ chains'[c].result = "true"
                 /\ owner[chains[c].wallet] # None /\ owner'[chains[c].wallet] # None
                 /\ \A v \in Wallets \ {chains[c].wallet} : owner'[v] = owner[v]
<1>1. /\ InFlight(c) /\ chains[c].method = "transfer" /\ chains[c].wallet \in Wallets
      /\ chains[c].key \in Keys
  BY PendingTyped, WhoseMethod DEF RunForceTransfer, TypeInv, GoodChain, Rekeying
<1>2. Replies("transfer") = {"true", "false", "err"}
  BY DEF Replies
<1>3. CASE Sell(chains[c].wallet, chains[c].key) /\ AnsweredWith(c, "true")
  <2>1. /\ OwnersOK' /\ owner[chains[c].wallet] # None /\ owner'[chains[c].wallet] \in Keys
        /\ \A v \in Wallets \ {chains[c].wallet} : owner'[v] = owner[v]
    BY <1>1, <1>3, OwnerSet DEF TypeInv, Sell
  <2>2. /\ ChainsOK' /\ GoesOn(c) /\ chains'[c].method = chains[c].method
        /\ chains'[c].result = "true"
    BY <1>1, <1>2, <1>3, ChainAnswered DEF TypeInv
  <2> QED BY <1>1, <2>1, <2>2, AccountConstants
<1>4. CASE (\E r \in {"false", "err"} : AnsweredWith(c, r)) /\ UNCHANGED ownershipVars
  <2>1. PICK r \in {"false", "err"} : AnsweredWith(c, r)
    BY <1>4
  <2>2. /\ ChainsOK' /\ GoesOn(c) /\ chains'[c].method = chains[c].method
        /\ chains'[c].result = r
    BY <1>1, <1>2, <2>1, ChainAnswered DEF TypeInv
  <2> QED BY <1>1, <1>4, <2>2 DEF TypeInv, OwnersOK, ownershipVars
<1> QED BY <1>3, <1>4 DEF RunForceTransfer

LEMMA TransferType ==
    ASSUME TypeInv, NEW c \in Slots, RunForceTransfer(c)
    PROVE  TypeInv'
BY TransferAnswer, TypeFrame DEF RunForceTransfer, unchangedByOthers, nameVars, tokenVars

LEMMA PaymentType ==
    ASSUME TypeInv, NEW c \in Slots, RunPayment(c)
    PROVE  TypeInv' /\ GoesOn(c) /\ funds'.revenue = funds.revenue
<1>1. InFlight(c) /\ chains[c].method = "pay" /\ chains[c].deposit \in Nat
  BY PendingTyped DEF RunPayment, TypeInv
<1>2. Replies("pay") = {"ok", "err"}
  BY DEF Replies
<1>3. \E r \in {"ok", "err"} : AnsweredWith(c, r)
  BY DEF RunPayment
<1>4. ChainsOK' /\ GoesOn(c)
  BY <1>1, <1>2, <1>3, ChainAnswered DEF TypeInv
<1>5. funds' \in Funds /\ funds'.revenue = funds.revenue
  BY <1>1, FundsMove DEF RunPayment, TypeInv
<1> QED BY <1>4, <1>5, TypeFrame DEF RunPayment, unchangedByOthers, nameVars, tokenVars

LEMMA RunSweepType ==
    ASSUME TypeInv, NEW s \in Sweeps, RunSweep(s)
    PROVE  TypeInv' /\ funds'.revenue = funds.revenue
<1>1. funds' \in Funds /\ funds'.revenue = funds.revenue
  BY FundsMove, SweepConstants DEF RunSweep, TypeInv
<1> QED BY <1>1, TypeFrame DEF RunSweep, nameVars

\* The steps of the manager: the call of the chain goes out or is answered.
LEMMA ManagerType ==
    ASSUME TypeInv, NEW c \in Slots, ManagerStep(c)
    PROVE  /\ TypeInv' /\ GoesOn(c) /\ funds'.revenue = funds.revenue
           /\ chains[c].method \in Minting \cup {"retry_install", "retry_key"}
           /\ chains'[c].method \in Minting <=> chains[c].method \in Minting
           /\ chains'[c].method \in Rekeying <=> chains[c].method \in Rekeying
           /\ chains[c].result = "pending"
           /\ \A v \in Wallets : \/ owner'[v] = owner[v]
                                 \/ /\ v = chains[c].wallet /\ owner[v] = None /\ owner'[v] # None
                                    /\ chains'[c].method \in {"install", "retry_key"}
                                    /\ chains'[c].result \in {"Active", "ok"}
<1> DEFINE m == chains[c].method
<1>1. /\ InFlight(c) /\ GoodChain(chains[c]) /\ chains[c].result = "pending"
      /\ m \in Minting \cup {"retry_install", "retry_key"}
      /\ m \in MethodsOf(chains[c].kind) /\ chains[c].kind \in Kind
      /\ chains[c].funding \in Nat
  BY PendingTyped DEF ManagerStep, create_sub_account, on_key_derived, on_wallet_created,
     on_signer_settled, on_creation_failed, retry_install, on_retry_key_derived, TypeInv, Minting
<1>2. /\ m \in Minting => chains[c].kind \in {"mint", "mint_paid"}
      /\ m \in {"retry_install", "retry_key"} => chains[c].kind \in {"reclaim", "retry"}
  BY <1>1, WhoseMethod
<1>3. chains[c].wallet \in Wallets /\ chains[c].key \in Keys
  BY <1>1, <1>2 DEF GoodChain, Rekeying
<1>4. /\ Replies("create") = {"err"} /\ Replies("retry_install") = {"err"}
      /\ Replies("install") = {"Active", "SignerPending"}
      /\ Replies("return") = {"CreationFailed"} /\ Replies("retry_key") = {"ok", "err"}
  BY DEF Replies
<1>5. UNCHANGED <<unchangedByManager>>
  BY DEF ManagerStep, create_sub_account, on_key_derived, on_wallet_created,
     on_signer_settled, on_creation_failed, retry_install, on_retry_key_derived
<1>6. (\E n \in Minting : m \in Minting /\ Proceed(c, n)) \/ (m = "retry_install" /\ Proceed(c, "retry_key"))
        => /\ ChainsOK' /\ GoesOn(c)
           /\ chains'[c].method \in Minting <=> m \in Minting
           /\ chains'[c].method \in Rekeying <=> m \in Rekeying
  <2>1. ASSUME NEW n \in Minting, m \in Minting, Proceed(c, n)
        PROVE  ChainsOK' /\ GoesOn(c) /\ chains'[c].method = n
    <3>1. n \in MethodsOf(chains[c].kind) /\ n \notin Rekeying
      BY <1>2, <2>1, MethodFacts DEF Minting, Rekeying
    <3> QED BY <1>1, <2>1, <3>1, ChainProceeds DEF TypeInv
  <2>2. ASSUME m = "retry_install", Proceed(c, "retry_key")
        PROVE  ChainsOK' /\ GoesOn(c) /\ chains'[c].method = "retry_key"
    <3>1. "retry_key" \in MethodsOf(chains[c].kind) /\ chains[c].method \in Rekeying
      BY <1>2, <2>2, MethodFacts DEF Rekeying
    <3> QED BY <1>1, <2>2, <3>1, ChainProceeds DEF TypeInv
  <2> QED BY <2>1, <2>2 DEF Minting, Rekeying
<1>7. ASSUME NEW r \in Replies(m), AnsweredWith(c, r)
      PROVE  ChainsOK' /\ GoesOn(c) /\ chains'[c].method = m /\ chains'[c].result = r
  BY <1>1, <1>7, ChainAnswered DEF TypeInv
<1>8. ASSUME NEW r \in Replies(m), GiveBack(c, r)
      PROVE  /\ ChainsOK' /\ GoesOn(c) /\ chains'[c].method = m
             /\ funds' \in Funds /\ funds'.revenue = funds.revenue
  <2>1. ChainsOK' /\ GoesOn(c) /\ chains'[c].method = m
    BY <1>1, <1>8, ChainGivesBack DEF TypeInv
  <2>2. funds' \in Funds /\ funds'.revenue = funds.revenue
    BY <1>1, <1>8, FundsMove DEF GiveBack, TypeInv
  <2> QED BY <2>1, <2>2
<1>9. ASSUME FirstOwner(chains[c].wallet, chains[c].key)
      PROVE  /\ OwnersOK'
             /\ \A v \in Wallets : \/ owner'[v] = owner[v]
                                   \/ v = chains[c].wallet /\ owner[v] = None /\ owner'[v] # None
  <2>1. owner[chains[c].wallet] = None /\ chains[c].key # None
    BY <1>3, <1>9, AccountConstants DEF FirstOwner
  <2> QED BY <1>3, <1>9, <2>1, OwnerSet DEF TypeInv
<1> DEFINE Rest(v) ==
      \/ owner'[v] = owner[v]
      \/ /\ v = chains[c].wallet /\ owner[v] = None /\ owner'[v] # None
         /\ chains'[c].method \in {"install", "retry_key"}
         /\ chains'[c].result \in {"Active", "ok"}
<1> DEFINE Goal ==
      /\ ChainsOK' /\ GoesOn(c) /\ OwnersOK'
      /\ funds' \in Funds /\ funds'.revenue = funds.revenue
      /\ chains'[c].method \in Minting <=> m \in Minting
      /\ chains'[c].method \in Rekeying <=> m \in Rekeying
      /\ \A v \in Wallets : Rest(v)
<1>10. ASSUME create_sub_account(c)
       PROVE  Goal
  <2>1. m = "create" /\ UNCHANGED ownershipVars
    BY <1>10 DEF create_sub_account, Pending
  <2>2. OwnersOK' /\ \A v \in Wallets : Rest(v)
    BY <2>1 DEF TypeInv, OwnersOK, ownershipVars
  <2>3. "derive" \in Minting /\ m \in Minting /\ "err" \in Replies(m)
    BY <1>4, <2>1 DEF Minting
  <2>4. CASE Proceed(c, "derive") /\ UNCHANGED funds
    BY <1>6, <2>2, <2>3, <2>4 DEF TypeInv
  <2>5. CASE GiveBack(c, "err")
    BY <1>8, <2>2, <2>3, <2>5
  <2> QED BY <1>10, <2>4, <2>5 DEF create_sub_account
<1>11. ASSUME on_key_derived(c) \/ on_wallet_created(c)
       PROVE  Goal
  <2>1. m \in {"derive", "account"} /\ UNCHANGED ownershipVars /\ UNCHANGED funds
    BY <1>11 DEF on_key_derived, on_wallet_created, Pending
  <2>2. OwnersOK' /\ \A v \in Wallets : Rest(v)
    BY <2>1 DEF TypeInv, OwnersOK, ownershipVars
  <2>3. m \in Minting /\ \E n \in Minting : Proceed(c, n)
    BY <1>11, <2>1 DEF on_key_derived, on_wallet_created, Minting
  <2> QED BY <1>6, <2>1, <2>2, <2>3 DEF TypeInv
<1>12. ASSUME on_signer_settled(c) \/ on_retry_key_derived(c)
       PROVE  Goal
  <2>1. m \in {"install", "retry_key"} /\ UNCHANGED funds
    BY <1>12 DEF on_signer_settled, on_retry_key_derived, Pending
  <2>2. \/ /\ FirstOwner(chains[c].wallet, chains[c].key)
           /\ \E r \in {"Active", "ok"} : r \in Replies(m) /\ AnsweredWith(c, r)
        \/ UNCHANGED ownershipVars /\ \E r \in Replies(m) : AnsweredWith(c, r)
    BY <1>4, <1>12 DEF on_signer_settled, on_retry_key_derived, Pending
  <2>3. CASE UNCHANGED ownershipVars /\ \E r \in Replies(m) : AnsweredWith(c, r)
    <3>1. OwnersOK' /\ \A v \in Wallets : Rest(v)
      BY <2>3 DEF TypeInv, OwnersOK, ownershipVars
    <3> QED BY <1>7, <2>1, <2>3, <3>1 DEF TypeInv
  <2>4. CASE /\ FirstOwner(chains[c].wallet, chains[c].key)
             /\ \E r \in {"Active", "ok"} : r \in Replies(m) /\ AnsweredWith(c, r)
    <3>1. ChainsOK' /\ GoesOn(c) /\ chains'[c].method = m /\ chains'[c].result \in {"Active", "ok"}
      BY <1>7, <2>4
    <3> QED BY <1>9, <2>1, <2>4, <3>1 DEF TypeInv
  <2> QED BY <2>2, <2>3, <2>4
<1>13. ASSUME on_creation_failed(c)
       PROVE  Goal
  <2>1. m = "return" /\ UNCHANGED ownershipVars /\ GiveBack(c, "CreationFailed")
    BY <1>13 DEF on_creation_failed, Pending
  <2>2. OwnersOK' /\ \A v \in Wallets : Rest(v)
    BY <2>1 DEF TypeInv, OwnersOK, ownershipVars
  <2> QED BY <1>4, <1>8, <2>1, <2>2
<1>14. ASSUME retry_install(c)
       PROVE  Goal
  <2>1. m = "retry_install" /\ UNCHANGED ownershipVars /\ UNCHANGED funds
    BY <1>14 DEF retry_install, Pending
  <2>2. OwnersOK' /\ \A v \in Wallets : Rest(v)
    BY <2>1 DEF TypeInv, OwnersOK, ownershipVars
  <2>3. CASE Proceed(c, "retry_key")
    BY <1>6, <2>1, <2>2, <2>3 DEF TypeInv
  <2>4. CASE AnsweredWith(c, "err")
    BY <1>4, <1>7, <2>1, <2>2, <2>4 DEF TypeInv
  <2> QED BY <1>14, <2>3, <2>4 DEF retry_install
<1>15. Goal
  BY <1>10, <1>11, <1>12, <1>13, <1>14 DEF ManagerStep
<1>16. TypeInv'
  BY <1>5, <1>15, TypeFrame DEF unchangedByManager, nameVars, tokenVars
<1> QED BY <1>1, <1>15, <1>16

\* Time, tokens, and what custody does of its own accord.
LEMMA TickMarks ==
    ASSUME TypeInv, Tick
    PROVE  /\ ChainsOK'
           /\ \A c \in Slots :
                /\ InFlight(c)' <=> InFlight(c)
                /\ InFlight(c) => /\ Marked(c) /\ ~chains[c].aged /\ chains'[c].aged
                                  /\ chains'[c].stuck = chains[c].stuck
<1> DEFINE mark == [c \in Slots |-> TRUE]
           left == [c \in Slots |-> IF InFlight(c) THEN chains[c].stuck ELSE {}]
           new(c) == IF InFlight(c) THEN [chains[c] EXCEPT !.aged = mark[c], !.stuck = left[c]]
                                    ELSE None
<1>1. mark \in [Slots -> BOOLEAN]
  OBVIOUS
<1>2. left \in [Slots -> SUBSET Tokens]
  BY ChainTyped DEF TypeInv
<1>3. ASSUME NEW c \in Slots
      PROVE  chains'[c] = new(c)
  <2>1. CASE InFlight(c)
    <3>1. PICK x : x = chains[c]
      OBVIOUS
    <3>2. x \in ChainRecord
      BY <2>1, <3>1, ChainTyped DEF TypeInv
    <3>3. [x EXCEPT !.aged = TRUE] = [x EXCEPT !.aged = TRUE, !.stuck = x.stuck]
      BY <3>2 DEF ChainRecord
    <3> QED BY <2>1, <3>1, <3>3 DEF Tick
  <2>2. CASE ~InFlight(c)
    BY <2>2 DEF Tick
  <2> QED BY <2>1, <2>2
<1>4. Marks(mark, left)
  BY <1>3 DEF Tick, Marks
<1>5. \A c \in Slots : /\ mark[c]
                       /\ InFlight(c) => left[c] = chains[c].stuck
  OBVIOUS
<1> HIDE DEF mark, left
<1>6. /\ ChainsOK'
      /\ \A c \in Slots :
           /\ InFlight(c)' <=> InFlight(c)
           /\ InFlight(c) => /\ Marked(c)
                             /\ chains'[c].aged = mark[c]
                             /\ chains'[c].stuck = left[c]
  BY <1>1, <1>2, <1>4, ChainsMarked DEF TypeInv
<1>7. \A c \in Slots : InFlight(c) => ~chains[c].aged
  BY DEF Tick
<1> QED BY <1>5, <1>6, <1>7

LEMMA TickType ==
    ASSUME TypeInv, Tick
    PROVE  TypeInv'
<1>1. WorldOK'
  BY DEF Tick, TypeInv, WorldOK, tokenVars
<1> QED BY <1>1, TickMarks, TypeFrame DEF Tick, nameVars

LEMMA LeavesMarks ==
    ASSUME TypeInv, NEW w \in Wallets, NEW token \in Tokens, TokenLeaves(w, token)
    PROVE  /\ ChainsOK'
           /\ \A c \in Slots :
                /\ InFlight(c)' <=> InFlight(c)
                /\ InFlight(c) =>
                     /\ Marked(c) /\ (chains'[c].aged <=> chains[c].aged)
                     /\ chains'[c].stuck = IF chains[c].wallet = w
                                             THEN chains[c].stuck \ {token}
                                             ELSE chains[c].stuck
<1> DEFINE rest(c) == IF chains[c].wallet = w THEN chains[c].stuck \ {token} ELSE chains[c].stuck
           mark == [c \in Slots |-> IF InFlight(c) THEN chains[c].aged ELSE FALSE]
           left == [c \in Slots |-> IF InFlight(c) THEN rest(c) ELSE {}]
           new(c) == IF InFlight(c) THEN [chains[c] EXCEPT !.aged = mark[c], !.stuck = left[c]]
                                    ELSE None
<1>1. mark \in [Slots -> BOOLEAN]
  BY ChainTyped DEF TypeInv
<1>2. left \in [Slots -> SUBSET Tokens]
  BY ChainTyped DEF TypeInv
<1>3. ASSUME NEW c \in Slots
      PROVE  chains'[c] = new(c)
  <2>1. CASE InFlight(c)
    <3>1. PICK x, l : x = chains[c] /\ l = rest(c)
      OBVIOUS
    <3>2. x \in ChainRecord
      BY <2>1, <3>1, ChainTyped DEF TypeInv
    <3>3. /\ [x EXCEPT !.stuck = l] = [x EXCEPT !.aged = x.aged, !.stuck = l]
          /\ l = x.stuck => x = [x EXCEPT !.aged = x.aged, !.stuck = l]
      BY <3>2 DEF ChainRecord
    <3>4. new(c) = [x EXCEPT !.aged = x.aged, !.stuck = l]
      BY <2>1, <3>1
    <3>5. chains'[c] = IF x.wallet = w THEN [x EXCEPT !.stuck = l] ELSE x
      BY <2>1, <3>1 DEF TokenLeaves
    <3>6. x.wallet # w => l = x.stuck
      BY <3>1
    <3> HIDE DEF new
    <3> QED BY <3>3, <3>4, <3>5, <3>6
  <2>2. CASE ~InFlight(c)
    BY <2>2 DEF TokenLeaves, InFlight
  <2> QED BY <2>1, <2>2
<1>4. Marks(mark, left)
  BY <1>3 DEF TokenLeaves, Marks
<1>5. \A c \in Slots : InFlight(c) => mark[c] = chains[c].aged /\ left[c] = rest(c)
  OBVIOUS
<1> HIDE DEF mark, left, rest
<1>6. /\ ChainsOK'
      /\ \A c \in Slots :
           /\ InFlight(c)' <=> InFlight(c)
           /\ InFlight(c) => /\ Marked(c)
                             /\ chains'[c].aged = mark[c]
                             /\ chains'[c].stuck = left[c]
  BY <1>1, <1>2, <1>4, ChainsMarked DEF TypeInv
<1>7. \A c \in Slots : InFlight(c) => chains'[c].aged = chains[c].aged /\ chains'[c].stuck = rest(c)
  BY <1>5, <1>6
<1> QED BY <1>6, <1>7 DEF rest

LEMMA TokenType ==
    ASSUME TypeInv, NEW w \in Wallets, NEW token \in Tokens,
           TokenArrives(w, token) \/ TokenLeaves(w, token)
    PROVE  TypeInv'
<1>1. WorldOK'
  BY DEF TokenArrives, TokenLeaves, TypeInv, WorldOK
<1>2. CASE TokenArrives(w, token)
  BY <1>1, <1>2, TypeFrame DEF TokenArrives, nameVars
<1>3. CASE TokenLeaves(w, token)
  BY <1>1, <1>3, LeavesMarks, TypeFrame DEF TokenLeaves, nameVars
<1> QED BY <1>2, <1>3

LEMMA CustodyStep ==
    ASSUME TypeInv, RecoveryStep \/ HaltStep
    PROVE  TypeInv' /\ \A v \in Wallets : owner'[v] = None <=> owner[v] = None
<1> USE DEF TypeInv, OwnersOK, KeyOrNone
<1> DEFINE Goal == OwnersOK' /\ \A v \in Wallets : owner'[v] = None <=> owner[v] = None
<1>1. ASSUME NEW w \in Wallets, NEW k \in Keys, Hold(w, k)
      PROVE  Goal
  BY <1>1 DEF Hold
<1>2. ASSUME NEW w \in Wallets, Recover(w)
      PROVE  Goal
  BY <1>2 DEF Recover
<1>3. ASSUME NEW w \in Wallets, Release(w)
      PROVE  Goal
  BY <1>3 DEF Release
<1>4. ASSUME NEW w \in Wallets, Halt(w)
      PROVE  Goal
  BY <1>4 DEF Halt
<1>5. Goal
  BY <1>1, <1>2, <1>3, <1>4 DEF RecoveryStep, HaltStep
<1> QED BY <1>5, TypeFrame DEF RecoveryStep, HaltStep, unchangedByOthers, nameVars, tokenVars

-----------------------------------------------------------------------------
(* The registry is type correct.                                           *)

LEMMA TypeInit == RegistryInit => TypeInv
<1> SUFFICES ASSUME RegistryInit PROVE TypeInv
  OBVIOUS
<1>1. TlasOK /\ NamesOK /\ SalesOK /\ LinksOK /\ reclaim_pending \subseteq Wallets
  BY DEF RegistryInit, EmptyBooks, TlasOK, NamesOK, SalesOK, LinksOK, Rented, KeyOrNone
<1>2. AnchorsOK /\ CountsOK /\ funds \in Funds
  BY DEF RegistryInit, EmptyBooks, AnchorsOK, CountsOK, Funds
<1>3. RolesOK /\ ConfigOK
  BY AccountConstants DEF RegistryInit, EmptyBooks, RolesOK, ConfigOK
<1>4. ChainsOK /\ OwnersOK /\ WorldOK
  BY DEF RegistryInit, EmptyBooks, OwnershipInit, ChainsOK, InFlight, OwnersOK, WorldOK, KeyOrNone
<1> QED BY <1>1, <1>2, <1>3, <1>4 DEF TypeInv

LEMMA TypeCallback ==
    ASSUME TypeInv, NEW c \in Slots, RunCallback(c)
    PROVE  TypeInv'
<1>1. ASSUME on_sub_account_created(c) \/ on_sub_account_created_paid(c)
      PROVE  TypeInv'
  BY <1>1, CreatedType DEF on_sub_account_created, on_sub_account_created_paid
<1> QED BY <1>1, ListedType, OfferedType, BuyGateType, BuyPaidGateType, SoldType, SoldPaidType,
           ReRentGateType, ReRentedType, RetriedType, ReclaimGateType, ReclaimedType, ClaimedType
        DEF RunCallback

LEMMA TypeStep == TypeInv /\ [RegistryNext]_registryVars => TypeInv'
<1> SUFFICES ASSUME TypeInv, [RegistryNext]_registryVars PROVE TypeInv'
  OBVIOUS
<1>1. CASE UNCHANGED registryVars
  BY <1>1, TypeFrame DEF registryVars, nameVars, worldVars, tokenVars
<1>2. CASE Trade
  BY <1>2, ListType, OfferType, BuyType, BuyPaidType DEF Trade, Advertise, Purchase
<1>3. CASE Withdrawal
  BY <1>3, WithdrawnType DEF Withdrawal
<1>4. CASE RentName
  BY <1>4, RentType, RentPaidType DEF RentName
<1>5. CASE KeepName
  BY <1>5, RenewType, MainWalletType, RetryType DEF KeepName
<1>6. CASE RunTla
  BY <1>6, ActivateType, RenewTlaType DEF RunTla
<1>7. CASE Retract
  BY <1>7, RetractType DEF Retract
<1>8. CASE Anchor
  BY <1>8, MotherType DEF Anchor
<1>9. CASE Reclaiming
  BY <1>9, ReclaimType DEF Reclaiming
<1>10. CASE Sweeping
  BY <1>10, SweepType, RunSweepType DEF Sweeping
<1>11. CASE Claiming
  BY <1>11, ClaimType DEF Claiming
<1>12. CASE AdminRoles
  <2>1. PICK caller \in Admins :
          \/ pause(caller) \/ unpause(caller)
          \/ \E a \in Admins : add_admin(caller, a) \/ remove_admin(caller, a)
          \/ \E u \in Users :
                add_payment_authority(caller, u) \/ remove_payment_authority(caller, u)
    BY <1>12 DEF AdminRoles
  <2>2. caller \in Users
    BY RegistryConstants
  <2> QED BY <2>1, <2>2, RolesType
<1>13. CASE AdminConfig
  <2>1. PICK caller \in Admins :
          \/ \E config \in FeeConfigs : update_fee_config(caller, config)
          \/ \E k \in Keys : set_parked_signer_pubkey(caller, k)
          \/ \E token \in Tokens :
                add_ft_allowlist(caller, token) \/ remove_ft_allowlist(caller, token)
          \/ \E t \in Tlas, cap \in Caps \cup {None} : set_business_sub_cap(caller, t, cap)
    BY <1>13 DEF AdminConfig
  <2>2. CASE \E t \in Tlas, cap \in Caps \cup {None} : set_business_sub_cap(caller, t, cap)
    BY <2>2, CapType
  <2>3. CASE \/ \E config \in FeeConfigs : update_fee_config(caller, config)
             \/ \E k \in Keys : set_parked_signer_pubkey(caller, k)
             \/ \E token \in Tokens :
                   add_ft_allowlist(caller, token) \/ remove_ft_allowlist(caller, token)
    <3>1. Configure(caller)
      BY <2>3 DEF update_fee_config, set_parked_signer_pubkey, add_ft_allowlist,
                  remove_ft_allowlist
    <3>2. ConfigOK'
      BY <2>3 DEF update_fee_config, set_parked_signer_pubkey, add_ft_allowlist,
                  remove_ft_allowlist, TypeInv, ConfigOK
    <3> QED BY <3>1, <3>2, ConfigType
  <2> QED BY <2>1, <2>2, <2>3
<1>14. CASE AdminTlas
  BY <1>14, AdminTlaType DEF AdminTlas, TlaType, PremiumCategory
<1>15. CASE AdminOverrides
  BY <1>15, ClearType, ClearMotherType DEF AdminOverrides
<1>16. CASE AdminMoney
  BY <1>16, WithdrawType DEF AdminMoney
<1>17. CASE Receipts
  BY <1>17, QueryType, BalancesType, TransferType, PaymentType, ManagerType, TypeCallback
     DEF Receipts, RunReceipt, RunExternal
<1>18. CASE RecoveryStep \/ HaltStep
  BY <1>18, CustodyStep
<1>19. CASE TokenStep
  BY <1>19, TokenType DEF TokenStep
<1>20. CASE Tick
  BY <1>20, TickType
<1> QED BY <1>1, <1>2, <1>3, <1>4, <1>5, <1>6, <1>7, <1>8, <1>9, <1>10, <1>11, <1>12, <1>13,
           <1>14, <1>15, <1>16, <1>17, <1>18, <1>19, <1>20 DEF RegistryNext

\* In every behaviour the chains carry the arguments their callbacks read,
\* and a rented name is under a registered TLA.
THEOREM TypesHold == RegistrySpec => []TypeInv
BY TypeInit, TypeStep, PTL DEF RegistrySpec

\* Every variable of the registry keeps its type: no entry is read that is not
\* there, no refund or balance goes below zero.
THEOREM RegistryTypeCorrect == RegistrySpec => []RegistryTypeOK
<1>1. TypeInv => RegistryTypeOK
  BY DEF TypeInv, TlasOK, NamesOK, SalesOK, AnchorsOK, CountsOK, Funds, RolesOK, ConfigOK,
         ChainsOK, OwnersOK, WorldOK, RegistryTypeOK
<1> QED BY <1>1, TypesHold, PTL

-----------------------------------------------------------------------------
(* What a step does to the chains.                                         *)

Begins(c) ==
    \E kind \in Kind, method \in Method, w \in Wallets \cup {None} :
        /\ Fresh(c, kind, method, w)
        /\ paused => kind = "claim"

Ends(c) == OnlyChain(c) /\ InFlight(c) /\ ~InFlight(c)'

\* The gate is behind the chain.
Passes(c) ==
    /\ GoesOn(c)
    /\ chains[c].method = "balances" /\ chains[c].result = "clear"
    /\ chains'[c].method \in Rekeying /\ chains'[c].result = "pending"

\* A call elsewhere is answered, or the next one goes out.
MovesOn(c) ==
    /\ GoesOn(c)
    /\ chains[c].method # "balances" /\ chains'[c].method # "balances"

\* A callback settles its chain or, at the gate, lets it pass.
LEMMA CallbackChain ==
    ASSUME TypeInv, NEW c \in Slots, RunCallback(c)
    PROVE  /\ UNCHANGED held
           /\ \/ Ends(c)
              \/ /\ Passes(c)
                 /\ UNCHANGED <<tlas, sub_accounts, funds>>
<1>1. ASSUME End(c), NEW kinds, NEW methods, CallbackDue(c, kinds, methods)
      PROVE  Ends(c)
  BY <1>1, ChainEnds DEF TypeInv, Ends, CallbackDue
<1>2. ASSUME NEW kind \in {"buy", "buy_paid", "rerent"}, CallbackDue(c, {kind}, {"balances"}),
             chains[c].result # "blocked", Proceed(c, "transfer")
      PROVE  Passes(c)
  <2>1. /\ InFlight(c) /\ chains[c].kind = kind /\ chains[c].method = "balances"
        /\ chains[c].result \in Replies("balances")
    BY <1>2, CallbackTyped DEF TypeInv
  <2>2. chains[c].result = "clear" /\ "transfer" \in MethodsOf(kind) /\ "transfer" \in Rekeying
    BY <1>2, <2>1, MethodFacts DEF Replies, Rekeying
  <2>3. GoesOn(c) /\ chains'[c].method = "transfer" /\ chains'[c].result = "pending"
    BY <1>2, <2>1, <2>2, ChainProceeds DEF TypeInv
  <2> QED BY <2>1, <2>2, <2>3 DEF Passes
<1>3. ASSUME on_buy_balances_checked(c) \/ on_buy_paid_balances_checked(c)
             \/ on_re_rent_balances_checked(c)
      PROVE  /\ UNCHANGED held
             /\ \/ Ends(c)
                \/ Passes(c) /\ UNCHANGED <<tlas, sub_accounts, funds>>
  <2>1. CASE chains[c].result = "blocked"
    BY <1>1, <1>3, <2>1 DEF on_buy_balances_checked, on_buy_paid_balances_checked,
       on_re_rent_balances_checked, abort_sale, worldVars, tokenVars
  <2>2. CASE chains[c].result # "blocked"
    BY <1>2, <1>3, <2>2 DEF on_buy_balances_checked, on_buy_paid_balances_checked,
       on_re_rent_balances_checked, nameVars, worldVars, tokenVars
  <2> QED BY <2>1, <2>2
<1>4. ASSUME on_balances_checked(c)
      PROVE  /\ UNCHANGED held
             /\ \/ Ends(c)
                \/ Passes(c) /\ UNCHANGED <<tlas, sub_accounts, funds>>
  <2>1. UNCHANGED <<held, tlas, sub_accounts, funds>>
    BY <1>4 DEF on_balances_checked, nameVars, worldVars, tokenVars
  <2>2. CASE End(c)
    BY <1>1, <1>4, <2>1, <2>2 DEF on_balances_checked
  <2>3. CASE park_wallet(c) /\ chains[c].result = "clear"
    <3>1. InFlight(c) /\ chains[c].kind = "reclaim" /\ chains[c].method = "balances"
      BY <1>4, CallbackTyped DEF TypeInv, on_balances_checked
    <3>2. /\ GoesOn(c) /\ chains'[c].method = ParkMethod(chains[c].wallet)
          /\ chains'[c].result = "pending"
      BY <2>3, <3>1, ChainParks DEF TypeInv
    <3>3. ParkMethod(chains[c].wallet) \in Rekeying
      BY DEF ParkMethod, Rekeying
    <3> QED BY <2>1, <2>3, <3>1, <3>2, <3>3 DEF Passes
  <2> QED BY <1>4, <2>2, <2>3 DEF on_balances_checked
<1>5. ASSUME on_listing_verified(c) \/ on_offer_verified(c) \/ on_sub_account_sold(c)
             \/ on_sub_account_sold_paid(c) \/ on_sub_account_re_rented(c)
             \/ on_retry_signer_settled(c) \/ on_reclaim_finalized(c)
             \/ on_claim_refund_settled(c)
      PROVE  UNCHANGED held /\ Ends(c)
  BY <1>1, <1>5 DEF on_listing_verified, on_offer_verified, on_sub_account_sold,
     on_sub_account_sold_paid, on_sub_account_re_rented, on_retry_signer_settled,
     on_reclaim_finalized, on_claim_refund_settled, worldVars, tokenVars
<1>6. ASSUME on_sub_account_created(c) \/ on_sub_account_created_paid(c)
      PROVE  UNCHANGED held /\ Ends(c)
  BY <1>1, <1>6 DEF on_sub_account_created, on_sub_account_created_paid, Created,
     worldVars, tokenVars
<1> QED BY <1>3, <1>4, <1>5, <1>6 DEF RunCallback

LEMMA ExternalChain ==
    ASSUME TypeInv, NEW c \in Slots, RunExternal(c)
    PROVE  /\ UNCHANGED <<held, tlas, sub_accounts>>
           /\ funds'.revenue = funds.revenue
           /\ MovesOn(c) \/ RunBalances(c)
<1>1. UNCHANGED <<held, tlas, sub_accounts>>
  BY DEF RunExternal, RunQuery, RunBalances, RunForceTransfer, RunPayment, ManagerStep,
     create_sub_account, on_key_derived, on_wallet_created, on_signer_settled,
     on_creation_failed, retry_install, on_retry_key_derived, unchangedByOthers,
     unchangedByManager, nameVars, tokenVars
<1>2. CASE RunQuery(c)
  <2>1. InFlight(c) /\ chains[c].method = "query" /\ chains[c].wallet \in Wallets
    BY <1>2, PendingTyped, WhoseMethod DEF RunQuery, TypeInv, GoodChain
  <2>2. PICK r \in {owner[chains[c].wallet], "err"} : AnsweredWith(c, r)
    BY <1>2 DEF RunQuery
  <2>3. r \in Replies(chains[c].method)
    BY <2>1 DEF Replies, TypeInv, OwnersOK, KeyOrNone
  <2>4. GoesOn(c) /\ chains'[c].method = chains[c].method
    BY <2>1, <2>2, <2>3, ChainAnswered DEF TypeInv
  <2> QED BY <1>1, <1>2, <2>1, <2>4 DEF MovesOn, RunQuery
<1>3. CASE RunBalances(c)
  BY <1>1, <1>3 DEF RunBalances
<1>4. CASE RunForceTransfer(c)
  BY <1>1, <1>4, TransferAnswer DEF MovesOn, RunForceTransfer
<1>5. CASE RunPayment(c)
  <2>1. InFlight(c) /\ chains[c].method = "pay"
    BY <1>5, PendingTyped DEF RunPayment, TypeInv
  <2>2. Replies("pay") = {"ok", "err"} /\ \E r \in {"ok", "err"} : AnsweredWith(c, r)
    BY <1>5 DEF RunPayment, Replies
  <2>3. GoesOn(c) /\ chains'[c].method = chains[c].method
    BY <2>1, <2>2, ChainAnswered DEF TypeInv
  <2> QED BY <1>1, <1>5, <2>1, <2>3, PaymentType DEF MovesOn
<1>6. CASE ManagerStep(c)
  <2>1. "balances" \notin Minting /\ "balances" \notin Rekeying
    BY DEF Minting, Rekeying
  <2>2. chains[c].method # "balances" /\ chains'[c].method # "balances"
    BY <1>6, <2>1, ManagerType DEF Rekeying
  <2> QED BY <1>1, <1>6, <2>2, ManagerType DEF MovesOn
<1> QED BY <1>2, <1>3, <1>4, <1>5, <1>6 DEF RunExternal

LEMMA FreshBegins ==
    ASSUME NEW c \in Slots, NEW kind \in Kind, NEW method \in Method,
           NEW w \in Wallets \cup {None}, Fresh(c, kind, method, w), paused => kind = "claim"
    PROVE  Begins(c)
BY DEF Begins

\* The requests that start a chain.
LEMMA RequestChain ==
    ASSUME TypeInv,
           \/ Trade \/ RentName \/ Reclaiming \/ Claiming
           \/ \E c \in Slots, u \in Users, w \in Wallets : retry_signer_install(c, u, w)
    PROVE  UNCHANGED held /\ \E c \in Slots : Begins(c)
<1>1. Kind = {"list", "offer", "buy", "buy_paid", "mint", "mint_paid", "rerent", "reclaim",
              "retry", "claim"} /\ Rekeying \subseteq Method
      /\ {"query", "balances", "transfer", "create", "retry_install", "pay"} \subseteq Method
  BY DEF Kind, Method, Rekeying
<1>2. ASSUME NEW c \in Slots, NEW u \in Users, NEW w \in Wallets, NEW k \in Keys,
             Advertise(c, u, w, k)
      PROVE  UNCHANGED held /\ Begins(c)
  <2>1. ASSUME NEW p \in Prices, list_sub_account(c, u, w, p, k)
        PROVE  UNCHANGED held /\ Begins(c)
    BY <1>1, <2>1, ListStarts, FreshBegins
       DEF list_sub_account, assert_listable, worldVars, tokenVars
  <2>2. ASSUME NEW p \in Prices, NEW b \in Users, accept_offer(c, u, w, b, p, k)
        PROVE  UNCHANGED held /\ Begins(c)
    BY <1>1, <2>2, OfferStarts, FreshBegins
       DEF accept_offer, assert_listable, worldVars, tokenVars
  <2> QED BY <1>2, <2>1, <2>2 DEF Advertise
<1>3. ASSUME NEW c \in Slots, NEW u \in Users, NEW w \in Wallets, NEW k \in Keys,
             Purchase(c, u, w, k)
      PROVE  UNCHANGED held /\ Begins(c)
  <2>1. ASSUME NEW paid \in Payments, buy_sub_account(c, u, w, k, paid)
        PROVE  UNCHANGED held /\ Begins(c)
    BY <1>1, <2>1, BuyStarts, FreshBegins DEF buy_sub_account, worldVars, tokenVars
  <2>2. ASSUME NEW b \in Users, buy_sub_account_paid(c, u, b, w, k)
        PROVE  UNCHANGED held /\ Begins(c)
    BY <1>1, <2>2, BuyPaidStarts, FreshBegins DEF buy_sub_account_paid, worldVars, tokenVars
  <2> QED BY <1>3, <2>1, <2>2 DEF Purchase
<1>4. ASSUME NEW c \in Slots, NEW u \in Users, NEW w \in Wallets, NEW k \in Keys,
             NEW m \in Accounts, NEW paid \in Payments,
             rent_sub_account(c, u, w, k, m, paid) \/ rent_sub_account_paid(c, u, w, k, m, paid)
      PROVE  UNCHANGED held /\ Begins(c)
  <2>1. CASE rent_sub_account(c, u, w, k, m, paid)
    <3>1. \E kind \in Kind, method \in Method : Fresh(c, kind, method, w)
      BY <1>1, <2>1, RentStarts
    <3>2. UNCHANGED held /\ ~paused
      BY <2>1 DEF rent_sub_account, worldVars, tokenVars
    <3> QED BY <3>1, <3>2, FreshBegins
  <2>2. CASE rent_sub_account_paid(c, u, w, k, m, paid)
    BY <1>1, <2>2, RentPaidStarts, FreshBegins DEF rent_sub_account_paid, worldVars, tokenVars
  <2> QED BY <1>4, <2>1, <2>2
<1>5. ASSUME NEW c \in Slots, NEW w \in Wallets, reclaim_finalize(c, w)
      PROVE  UNCHANGED held /\ Begins(c)
  BY <1>1, <1>5, ReclaimStarts, FreshBegins DEF reclaim_finalize, worldVars, tokenVars
<1>6. ASSUME NEW c \in Slots, NEW u \in Users, claim_refund(c, u)
      PROVE  UNCHANGED held /\ Begins(c)
  BY <1>1, <1>6, ClaimStarts, FreshBegins DEF claim_refund, worldVars, tokenVars
<1>7. ASSUME NEW c \in Slots, NEW u \in Users, NEW w \in Wallets, retry_signer_install(c, u, w)
      PROVE  UNCHANGED held /\ Begins(c)
  BY <1>1, <1>7, RetryStarts, FreshBegins DEF retry_signer_install, worldVars, tokenVars
<1> QED BY <1>2, <1>3, <1>4, <1>5, <1>6, <1>7 DEF Trade, RentName, Reclaiming, Claiming

\* Everything else leaves the chains alone.
LEMMA QuietChains ==
    ASSUME TypeInv,
           \/ Withdrawal \/ RunTla \/ Retract \/ Anchor \/ Sweeping
           \/ \E u \in Users, w \in Wallets :
                 \/ \E paid \in Payments : renew_sub_account(u, w, paid)
                 \/ \E m \in Accounts : set_main_wallet(u, w, m)
           \/ AdminRoles \/ AdminConfig \/ AdminTlas \/ AdminOverrides \/ AdminMoney
           \/ RecoveryStep \/ HaltStep
    PROVE  UNCHANGED <<chains, held>>
<1>1. CASE Withdrawal \/ RunTla \/ Retract \/ Anchor
  <2>1. CASE Withdrawal
    BY <2>1 DEF Withdrawal, unlist_sub_account, revoke_offer, worldVars, tokenVars
  <2>2. CASE RunTla
    <3>1. PICK u \in Users, t \in Tlas, paid \in Payments :
            activate_tla(u, t, paid) \/ renew_tla(u, t, paid)
      BY <2>2 DEF RunTla
    <3>2. CASE activate_tla(u, t, paid)
      BY <3>2 DEF activate_tla, worldVars, tokenVars
    <3>3. CASE renew_tla(u, t, paid)
      BY <3>3 DEF renew_tla, worldVars, tokenVars
    <3> QED BY <3>1, <3>2, <3>3
  <2>3. CASE Retract
    BY <2>3 DEF Retract, schedule_retraction, cancel_retraction, SetRetraction, worldVars, tokenVars
  <2>4. CASE Anchor
    BY <2>4 DEF Anchor, set_mother, worldVars, tokenVars
  <2> QED BY <1>1, <2>1, <2>2, <2>3, <2>4
<1>2. CASE Sweeping
  BY <1>2 DEF Sweeping, reclaim_sweep_ft, RunSweep
<1>3. CASE \E u \in Users, w \in Wallets :
                 \/ \E paid \in Payments : renew_sub_account(u, w, paid)
                 \/ \E m \in Accounts : set_main_wallet(u, w, m)
  BY <1>3 DEF renew_sub_account, set_main_wallet, worldVars, tokenVars
<1>4. CASE AdminRoles
  BY <1>4 DEF AdminRoles, pause, unpause, add_admin, remove_admin, add_payment_authority,
     remove_payment_authority, SetRoles, worldVars, tokenVars
<1>5. CASE AdminConfig
  BY <1>5 DEF AdminConfig, update_fee_config, set_parked_signer_pubkey, add_ft_allowlist,
     remove_ft_allowlist, set_business_sub_cap, Configure, worldVars, tokenVars
<1>6. CASE AdminTlas
  BY <1>6 DEF AdminTlas, register_tla, suspend_tla, unsuspend_tla, activate_open_tla, SetTla,
     worldVars, tokenVars
<1>7. CASE AdminOverrides
  BY <1>7 DEF AdminOverrides, admin_clear_settling, admin_clear_reclaim_pending,
     admin_clear_mother, worldVars, tokenVars
<1>8. CASE AdminMoney
  BY <1>8 DEF AdminMoney, withdraw, worldVars, tokenVars
<1>9. CASE RecoveryStep \/ HaltStep
  BY <1>9 DEF RecoveryStep, HaltStep, unchangedByOthers, tokenVars
<1> QED BY <1>1, <1>2, <1>3, <1>4, <1>5, <1>6, <1>7, <1>8, <1>9

LEMMA ChainStep ==
    ASSUME TypeInv, [RegistryNext]_registryVars
    PROVE  \/ UNCHANGED <<chains, held>>
           \/ /\ UNCHANGED held
              /\ \E c \in Slots : Begins(c) \/ Ends(c) \/ Passes(c) \/ MovesOn(c) \/ RunBalances(c)
           \/ \E w \in Wallets, token \in Tokens : TokenArrives(w, token) \/ TokenLeaves(w, token)
           \/ Tick
<1>1. CASE UNCHANGED registryVars
  BY <1>1 DEF registryVars, worldVars, tokenVars
<1>2. CASE KeepName
  BY <1>2, QuietChains, RequestChain DEF KeepName
<1>3. CASE Receipts
  BY <1>3, CallbackChain, ExternalChain DEF Receipts, RunReceipt
<1>4. CASE TokenStep \/ Tick
  BY <1>4 DEF TokenStep
<1>5. CASE Trade \/ RentName \/ Reclaiming \/ Claiming
  BY <1>5, RequestChain
<1>6. CASE \/ Withdrawal \/ RunTla \/ Retract \/ Anchor \/ Sweeping
           \/ AdminRoles \/ AdminConfig \/ AdminTlas \/ AdminOverrides \/ AdminMoney
           \/ RecoveryStep \/ HaltStep
  BY <1>6, QuietChains
<1> QED BY <1>1, <1>2, <1>3, <1>4, <1>5, <1>6 DEF RegistryNext

-----------------------------------------------------------------------------
(* The asset gate.                                                         *)

\* A token that has been on the wallet since the gate opened is still there,
\* its balance is still to be read while the gate is open, and the gate was
\* not passed with one.
Gate(c) ==
    InFlight(c) =>
        /\ chains[c].method # "balances" => chains[c].stuck = {}
        /\ chains[c].method = "balances" =>
             /\ chains[c].stuck \subseteq held[chains[c].wallet]
             /\ chains[c].result = "pending" => chains[c].stuck \subseteq chains[c].unread
             /\ chains[c].result = "clear" => chains[c].stuck = {}

GateInv == \A c \in Slots : Gate(c)

LEMMA GateStep ==
    ASSUME TypeInv, GateInv, [RegistryNext]_registryVars
    PROVE  GateInv'
<1>1. ASSUME NEW c \in Slots, OnlyChain(c), UNCHANGED held, Gate(c)'
      PROVE  GateInv'
  BY <1>1 DEF GateInv, Gate, OnlyChain, InFlight
<1>2. CASE UNCHANGED <<chains, held>>
  BY <1>2 DEF GateInv, Gate, InFlight
<1>3. ASSUME UNCHANGED held, NEW c \in Slots, Begins(c)
      PROVE  GateInv'
  <2>1. PICK kind \in Kind, method \in Method, w \in Wallets \cup {None} :
          Fresh(c, kind, method, w)
    BY <1>3 DEF Begins
  <2>2. /\ OnlyChain(c) /\ chains'[c].method = method /\ chains'[c].wallet = w
        /\ chains'[c].result = "pending"
        /\ chains'[c].unread = Chain(kind, method, w).unread
        /\ chains'[c].stuck = Chain(kind, method, w).stuck
    BY <2>1 DEF Fresh
  <2>3. Gate(c)'
    BY <1>3, <2>2, ChainGate DEF Gate
  <2> QED BY <1>1, <1>3, <2>2, <2>3
<1>4. ASSUME UNCHANGED held, NEW c \in Slots, Ends(c)
      PROVE  GateInv'
  BY <1>1, <1>4 DEF Ends, Gate
<1>5. ASSUME UNCHANGED held, NEW c \in Slots, Passes(c)
      PROVE  GateInv'
  <2>1. "balances" \notin Rekeying
    BY DEF Rekeying
  <2> QED BY <1>1, <1>5, <2>1 DEF Passes, GoesOn, Gate, GateInv
<1>6. ASSUME UNCHANGED held, NEW c \in Slots, MovesOn(c)
      PROVE  GateInv'
  BY <1>1, <1>6 DEF MovesOn, GoesOn, Gate, GateInv
<1>7. ASSUME UNCHANGED held, NEW c \in Slots, RunBalances(c)
      PROVE  GateInv'
  <2>1. /\ GoesOn(c) /\ chains'[c].method = "balances"
        /\ chains[c].method = "balances" /\ chains[c].result = "pending"
        /\ \/ chains'[c].unread = {} /\ chains'[c].result = "blocked"
           \/ \E token \in Tokens :
                /\ token \notin held[chains[c].wallet]
                /\ token \in chains[c].unread
                /\ chains'[c].unread = chains[c].unread \ {token}
                /\ chains'[c].result =
                     IF chains[c].unread = {token} THEN "clear" ELSE "pending"
    BY <1>7, BalancesAnswer
  <2>2. /\ OnlyChain(c) /\ InFlight(c) /\ chains'[c].stuck = chains[c].stuck
        /\ chains'[c].wallet = chains[c].wallet
    BY <2>1 DEF GoesOn
  <2>3. /\ chains[c].stuck \subseteq held[chains[c].wallet]
        /\ chains[c].stuck \subseteq chains[c].unread
    BY <2>1, <2>2 DEF GateInv, Gate
  <2>4. Gate(c)'
    BY <1>7, <2>1, <2>2, <2>3 DEF Gate
  <2> QED BY <1>1, <1>7, <2>2, <2>4
<1>8. ASSUME NEW w \in Wallets, NEW token \in Tokens, TokenArrives(w, token)
      PROVE  GateInv'
  <2>1. UNCHANGED chains /\ \A v \in Wallets : held[v] \subseteq held'[v]
    BY <1>8 DEF TokenArrives, TypeInv, WorldOK
  <2>2. \A c \in Slots : InFlight(c) /\ chains[c].method = "balances" => chains[c].wallet \in Wallets
    BY ChainTyped, MethodFacts DEF TypeInv, GoodChain
  <2> QED BY <2>1, <2>2 DEF GateInv, Gate, InFlight
<1>9. ASSUME NEW w \in Wallets, NEW token \in Tokens, TokenLeaves(w, token)
      PROVE  GateInv'
  <2>1. ASSUME NEW c \in Slots, InFlight(c)
        PROVE  Gate(c)'
    <3>1. /\ Marked(c)
          /\ chains'[c].stuck = IF chains[c].wallet = w THEN chains[c].stuck \ {token}
                                                        ELSE chains[c].stuck
      BY <1>9, <2>1, LeavesMarks
    <3>2. \A v \in Wallets : held'[v] = IF v = w THEN held[v] \ {token} ELSE held[v]
      BY <1>9 DEF TokenLeaves, TypeInv, WorldOK
    <3>3. chains[c].method = "balances" => chains[c].wallet \in Wallets
      BY <2>1, ChainTyped, MethodFacts DEF TypeInv, GoodChain
    <3>4. /\ chains'[c].method = chains[c].method /\ chains'[c].result = chains[c].result
          /\ chains'[c].wallet = chains[c].wallet /\ chains'[c].unread = chains[c].unread
          /\ chains'[c].stuck \subseteq chains[c].stuck
          /\ chains[c].wallet = w => token \notin chains'[c].stuck
      BY <3>1 DEF Marked
    <3>5. Gate(c)
      BY DEF GateInv
    <3>6. chains[c].method = "balances" => chains'[c].stuck \subseteq held'[chains'[c].wallet]
      BY <2>1, <3>2, <3>3, <3>4, <3>5 DEF Gate
    <3> QED BY <2>1, <3>4, <3>5, <3>6 DEF Gate
  <2>2. \A c \in Slots : InFlight(c)' => InFlight(c)
    BY <1>9, LeavesMarks
  <2> QED BY <2>1, <2>2 DEF GateInv, Gate
<1>10. CASE Tick
  <2>1. UNCHANGED held
    BY <1>10 DEF Tick, tokenVars
  <2>2. \A c \in Slots : /\ InFlight(c)' => InFlight(c)
                         /\ InFlight(c) => Marked(c) /\ chains'[c].stuck = chains[c].stuck
    BY <1>10, TickMarks
  <2> QED BY <2>1, <2>2 DEF GateInv, Gate, Marked
<1> QED BY <1>2, <1>3, <1>4, <1>5, <1>6, <1>7, <1>8, <1>9, <1>10, ChainStep

\* A wallet with a token of the gate that lay on it all along is not re-keyed,
\* for any set of tokens, in any order of the reads and of what comes and goes
\* on any number of wallets (ft_balance_fanout, ft_balances_clear).
THEOREM GateHolds == RegistrySpec => []UnsweptTokensBlock
<1>1. RegistryInit => GateInv
  BY DEF RegistryInit, EmptyBooks, GateInv, Gate, InFlight
<1>2. GateInv => UnsweptTokensBlock
  BY DEF GateInv, Gate, UnsweptTokensBlock, Rekeying
<1>3. TypeInv /\ GateInv /\ [RegistryNext]_registryVars => GateInv'
  BY GateStep
<1> QED BY <1>1, <1>2, <1>3, TypesHold, PTL DEF RegistrySpec

-----------------------------------------------------------------------------
(* Leases.                                                                 *)

\* A TLA that was never activated has no lease.
NoLeaseYet ==
    \A t \in Tlas : tlas[t] # None /\ tlas[t].status = "Registered" => tlas[t].expires_at = 0

LEMMA LeaseFrame ==
    ASSUME TypeInv, NoLeaseYet, UNCHANGED <<tlas, sub_accounts>>
    PROVE  LeaseStep /\ NoLeaseYet'
<1>1. \A t \in Tlas : tlas[t] # None => tlas[t].expires_at \in Nat
  BY TlaFields DEF TypeInv
<1>2. \A w \in Wallets : Rented(w) => sub_accounts[w].expires_at \in Nat
  BY NameFields DEF TypeInv
<1> QED BY <1>1, <1>2 DEF LeaseStep, NoLeaseYet

LEMMA TlaLease ==
    ASSUME TypeInv, NoLeaseYet, UNCHANGED sub_accounts, NEW t \in Tlas, NEW e \in TlaEntry,
           SetEntryOf(t, e), e.status = "Registered" => e.expires_at = 0,
           tlas[t] # None => /\ e.expires_at >= tlas[t].expires_at
                             /\ e.tla_type = tlas[t].tla_type
                             /\ e.premium_category = tlas[t].premium_category
                             /\ e.licensee = tlas[t].licensee
    PROVE  LeaseStep /\ NoLeaseYet'
<1>1. /\ tlas'[t] = e /\ e # None
      /\ \A s \in Tlas \ {t} : tlas'[s] = tlas[s]
  BY TlaChange DEF TypeInv
<1>2. \A s \in Tlas : tlas[s] # None => tlas[s].expires_at \in Nat
  BY TlaFields DEF TypeInv
<1>3. \A w \in Wallets : Rented(w) => sub_accounts[w].expires_at \in Nat
  BY NameFields DEF TypeInv
<1> QED BY <1>1, <1>2, <1>3 DEF LeaseStep, NoLeaseYet

LEMMA NameLease ==
    ASSUME TypeInv, NoLeaseYet, UNCHANGED tlas, NEW w \in Wallets,
           NEW e \in SubAccountEntry \cup {None}, SetEntry(w, e),
           Rented(w) /\ e # None => e.expires_at >= sub_accounts[w].expires_at
    PROVE  LeaseStep /\ NoLeaseYet'
<1>1. /\ sub_accounts'[w] = e
      /\ \A v \in Wallets \ {w} : sub_accounts'[v] = sub_accounts[v]
  BY EntryChange DEF TypeInv
<1>2. \A t \in Tlas : tlas[t] # None => tlas[t].expires_at \in Nat
  BY TlaFields DEF TypeInv
<1>3. \A v \in Wallets : Rented(v) => sub_accounts[v].expires_at \in Nat
  BY NameFields DEF TypeInv
<1> QED BY <1>1, <1>2, <1>3 DEF LeaseStep, NoLeaseYet

LEMMA RentLease ==
    ASSUME TypeInv, NoLeaseYet, RentName
    PROVE  LeaseStep /\ NoLeaseYet'
<1>1. PICK u \in Users, w \in Wallets, m \in Accounts :
        Enter(w, u, m) /\ ~Rented(w) /\ UNCHANGED tlas
  BY DEF RentName, rent_sub_account, rent_sub_account_paid
<1>2. SetEntry(w, NewEntry(u, m)) /\ NewEntry(u, m) \in SubAccountEntry \cup {None}
  BY <1>1, NewEntryType DEF Enter, SetEntry, TypeInv
<1> QED BY <1>1, <1>2, NameLease

LEMMA KeepLease ==
    ASSUME TypeInv, NoLeaseYet, KeepName
    PROVE  LeaseStep /\ NoLeaseYet'
<1>1. ASSUME NEW u \in Users, NEW w \in Wallets, NEW paid \in Payments,
             renew_sub_account(u, w, paid)
      PROVE  LeaseStep /\ NoLeaseYet'
  <2>1. PICK e \in SubAccountEntry : /\ SetEntry(w, e) /\ Rented(w)
                                     /\ e.expires_at = Renewed(sub_accounts[w].expires_at)
    BY <1>1, RenewEntry
  <2>2. e.expires_at >= sub_accounts[w].expires_at
    BY <2>1, NameFields, RenewedIsLater DEF TypeInv
  <2>3. UNCHANGED tlas
    BY <1>1 DEF renew_sub_account
  <2> QED BY <2>1, <2>2, <2>3, NameLease
<1>2. ASSUME NEW u \in Users, NEW w \in Wallets, NEW m \in Accounts, set_main_wallet(u, w, m)
      PROVE  LeaseStep /\ NoLeaseYet'
  <2>1. PICK e \in SubAccountEntry : /\ SetEntry(w, e) /\ Rented(w)
                                     /\ e.expires_at = sub_accounts[w].expires_at
    BY <1>2, MainWalletEntry
  <2>2. e.expires_at >= sub_accounts[w].expires_at
    BY <2>1, NameFields DEF TypeInv
  <2>3. UNCHANGED tlas
    BY <1>2 DEF set_main_wallet
  <2> QED BY <2>1, <2>2, <2>3, NameLease
<1>3. ASSUME NEW c \in Slots, NEW u \in Users, NEW w \in Wallets, retry_signer_install(c, u, w)
      PROVE  LeaseStep /\ NoLeaseYet'
  BY <1>3, LeaseFrame DEF retry_signer_install, nameVars
<1> QED BY <1>1, <1>2, <1>3 DEF KeepName

LEMMA TlaLeases ==
    ASSUME TypeInv, NoLeaseYet, RunTla \/ AdminTlas
    PROVE  LeaseStep /\ NoLeaseYet'
<1>1. ASSUME NEW u \in Users, NEW t \in Tlas, NEW paid \in Payments, activate_tla(u, t, paid)
      PROVE  LeaseStep /\ NoLeaseYet'
  <2>1. PICK e \in TlaEntry :
             /\ SetEntryOf(t, e) /\ tlas[t] # None /\ tlas[t].status = "Registered"
             /\ e.status = "Active" /\ e.expires_at = now + Year /\ e.tla_type = tlas[t].tla_type
             /\ e.premium_category = tlas[t].premium_category /\ e.licensee = tlas[t].licensee
    BY <1>1, ActivateEntry
  <2>2. e.expires_at >= tlas[t].expires_at
    BY <2>1, RegistryConstants DEF NoLeaseYet, TypeInv, WorldOK
  <2>3. UNCHANGED sub_accounts
    BY <1>1 DEF activate_tla, nameVars
  <2> QED BY <2>1, <2>2, <2>3, TlaLease
<1>2. ASSUME NEW u \in Users, NEW t \in Tlas, NEW paid \in Payments, renew_tla(u, t, paid)
      PROVE  LeaseStep /\ NoLeaseYet'
  <2>1. PICK e \in TlaEntry :
             /\ SetEntryOf(t, e) /\ tlas[t] # None
             /\ e.status = tlas[t].status /\ tlas[t].status = "Active"
             /\ e.expires_at = Renewed(tlas[t].expires_at) /\ e.tla_type = tlas[t].tla_type
             /\ e.premium_category = tlas[t].premium_category /\ e.licensee = tlas[t].licensee
    BY <1>2, RenewTlaEntry
  <2>2. e.expires_at >= tlas[t].expires_at /\ e.status # "Registered"
    BY <2>1, TlaFields, RenewedIsLater DEF TypeInv
  <2>3. UNCHANGED sub_accounts
    BY <1>2 DEF renew_tla, nameVars
  <2> QED BY <2>1, <2>2, <2>3, TlaLease
<1>3. ASSUME NEW caller \in Admins, NEW t \in Tlas, NEW tla_type \in TlaType,
             NEW premium \in PremiumCategory, NEW licensee \in Users \cup {None},
             register_tla(caller, t, tla_type, premium, licensee)
      PROVE  LeaseStep /\ NoLeaseYet'
  <2>1. PICK e \in TlaEntry :
          SetTla(caller, t, e) /\ e.status = "Registered" /\ e.expires_at = 0 /\ tlas[t] = None
    BY <1>3, RegisterEntry
  <2>2. UNCHANGED sub_accounts /\ SetEntryOf(t, e)
    BY <2>1 DEF SetTla, nameVars, SetEntryOf
  <2> QED BY <2>1, <2>2, TlaLease
<1>4. ASSUME NEW caller \in Admins, NEW t \in Tlas,
             suspend_tla(caller, t) \/ unsuspend_tla(caller, t) \/ activate_open_tla(caller, t)
      PROVE  LeaseStep /\ NoLeaseYet'
  <2>1. tlas[t] # None
    BY <1>4 DEF suspend_tla, unsuspend_tla, activate_open_tla
  <2>2. PICK e \in TlaEntry :
             /\ SetTla(caller, t, e)
             /\ e.tla_type = tlas[t].tla_type /\ e.licensee = tlas[t].licensee
             /\ e.premium_category = tlas[t].premium_category /\ e.status # "Registered"
             /\ \/ e.expires_at = tlas[t].expires_at /\ tlas[t].status # "Registered"
                \/ e.expires_at = now + Year /\ tlas[t].status = "Registered"
    BY <1>4, <2>1, AdminTlaEntry
  <2>3. tlas[t].expires_at \in Nat
    BY <2>1, TlaFields DEF TypeInv
  <2>4. e.expires_at >= tlas[t].expires_at
    BY <2>1, <2>2, <2>3, RegistryConstants DEF NoLeaseYet, TypeInv, WorldOK
  <2>5. UNCHANGED sub_accounts /\ SetEntryOf(t, e)
    BY <2>2 DEF SetTla, nameVars, SetEntryOf
  <2> QED BY <2>2, <2>4, <2>5, TlaLease
<1> QED BY <1>1, <1>2, <1>3, <1>4 DEF RunTla, AdminTlas

LEMMA RetractLease ==
    ASSUME TypeInv, NoLeaseYet, Retract
    PROVE  LeaseStep /\ NoLeaseYet'
<1>1. PICK w \in Wallets, at \in Nat \cup {None} : Rented(w) /\ SetRetraction(w, at)
  BY DEF Retract, schedule_retraction, cancel_retraction, TypeInv, WorldOK
<1>2. PICK e \in SubAccountEntry : SetEntry(w, e) /\ e.expires_at = sub_accounts[w].expires_at
  BY <1>1, RetractionEntry
<1>3. e.expires_at >= sub_accounts[w].expires_at
  BY <1>1, <1>2, NameFields DEF TypeInv
<1>4. UNCHANGED tlas
  BY <1>1 DEF SetRetraction
<1> QED BY <1>2, <1>3, <1>4, NameLease

LEMMA CallbackLease ==
    ASSUME TypeInv, NoLeaseYet, NEW c \in Slots, RunCallback(c)
    PROVE  LeaseStep /\ NoLeaseYet'
<1>1. ASSUME UNCHANGED tlas, SetEntry(chains[c].wallet, None), chains[c].wallet \in Wallets
      PROVE  LeaseStep /\ NoLeaseYet'
  BY <1>1, NameLease
<1>2. ASSUME UNCHANGED tlas, settle_failed_mint(c), InFlight(c), chains[c].kind # "claim"
      PROVE  LeaseStep /\ NoLeaseYet'
  <2>1. chains[c].wallet \in Wallets
    BY <1>2, ChainTyped DEF TypeInv, GoodChain
  <2> QED BY <1>1, <1>2, <2>1 DEF settle_failed_mint, SetEntry
<1>3. ASSUME UNCHANGED tlas, InFlight(c), chains[c].kind \in {"buy", "buy_paid"},
             Rented(chains[c].wallet), NEW o \in Users, NEW m \in Accounts,
             sub_accounts' = NewTenant(chains[c].wallet, o, m)
      PROVE  LeaseStep /\ NoLeaseYet'
  <2>1. PICK w : w = chains[c].wallet
    OBVIOUS
  <2>2. w \in Wallets /\ Rented(w)
    BY <1>3, <2>1, ChainTyped DEF TypeInv, GoodChain
  <2>3. /\ sub_accounts'[w].expires_at = sub_accounts[w].expires_at
        /\ \A v \in Wallets \ {w} : sub_accounts'[v] = sub_accounts[v]
    BY <1>3, <2>1, <2>2, TenantChange DEF TypeInv
  <2>4. \A t \in Tlas : tlas[t] # None => tlas[t].expires_at \in Nat
    BY TlaFields DEF TypeInv
  <2>5. \A v \in Wallets : Rented(v) => sub_accounts[v].expires_at \in Nat
    BY NameFields DEF TypeInv
  <2> QED BY <1>3, <2>3, <2>4, <2>5 DEF LeaseStep, NoLeaseYet
<1>4. CASE on_sub_account_sold(c)
  <2>1. /\ InFlight(c) /\ chains[c].kind = "buy" /\ chains[c].user \in Users
    BY <1>4, CallbackTyped DEF on_sub_account_sold, TypeInv, GoodChain
  <2> QED BY <1>3, <1>4, <2>1, LeaseFrame DEF on_sub_account_sold, Sold, Accounts
<1>5. CASE on_sub_account_sold_paid(c)
  <2>1. /\ InFlight(c) /\ chains[c].kind = "buy_paid" /\ chains[c].user \in Users
        /\ chains[c].other \in Users
    BY <1>5, CallbackTyped DEF on_sub_account_sold_paid, TypeInv, GoodChain
  <2> QED BY <1>3, <1>5, <2>1, LeaseFrame DEF on_sub_account_sold_paid, Sold, Accounts
<1>6. CASE on_sub_account_created(c) \/ on_sub_account_created_paid(c)
  BY <1>2, <1>6, LeaseFrame DEF on_sub_account_created, on_sub_account_created_paid, Created,
     RecordRental, CallbackDue
<1>7. CASE on_re_rent_balances_checked(c) \/ on_sub_account_re_rented(c)
  BY <1>2, <1>7, LeaseFrame DEF on_re_rent_balances_checked, on_sub_account_re_rented,
     CallbackDue, nameVars
<1>8. CASE on_reclaim_finalized(c)
  <2>1. chains[c].wallet \in Wallets
    BY <1>8, CallbackTyped DEF on_reclaim_finalized, TypeInv, GoodChain
  <2> QED BY <1>1, <1>8, <2>1, LeaseFrame DEF on_reclaim_finalized, SetEntry, nameVars
<1>9. CASE on_listing_verified(c) \/ on_offer_verified(c) \/ on_buy_balances_checked(c)
           \/ on_buy_paid_balances_checked(c) \/ on_retry_signer_settled(c)
           \/ on_balances_checked(c) \/ on_claim_refund_settled(c)
  BY <1>9, LeaseFrame DEF on_listing_verified, on_offer_verified, on_buy_balances_checked,
     on_buy_paid_balances_checked, on_retry_signer_settled, on_balances_checked,
     on_claim_refund_settled, nameVars
<1> QED BY <1>4, <1>5, <1>6, <1>7, <1>8, <1>9 DEF RunCallback

LEMMA NoLeaseTouched ==
    ASSUME \/ Trade \/ Withdrawal \/ Anchor \/ Reclaiming \/ Sweeping \/ Claiming
           \/ AdminRoles \/ AdminConfig \/ AdminOverrides \/ AdminMoney
           \/ RecoveryStep \/ HaltStep \/ TokenStep \/ Tick
    PROVE  UNCHANGED <<tlas, sub_accounts>>
<1>1. CASE Trade
  <2> PICK c \in Slots, u \in Users, w \in Wallets, k \in Keys :
             Advertise(c, u, w, k) \/ Purchase(c, u, w, k)
    BY <1>1 DEF Trade
  <2>1. CASE Advertise(c, u, w, k)
    BY <2>1 DEF Advertise, list_sub_account, accept_offer, nameVars
  <2>2. CASE Purchase(c, u, w, k)
    BY <2>2 DEF Purchase, buy_sub_account, buy_sub_account_paid, nameVars
  <2> QED BY <2>1, <2>2
<1>7. CASE Withdrawal
  BY <1>7 DEF Withdrawal, unlist_sub_account, revoke_offer, nameVars
<1>2. CASE Anchor \/ Reclaiming \/ Sweeping \/ Claiming
  BY <1>2 DEF Anchor, set_mother, Reclaiming, reclaim_finalize, Sweeping, reclaim_sweep_ft,
     RunSweep, Claiming, claim_refund, nameVars
<1>3. CASE AdminRoles
  BY <1>3 DEF AdminRoles, pause, unpause, add_admin, remove_admin, add_payment_authority,
     remove_payment_authority, SetRoles, nameVars
<1>4. CASE AdminConfig
  BY <1>4 DEF AdminConfig, update_fee_config, set_parked_signer_pubkey, add_ft_allowlist,
     remove_ft_allowlist, set_business_sub_cap, Configure, nameVars
<1>5. CASE AdminOverrides \/ AdminMoney
  BY <1>5 DEF AdminOverrides, admin_clear_settling, admin_clear_reclaim_pending,
     admin_clear_mother, AdminMoney, withdraw, nameVars
<1>6. CASE RecoveryStep \/ HaltStep \/ TokenStep \/ Tick
  BY <1>6 DEF RecoveryStep, HaltStep, unchangedByOthers, TokenStep, TokenArrives, TokenLeaves,
     Tick, nameVars
<1> QED BY <1>1, <1>2, <1>3, <1>4, <1>5, <1>6, <1>7

\* A TLA stays registered as what it is, and no step shortens a lease, whoever
\* renews, sells, suspends or settles what and when.
THEOREM LeasesKept == RegistrySpec => LeasesNeverShrink
<1>1. RegistryInit => NoLeaseYet
  BY DEF RegistryInit, NoLeaseYet
<1>2. ASSUME TypeInv, NoLeaseYet, [RegistryNext]_registryVars
      PROVE  LeaseStep /\ NoLeaseYet'
  <2>1. CASE UNCHANGED registryVars
    BY <1>2, <2>1, LeaseFrame DEF registryVars, nameVars
  <2>2. CASE Receipts
    BY <1>2, <2>2, LeaseFrame, CallbackLease, ExternalChain DEF Receipts, RunReceipt
  <2>3. CASE RentName \/ KeepName \/ RunTla \/ AdminTlas \/ Retract
    BY <1>2, <2>3, RentLease, KeepLease, TlaLeases, RetractLease
  <2> QED BY <1>2, <2>1, <2>2, <2>3, LeaseFrame, NoLeaseTouched DEF RegistryNext
<1>3. TypeInv /\ NoLeaseYet /\ [RegistryNext]_registryVars => [LeaseStep]_registryVars /\ NoLeaseYet'
  BY <1>2
<1> QED BY <1>1, <1>3, TypesHold, PTL DEF RegistrySpec, LeasesNeverShrink

-----------------------------------------------------------------------------
(* The pause.                                                              *)

LEMMA NotWhilePaused ==
    \/ Trade \/ Withdrawal \/ RentName \/ KeepName \/ RunTla \/ Retract \/ Anchor \/ Reclaiming
    => ~paused
<1>1. Trade => ~paused
  <2>1. ASSUME NEW c \in Slots, NEW u \in Users, NEW w \in Wallets, NEW k \in Keys
        PROVE  /\ Advertise(c, u, w, k) => ~paused
               /\ Purchase(c, u, w, k) => ~paused
    BY DEF Advertise, Purchase, list_sub_account, accept_offer, assert_listable,
       buy_sub_account, buy_sub_account_paid
  <2> QED BY <2>1 DEF Trade
<1>2. Withdrawal => ~paused
  BY DEF Withdrawal, unlist_sub_account, revoke_offer
<1>3. RentName => ~paused
  BY DEF RentName, rent_sub_account, rent_sub_account_paid
<1>4. KeepName => ~paused
  BY DEF KeepName, renew_sub_account, set_main_wallet, retry_signer_install
<1>5. RunTla => ~paused
  BY DEF RunTla, activate_tla, renew_tla
<1>6. Retract \/ Anchor \/ Reclaiming => ~paused
  BY DEF Retract, schedule_retraction, cancel_retraction, Anchor, set_mother, Reclaiming,
     reclaim_finalize
<1> QED BY <1>1, <1>2, <1>3, <1>4, <1>5, <1>6

LEMMA NamesStand ==
    ASSUME UNCHANGED <<nameVars, saleVars, reclaim_pending>>
    PROVE  \A w \in Wallets : NameStands(w)
BY DEF NameStands, nameVars, saleVars

LEMMA MothersStand ==
    ASSUME UNCHANGED mothers
    PROVE  \A a \in Accounts : mothers'[a] \in {mothers[a], None}
OBVIOUS

LEMMA LeasesStand ==
    ASSUME UNCHANGED tlas
    PROVE  \A t \in Tlas : LeaseStands(t)
BY DEF LeaseStands

\* The locks of a sale are taken off, or the sale with them.
LEMMA SaleCleared ==
    ASSUME SalesOK, NEW v \in Wallets, NEW sold, OrClear(v, sold) \/ clear_settling(v)
    PROVE  /\ \A w \in Wallets \ {v} : listings'[w] = listings[w]
                                       /\ accepted_offers'[w] = accepted_offers[w]
           /\ clear_settling(v) => /\ listings'[v] = Unlocked(listings[v])
                                   /\ accepted_offers'[v] = Unlocked(accepted_offers[v])
<1>1. CASE clear_settling(v)
  BY <1>1 DEF clear_settling, SalesOK
<1>2. CASE ~clear_settling(v)
  BY <1>2 DEF OrClear, SalesOK
<1> QED BY <1>1, <1>2

\* Whatever a callback settles, it touches no name but that of its chain.
LEMMA OtherNamesStand ==
    ASSUME TypeInv, NEW c \in Slots, RunCallback(c), NEW w \in Wallets, w # chains[c].wallet
    PROVE  NameStands(w)
<1>1. CASE on_listing_verified(c) \/ on_offer_verified(c)
  <2>1. chains[c].wallet \in Wallets
    BY <1>1, CallbackTyped DEF on_listing_verified, on_offer_verified, TypeInv, GoodChain
  <2> QED BY <1>1, <2>1 DEF on_listing_verified, on_offer_verified, NameStands, nameVars,
          TypeInv, SalesOK
<1>2. CASE on_buy_balances_checked(c) \/ on_buy_paid_balances_checked(c)
  <2>1. chains[c].wallet \in Wallets
    BY <1>2, CallbackTyped
       DEF on_buy_balances_checked, on_buy_paid_balances_checked, TypeInv, GoodChain
  <2>2. UNCHANGED saleVars \/ clear_settling(chains[c].wallet)
    BY <1>2 DEF on_buy_balances_checked, on_buy_paid_balances_checked, abort_sale
  <2>3. listings'[w] = listings[w] /\ accepted_offers'[w] = accepted_offers[w]
    BY <2>1, <2>2, SaleCleared DEF TypeInv, saleVars
  <2> QED BY <1>2, <2>3 DEF on_buy_balances_checked, on_buy_paid_balances_checked,
          NameStands, nameVars
<1>3. CASE on_sub_account_sold(c) \/ on_sub_account_sold_paid(c)
  <2>1. chains[c].wallet \in Wallets
    BY <1>3, CallbackTyped
       DEF on_sub_account_sold, on_sub_account_sold_paid, TypeInv, GoodChain
  <2>2. listings'[w] = listings[w] /\ accepted_offers'[w] = accepted_offers[w]
    BY <1>3, <2>1, SaleCleared DEF TypeInv, on_sub_account_sold, on_sub_account_sold_paid
  <2>3. sub_accounts'[w] = sub_accounts[w]
    BY <1>3, <2>1 DEF on_sub_account_sold, on_sub_account_sold_paid, NewTenant, TypeInv, NamesOK
  <2> QED BY <1>3, <2>2, <2>3 DEF on_sub_account_sold, on_sub_account_sold_paid, NameStands
<1>4. ASSUME settle_failed_mint(c) \/ RecordRental(c), chains[c].wallet \in Wallets,
             UNCHANGED <<saleVars, reclaim_pending>>
      PROVE  NameStands(w)
  BY <1>4 DEF settle_failed_mint, RecordRental, NameStands, saleVars, TypeInv, NamesOK
<1>5. CASE on_sub_account_created(c) \/ on_sub_account_created_paid(c)
  <2>1. chains[c].wallet \in Wallets
    BY <1>5, CallbackTyped DEF on_sub_account_created, on_sub_account_created_paid, Created,
       TypeInv, GoodChain
  <2> QED BY <1>4, <1>5, <2>1 DEF on_sub_account_created, on_sub_account_created_paid, Created
<1>6. CASE on_re_rent_balances_checked(c)
  <2>1. chains[c].wallet \in Wallets
    BY <1>6, CallbackTyped DEF on_re_rent_balances_checked, TypeInv, GoodChain
  <2> QED BY <1>4, <1>6, <2>1, NamesStand DEF on_re_rent_balances_checked
<1>7. CASE on_sub_account_re_rented(c)
  <2>1. chains[c].wallet \in Wallets
    BY <1>7, CallbackTyped DEF on_sub_account_re_rented, TypeInv, GoodChain
  <2>2. CASE chains[c].result = "err"
    BY <1>4, <1>7, <2>1, <2>2 DEF on_sub_account_re_rented
  <2>3. CASE chains[c].result # "err"
    BY <1>7, <2>1, <2>3 DEF on_sub_account_re_rented, NameStands, saleVars
  <2> QED BY <2>2, <2>3
<1>8. CASE on_retry_signer_settled(c)
  BY <1>8 DEF on_retry_signer_settled, NameStands, saleVars, TypeInv, NamesOK
<1>9. CASE on_balances_checked(c)
  BY <1>9 DEF on_balances_checked, NameStands, saleVars, nameVars
<1>10. CASE on_reclaim_finalized(c)
  <2>1. CASE UNCHANGED <<nameVars, saleVars>>
    BY <1>10, <2>1 DEF on_reclaim_finalized, NameStands, saleVars, nameVars
  <2>2. CASE ~UNCHANGED <<nameVars, saleVars>>
    BY <1>10, <2>2 DEF on_reclaim_finalized, NameStands, TypeInv, NamesOK, SalesOK
  <2> QED BY <2>1, <2>2
<1>11. CASE on_claim_refund_settled(c)
  BY <1>11, NamesStand DEF on_claim_refund_settled
<1> QED BY <1>1, <1>2, <1>3, <1>5, <1>6, <1>7, <1>8, <1>9, <1>10, <1>11 DEF RunCallback

\* A callback that lets its chain go on leaves the name alone.
LEMMA PassingStands ==
    ASSUME TypeInv, NEW c \in Slots, RunCallback(c), ~Ends(c), NEW w \in Wallets
    PROVE  NameStands(w)
<1>1. ~End(c)
  <2>1. InFlight(c)
    BY CallbackChain DEF Passes, GoesOn
  <2> QED BY <2>1, ChainEnds DEF TypeInv, Ends
<1>2. CASE on_buy_balances_checked(c) \/ on_buy_paid_balances_checked(c)
           \/ on_re_rent_balances_checked(c) \/ on_balances_checked(c)
  BY <1>1, <1>2, NamesStand DEF on_buy_balances_checked, on_buy_paid_balances_checked,
     on_re_rent_balances_checked, on_balances_checked, abort_sale
<1>3. CASE on_sub_account_created(c) \/ on_sub_account_created_paid(c)
  BY <1>1, <1>3 DEF on_sub_account_created, on_sub_account_created_paid, Created
<1>4. CASE on_listing_verified(c) \/ on_offer_verified(c) \/ on_sub_account_sold(c)
           \/ on_sub_account_sold_paid(c) \/ on_sub_account_re_rented(c)
           \/ on_retry_signer_settled(c) \/ on_reclaim_finalized(c)
           \/ on_claim_refund_settled(c)
  BY <1>1, <1>4 DEF on_listing_verified, on_offer_verified, on_sub_account_sold,
     on_sub_account_sold_paid, on_sub_account_re_rented, on_retry_signer_settled,
     on_reclaim_finalized, on_claim_refund_settled
<1> QED BY <1>2, <1>3, <1>4 DEF RunCallback

\* A callback settles something about the name of its chain, or nothing.
LEMMA CallbackSettles ==
    ASSUME TypeInv, NEW c \in Slots, RunCallback(c)
    PROVE  /\ \A w \in Wallets : SettlesOn(w) \/ NameStands(w)
           /\ \A t \in Tlas : LeaseStands(t)
           /\ \A a \in Accounts : mothers'[a] \in {mothers[a], None}
           /\ funds'.revenue # funds.revenue => \E w \in Wallets : SettlesOn(w)
<1>1. ASSUME Ends(c)
      PROVE  SettlesOn(chains[c].wallet)
  BY <1>1 DEF Ends, SettlesOn, InFlight
<1>2. \A w \in Wallets : SettlesOn(w) \/ NameStands(w)
  BY <1>1, OtherNamesStand, PassingStands
<1>3. funds'.revenue # funds.revenue => \E w \in Wallets : SettlesOn(w)
  <2>1. CASE ~Ends(c)
    BY <2>1, CallbackChain
  <2>2. CASE chains[c].kind = "claim"
    <3>1. on_claim_refund_settled(c)
      BY <2>2 DEF RunCallback, on_listing_verified, on_offer_verified, on_buy_balances_checked,
         on_buy_paid_balances_checked, on_sub_account_sold, on_sub_account_sold_paid,
         on_sub_account_created, on_sub_account_created_paid, Created,
         on_re_rent_balances_checked, on_sub_account_re_rented, on_retry_signer_settled,
         on_balances_checked, on_reclaim_finalized, CallbackDue
    <3>2. chains[c].deposit \in Nat /\ chains[c].user \in Users
      BY <2>2, <3>1, CallbackTyped DEF TypeInv, on_claim_refund_settled, GoodChain
    <3> QED BY <3>1, <3>2, FundsRefund DEF on_claim_refund_settled, TypeInv
  <2>3. CASE Ends(c) /\ chains[c].kind # "claim"
    <3>1. chains[c].wallet \in Wallets
      BY <2>3, ChainTyped DEF TypeInv, Ends, GoodChain
    <3> QED BY <1>1, <2>3, <3>1
  <2> QED BY <2>1, <2>2, <2>3
<1>4. UNCHANGED tlas
  BY DEF RunCallback, on_listing_verified, on_offer_verified, on_buy_balances_checked,
     on_buy_paid_balances_checked, on_sub_account_sold, on_sub_account_sold_paid,
     on_sub_account_created, on_sub_account_created_paid, Created,
     on_re_rent_balances_checked, on_sub_account_re_rented, on_retry_signer_settled,
     on_balances_checked, on_reclaim_finalized, on_claim_refund_settled
<1>5. \A a \in Accounts : mothers'[a] \in {mothers[a], None}
  <2>1. CASE on_reclaim_finalized(c)
    <3>1. UNCHANGED mothers \/ \E u : mothers' = [mothers EXCEPT ![u] = None]
      BY <2>1 DEF on_reclaim_finalized, anchorVars
    <3> QED BY <3>1 DEF TypeInv, AnchorsOK
  <2>2. CASE ~on_reclaim_finalized(c)
    BY <2>2 DEF RunCallback, on_listing_verified, on_offer_verified, on_buy_balances_checked,
       on_buy_paid_balances_checked, on_sub_account_sold, on_sub_account_sold_paid,
       on_sub_account_created, on_sub_account_created_paid, Created,
       on_re_rent_balances_checked, on_sub_account_re_rented, on_retry_signer_settled,
       on_balances_checked, on_claim_refund_settled, anchorVars
  <2> QED BY <2>1, <2>2
<1> QED BY <1>2, <1>3, <1>4, <1>5, LeasesStand

LEMMA ExternalStands ==
    ASSUME TypeInv, NEW c \in Slots, RunExternal(c)
    PROVE  UNCHANGED <<nameVars, saleVars, reclaim_pending, mothers>>
BY DEF RunExternal, RunQuery, RunBalances, RunForceTransfer, RunPayment, ManagerStep,
   create_sub_account, on_key_derived, on_wallet_created, on_signer_settled,
   on_creation_failed, retry_install, on_retry_key_derived, unchangedByOthers,
   unchangedByManager, anchorVars

\* The overrides take locks off and mothers away.
LEMMA OverridesStand ==
    ASSUME TypeInv, AdminOverrides
    PROVE  /\ UNCHANGED <<tlas, funds>>
           /\ \A w \in Wallets : NameStands(w)
           /\ \A a \in Accounts : mothers'[a] \in {mothers[a], None}
<1>1. PICK caller \in Admins :
        \/ \E v \in Wallets : admin_clear_settling(caller, v)
        \/ \E v \in Wallets : admin_clear_reclaim_pending(caller, v)
        \/ \E u \in Users : admin_clear_mother(caller, u)
  BY DEF AdminOverrides
<1>2. CASE \E v \in Wallets : admin_clear_settling(caller, v)
  <2>1. PICK v \in Wallets : admin_clear_settling(caller, v)
    BY <1>2
  <2>2. clear_settling(v) /\ UNCHANGED <<tlas, funds, nameVars, reclaim_pending, mothers>>
    BY <2>1 DEF admin_clear_settling, anchorVars
  <2>3. /\ \A w \in Wallets \ {v} : listings'[w] = listings[w]
                                    /\ accepted_offers'[w] = accepted_offers[w]
        /\ listings'[v] = Unlocked(listings[v])
        /\ accepted_offers'[v] = Unlocked(accepted_offers[v])
    BY <2>2, SaleCleared DEF TypeInv
  <2>4. \A w \in Wallets : NameStands(w)
    BY <2>2, <2>3 DEF NameStands, nameVars
  <2> QED BY <2>2, <2>4, MothersStand
<1>3. CASE \E v \in Wallets : admin_clear_reclaim_pending(caller, v)
  <2>1. UNCHANGED <<tlas, funds, nameVars, saleVars, mothers>>
        /\ reclaim_pending' \subseteq reclaim_pending
    BY <1>3 DEF admin_clear_reclaim_pending, anchorVars
  <2>2. \A w \in Wallets : NameStands(w)
    BY <2>1 DEF NameStands, nameVars, saleVars
  <2> QED BY <2>1, <2>2, MothersStand
<1>4. CASE \E u \in Users : admin_clear_mother(caller, u)
  <2>1. PICK u \in Users : admin_clear_mother(caller, u)
    BY <1>4
  <2>2. \A a \in Accounts : mothers'[a] \in {mothers[a], None}
    BY <2>1 DEF admin_clear_mother, TypeInv, AnchorsOK
  <2>3. UNCHANGED <<tlas, funds, nameVars, saleVars, reclaim_pending>>
    BY <2>1 DEF admin_clear_mother
  <2> QED BY <2>2, <2>3, NamesStand
<1> QED BY <1>1, <1>2, <1>3, <1>4

\* Admins give a lease to an Open TLA only.
LEMMA AdminLeasesStand ==
    ASSUME TypeInv, AdminTlas
    PROVE  /\ UNCHANGED <<nameVars, saleVars, reclaim_pending, mothers, funds>>
           /\ \A t \in Tlas : LeaseStands(t)
<1>1. UNCHANGED <<nameVars, saleVars, reclaim_pending, mothers, funds>>
  BY DEF AdminTlas, register_tla, suspend_tla, unsuspend_tla, activate_open_tla, SetTla,
     anchorVars
<1>2. PICK caller \in Admins, t \in Tlas :
        \/ \E tla_type \in TlaType, premium \in PremiumCategory, licensee \in Users \cup {None} :
              register_tla(caller, t, tla_type, premium, licensee)
        \/ suspend_tla(caller, t) \/ unsuspend_tla(caller, t) \/ activate_open_tla(caller, t)
  BY DEF AdminTlas
<1>3. ASSUME NEW e \in TlaEntry, SetTla(caller, t, e),
             tlas[t] # None => \/ e.expires_at = tlas[t].expires_at
                               \/ tlas[t].status = "Registered" /\ ~IsBusiness(t)
      PROVE  \A u \in Tlas : LeaseStands(u)
  <2>1. tlas'[t] = e /\ \A u \in Tlas \ {t} : tlas'[u] = tlas[u]
    BY <1>3 DEF SetTla, TypeInv, TlasOK
  <2> QED BY <1>3, <2>1 DEF LeaseStands
<1>4. CASE \E tla_type \in TlaType, premium \in PremiumCategory, licensee \in Users \cup {None} :
              register_tla(caller, t, tla_type, premium, licensee)
  <2>1. tlas[t] = None /\ \E e \in TlaEntry : SetTla(caller, t, e)
    BY <1>4, RegisterEntry
  <2> QED BY <1>1, <1>3, <2>1
<1>5. CASE suspend_tla(caller, t) \/ unsuspend_tla(caller, t) \/ activate_open_tla(caller, t)
  <2>1. tlas[t] # None
    BY <1>5 DEF suspend_tla, unsuspend_tla, activate_open_tla
  <2>2. PICK e \in TlaEntry :
             /\ SetTla(caller, t, e)
             /\ \/ e.expires_at = tlas[t].expires_at
                \/ tlas[t].status = "Registered"
    BY <1>5, <2>1, AdminTlaEntry
  <2>3. tlas[t].status = "Registered" => ~IsBusiness(t)
    BY <1>5 DEF suspend_tla, unsuspend_tla, activate_open_tla, IsBusiness
  <2> QED BY <1>1, <1>3, <2>2, <2>3
<1> QED BY <1>2, <1>4, <1>5

\* While the registry is paused, names, leases and mothers stand and nothing
\* is earned, but for what the end of a chain settles.
LEMMA PausedStands ==
    ASSUME TypeInv, [RegistryNext]_registryVars, paused
    PROVE  /\ \A w \in Wallets : SettlesOn(w) \/ NameStands(w)
           /\ \A t \in Tlas : LeaseStands(t)
           /\ \A a \in Accounts : mothers'[a] \in {mothers[a], None}
           /\ funds'.revenue > funds.revenue => \E w \in Wallets : SettlesOn(w)
<1>1. funds.revenue \in Nat
  BY FundsFields DEF TypeInv
<1>2. ASSUME UNCHANGED <<tlas, nameVars, saleVars, reclaim_pending, mothers>>,
             funds'.revenue <= funds.revenue, funds'.revenue \in Nat
      PROVE  /\ \A w \in Wallets : NameStands(w)
             /\ \A t \in Tlas : LeaseStands(t)
             /\ \A a \in Accounts : mothers'[a] \in {mothers[a], None}
             /\ ~(funds'.revenue > funds.revenue)
  BY <1>1, <1>2, NamesStand, MothersStand, LeasesStand
<1>3. funds'.revenue \in Nat
  BY TypeStep, FundsFields DEF TypeInv
<1>4. CASE UNCHANGED registryVars
  BY <1>1, <1>2, <1>4 DEF registryVars, anchorVars
<1>5. CASE Receipts
  <2>1. PICK c \in Slots : RunExternal(c) \/ RunCallback(c)
    BY <1>5 DEF Receipts, RunReceipt
  <2>2. CASE RunExternal(c)
    BY <1>1, <1>2, <2>2, ExternalChain, ExternalStands
  <2>3. CASE RunCallback(c)
    BY <1>1, <1>3, <2>3, CallbackSettles
  <2> QED BY <2>1, <2>2, <2>3
<1>6. CASE Sweeping
  <2>1. PICK s \in Sweeps : RunSweep(s)
    BY <1>6 DEF Sweeping, reclaim_sweep_ft
  <2>2. UNCHANGED <<tlas, nameVars, saleVars, reclaim_pending, mothers>>
    BY <2>1 DEF RunSweep, anchorVars
  <2> QED BY <1>1, <1>2, <2>1, <2>2, RunSweepType
<1>7. CASE Claiming
  <2>1. UNCHANGED <<tlas, nameVars, saleVars, reclaim_pending, mothers>>
    BY <1>7 DEF Claiming, claim_refund, anchorVars
  <2> QED BY <1>1, <1>2, <1>7, <2>1, ClaimType DEF Claiming
<1>8. CASE AdminMoney
  <2>1. UNCHANGED <<tlas, nameVars, saleVars, reclaim_pending, mothers>>
    BY <1>8 DEF AdminMoney, withdraw, anchorVars
  <2> QED BY <1>2, <1>3, <1>8, <2>1, WithdrawType DEF AdminMoney
<1>9. CASE AdminRoles
  <2>1. UNCHANGED <<tlas, nameVars, saleVars, reclaim_pending, mothers, funds>>
    BY <1>9 DEF AdminRoles, pause, unpause, add_admin, remove_admin,
       add_payment_authority, remove_payment_authority, SetRoles, anchorVars
  <2> QED BY <1>1, <1>2, <2>1
<1>10. CASE AdminConfig
  <2>1. UNCHANGED <<tlas, nameVars, saleVars, reclaim_pending, mothers, funds>>
    BY <1>10 DEF AdminConfig, update_fee_config, set_parked_signer_pubkey,
       add_ft_allowlist, remove_ft_allowlist, set_business_sub_cap, Configure, anchorVars
  <2> QED BY <1>1, <1>2, <2>1
<1>11. CASE AdminTlas \/ AdminOverrides
  BY <1>1, <1>11, AdminLeasesStand, OverridesStand, NamesStand, LeasesStand, MothersStand
<1>12. CASE RecoveryStep \/ HaltStep \/ TokenStep \/ Tick
  <2>1. UNCHANGED <<tlas, nameVars, saleVars, reclaim_pending, mothers, funds>>
    BY <1>12 DEF RecoveryStep, HaltStep, unchangedByOthers, TokenStep, TokenArrives,
       TokenLeaves, Tick, anchorVars
  <2> QED BY <1>1, <1>2, <2>1
<1> QED BY <1>4, <1>5, <1>6, <1>7, <1>8, <1>9, <1>10, <1>11, <1>12, NotWhilePaused
        DEF RegistryNext

LEMMA PausedChains ==
    ASSUME TypeInv, [RegistryNext]_registryVars, paused,
           NEW c \in Slots, ~InFlight(c), InFlight(c)'
    PROVE  chains'[c].kind = "claim"
<1>1. ASSUME NEW d \in Slots, Begins(d)
      PROVE  OnlyChain(d) /\ chains'[d].kind = "claim"
  BY <1>1 DEF Begins, Fresh
<1>2. ASSUME NEW d \in Slots, Ends(d) \/ Passes(d) \/ MovesOn(d) \/ RunBalances(d)
      PROVE  FALSE
  <2>1. OnlyChain(d) /\ InFlight(d)
    BY <1>2, BalancesAnswer DEF Ends, Passes, MovesOn, GoesOn
  <2> QED BY <2>1 DEF OnlyChain, InFlight
<1>3. ~(UNCHANGED chains) /\ ~Tick
  BY TickMarks DEF InFlight
<1>4. ASSUME NEW w \in Wallets, NEW token \in Tokens,
             TokenArrives(w, token) \/ TokenLeaves(w, token)
      PROVE  FALSE
  BY <1>3, <1>4, LeavesMarks DEF TokenArrives
<1> QED BY <1>1, <1>2, <1>3, <1>4, ChainStep DEF OnlyChain, InFlight

SweepsOK == sweep_status \in [Sweeps -> {"unused", "out", "returned", "kept"}]

LEMMA OnlySweepsSweep ==
    ASSUME TypeInv, [RegistryNext]_registryVars, ~Sweeping
    PROVE  UNCHANGED sweep_status
<1>1. CASE UNCHANGED registryVars
  BY <1>1 DEF registryVars, worldVars, tokenVars, depositVars
<1>2. CASE Trade
  <2>1. PICK c \in Slots, u \in Users, w \in Wallets, k \in Keys :
             Advertise(c, u, w, k) \/ Purchase(c, u, w, k)
    BY <1>2 DEF Trade
  <2>2. CASE Advertise(c, u, w, k)
    <3>1. ASSUME NEW p \in Prices, list_sub_account(c, u, w, p, k)
          PROVE  UNCHANGED sweep_status
      BY <3>1 DEF list_sub_account, worldVars, tokenVars, depositVars
    <3>2. ASSUME NEW p \in Prices, NEW b \in Users, accept_offer(c, u, w, b, p, k)
          PROVE  UNCHANGED sweep_status
      BY <3>2 DEF accept_offer, worldVars, tokenVars, depositVars
    <3> QED BY <2>2, <3>1, <3>2 DEF Advertise
  <2>3. CASE Purchase(c, u, w, k)
    BY <2>3 DEF Purchase, buy_sub_account, buy_sub_account_paid, worldVars, tokenVars, depositVars
  <2> QED BY <2>1, <2>2, <2>3
<1>3. CASE Withdrawal \/ Retract \/ Anchor
  <2>1. CASE Withdrawal
    BY <2>1 DEF Withdrawal, unlist_sub_account, revoke_offer, worldVars, tokenVars, depositVars
  <2>2. CASE Retract
    BY <2>2 DEF Retract, schedule_retraction, cancel_retraction, SetRetraction, worldVars,
       tokenVars, depositVars
  <2>3. CASE Anchor
    BY <2>3 DEF Anchor, set_mother, worldVars, tokenVars, depositVars
  <2> QED BY <1>3, <2>1, <2>2, <2>3
<1>4. CASE RentName
  BY <1>4 DEF RentName, rent_sub_account, rent_sub_account_paid, worldVars, tokenVars, depositVars
<1>5. CASE KeepName
  BY <1>5 DEF KeepName, renew_sub_account, set_main_wallet, retry_signer_install, worldVars,
     tokenVars, depositVars
<1>6. CASE RunTla
  <2>1. PICK u \in Users, t \in Tlas, paid \in Payments :
             activate_tla(u, t, paid) \/ renew_tla(u, t, paid)
    BY <1>6 DEF RunTla
  <2>2. CASE activate_tla(u, t, paid)
    BY <2>2 DEF activate_tla, worldVars, tokenVars, depositVars
  <2>3. CASE renew_tla(u, t, paid)
    BY <2>3 DEF renew_tla, worldVars, tokenVars, depositVars
  <2> QED BY <2>1, <2>2, <2>3
<1>7. CASE Reclaiming \/ Claiming \/ AdminMoney
  <2>1. CASE Reclaiming
    BY <2>1 DEF Reclaiming, reclaim_finalize, worldVars, tokenVars, depositVars
  <2>2. CASE Claiming
    BY <2>2 DEF Claiming, claim_refund, worldVars, tokenVars, depositVars
  <2>3. CASE AdminMoney
    BY <2>3 DEF AdminMoney, withdraw, worldVars, tokenVars, depositVars
  <2> QED BY <1>7, <2>1, <2>2, <2>3
<1>8. CASE AdminRoles
  BY <1>8 DEF AdminRoles, pause, unpause, add_admin, remove_admin, add_payment_authority,
     remove_payment_authority, SetRoles, worldVars, tokenVars, depositVars
<1>9. CASE AdminConfig
  BY <1>9 DEF AdminConfig, update_fee_config, set_parked_signer_pubkey, add_ft_allowlist,
     remove_ft_allowlist, set_business_sub_cap, Configure, worldVars, tokenVars, depositVars
<1>10. CASE AdminTlas
  BY <1>10 DEF AdminTlas, register_tla, suspend_tla, unsuspend_tla, activate_open_tla, SetTla,
     worldVars, tokenVars, depositVars
<1>11. CASE AdminOverrides
  BY <1>11 DEF AdminOverrides, admin_clear_settling, admin_clear_reclaim_pending,
     admin_clear_mother, worldVars, tokenVars, depositVars
<1>12. CASE Receipts
  <2>1. PICK c \in Slots : RunExternal(c) \/ RunCallback(c)
    BY <1>12 DEF Receipts, RunReceipt
  <2>2. CASE RunExternal(c)
    BY <2>2 DEF RunExternal, RunQuery, RunBalances, RunForceTransfer, RunPayment, ManagerStep,
       create_sub_account, on_key_derived, on_wallet_created, on_signer_settled,
       on_creation_failed, retry_install, on_retry_key_derived, unchangedByOthers,
       unchangedByManager, tokenVars, depositVars
  <2>3. CASE RunCallback(c)
    BY <2>3 DEF RunCallback, on_listing_verified, on_offer_verified, on_buy_balances_checked,
       on_buy_paid_balances_checked, on_sub_account_sold, on_sub_account_sold_paid,
       on_sub_account_created, on_sub_account_created_paid, Created,
       on_re_rent_balances_checked, on_sub_account_re_rented, on_retry_signer_settled,
       on_balances_checked, on_reclaim_finalized, on_claim_refund_settled, worldVars,
       tokenVars, depositVars
  <2> QED BY <2>1, <2>2, <2>3
<1>13. CASE RecoveryStep \/ HaltStep \/ TokenStep \/ Tick
  BY <1>13 DEF RecoveryStep, HaltStep, unchangedByOthers, TokenStep, TokenArrives, TokenLeaves,
     Tick, tokenVars, depositVars
<1> QED BY <1>1, <1>2, <1>3, <1>4, <1>5, <1>6, <1>7, <1>8, <1>9, <1>10, <1>11, <1>12, <1>13
        DEF RegistryNext

\* A sweep that was not sent is sent by reclaim_sweep_ft alone.
LEMMA SweepStep ==
    ASSUME TypeInv, SweepsOK, [RegistryNext]_registryVars
    PROVE  /\ SweepsOK'
           /\ paused => \A s \in Sweeps : sweep_status[s] = "unused" => sweep_status'[s] = "unused"
<1>1. CASE ~Sweeping
  BY <1>1, OnlySweepsSweep DEF SweepsOK
<1>2. CASE \E s \in Sweeps : RunSweep(s)
  BY <1>2 DEF RunSweep, Return, Keep, SweepsOK
<1>3. CASE Sweeping /\ ~\E s \in Sweeps : RunSweep(s)
  <2>1. ~paused /\ \E s \in Sweeps : Open(s)
    BY <1>3 DEF Sweeping, reclaim_sweep_ft
  <2> QED BY <2>1 DEF Open, SweepsOK
<1> QED BY <1>1, <1>2, <1>3

\* While the registry is paused no chain starts but claims of refunds and no
\* sweep is sent, names, leases and mothers stay as they are and nothing is
\* earned, but for what the end of a chain about a name settles, whatever is
\* in flight and whichever methods admins call (assert_not_paused).
THEOREM PauseHolds == RegistrySpec => PauseStopsNewWork
<1>1. RegistryInit => SweepsOK
  BY DEF RegistryInit, EmptyBooks, DepositsInit, SweepsOK
<1>2. TypeInv /\ SweepsOK /\ [RegistryNext]_registryVars
        => [PauseStep]_registryVars /\ SweepsOK'
  <2> SUFFICES ASSUME TypeInv, SweepsOK, [RegistryNext]_registryVars
               PROVE  PauseStep /\ SweepsOK'
    OBVIOUS
  <2>1. paused => \A c \in Slots :
                     ~InFlight(c) /\ chains'[c] # None => chains'[c].kind = "claim"
    BY PausedChains DEF InFlight
  <2> QED BY <2>1, PausedStands, SweepStep DEF PauseStep
<1> QED BY <1>1, <1>2, TypesHold, PTL DEF RegistrySpec, PauseStopsNewWork

=============================================================================
