--------------------------- MODULE TenancyProofs ----------------------------
(***************************************************************************)
(* Proofs about the life of a name in the registry: what chains of         *)
(* receipts may be in flight on it together, which locks they hold, and    *)
(* that the registry and the active signer agree about its key.  Names are *)
(* independent of each other, so the invariant is stated name by name      *)
(* (WalletInv) and a step is examined for the one name it is about.  The   *)
(* counters and the mothers follow.                                        *)
(***************************************************************************)
EXTENDS RegistryProofs

-----------------------------------------------------------------------------
(* The invariant.                                                          *)

SaleKinds   == {"buy", "buy_paid"}
RentalKinds == {"mint", "mint_paid", "rerent"}
QueryKinds  == {"list", "offer"}
SignerKinds == {"mint", "mint_paid", "retry", "reclaim"}

\* A chain of one of these kinds is in flight on the name.
On(c, w, kinds) == InFlight(c) /\ chains[c].wallet = w /\ chains[c].kind \in kinds

\* The notice of a retraction is longer than a chain of receipts takes.
NoticeOutlastsChains == \A config \in FeeConfigs : config.retraction_notice_ns >= 2

OfBusiness(w) == Tla(w) # None /\ IsBusiness(TlaOf[w])

\* No admin has lifted a lock of the name under a chain, and its reclaim
\* cannot overtake its mint.
Covered(w) == w \notin overridden /\ (NoticeOutlastsChains \/ ~OfBusiness(w))

\* What is only reached with a signer installed: once there is one, there
\* always is.
SignerKnown(w) ==
    /\ listings[w] # None \/ accepted_offers[w] # None => owner[w] # None
    /\ \A c \in Slots :
         /\ On(c, w, SaleKinds) => owner[w] # None
         /\ On(c, w, QueryKinds) /\ chains[c].result \in Keys /\ chains[c].result # "pending"
              => owner[w] # None
         /\ On(c, w, SignerKinds) /\ chains[c].result \in {"Active", "ok"}
              => owner[w] # None

\* Names of a Business TLA are retracted and not sold, the others sold and
\* not retracted.
SoldOrRetracted(w) ==
    /\ Rented(w) /\ sub_accounts[w].retraction_at # None => OfBusiness(w)
    /\ \A c \in Slots : On(c, w, SaleKinds) => Tla(w) # None /\ ~OfBusiness(w)

\* The lock of a sale.
SaleLock(w) ==
    /\ ~SaleIdle(w) => \E c \in Slots : On(c, w, SaleKinds)
    /\ \A c \in Slots : On(c, w, SaleKinds) =>
         /\ ~SaleIdle(w)
         /\ w \notin parked_names => Rented(w)
         /\ \A d \in Slots : On(d, w, SaleKinds) => c = d

\* The lock of a reclaim.
ReclaimLock(w) ==
    /\ w \in reclaim_pending => \E c \in Slots : On(c, w, {"reclaim"})
    /\ \A c \in Slots : On(c, w, {"reclaim"}) =>
         /\ w \in reclaim_pending
         /\ \A d \in Slots : On(d, w, {"reclaim"}) => c = d

\* The lease of the name, or of its TLA, is over for good.
Expired(w) ==
    \/ Tla(w) # None /\ Tla(w).status # "Registered" /\ now >= Tla(w).expires_at + Grace
    \/ Rented(w) /\ now >= sub_accounts[w].expires_at + Grace

\* Past the asset gate, a reclaim is of a name that can no longer be sold.
TooLateToSell(w) ==
    \A c \in Slots : On(c, w, {"reclaim"}) /\ chains[c].method \in Rekeying =>
      /\ OfBusiness(w) \/ Expired(w)
      /\ \A d \in Slots : ~On(d, w, SaleKinds)

\* The time a chain in flight may still see pass.
Slack(c) == IF chains[c].aged THEN 0 ELSE 1

\* While a name is minted or re-rented its entry is there and cannot expire.
RentalRuns(w) ==
    \A c \in Slots : On(c, w, RentalKinds) =>
      /\ Rented(w)
      /\ now + Slack(c) < sub_accounts[w].expires_at + Grace
      /\ Tla(w).status # "Registered"
      /\ now + Slack(c) < Tla(w).expires_at + Grace
      /\ sub_accounts[w].retraction_at # None =>
           now + Slack(c) < sub_accounts[w].retraction_at + 2
      /\ chains[c].kind = "rerent" <=> w \in parked_names

\* It is minted or re-rented once, and not reclaimed meanwhile.
RentalAlone(w) ==
    \A c \in Slots :
      /\ On(c, w, RentalKinds) => \A d \in Slots : /\ On(d, w, RentalKinds) => c = d
                                                   /\ ~On(d, w, {"reclaim"})
      /\ On(c, w, {"reclaim"}) => Rented(w)

\* Where a signer may be: in a wallet whose name is rented or parked.
SignerPlace(w) ==
    /\ owner[w] # None => Rented(w) \/ w \in parked_names
    /\ w \in parked_names => owner[w] # None
    /\ signer_pending[w] # None => Rented(w) /\ w \notin parked_names
    /\ \A c \in Slots :
         /\ On(c, w, {"retry"}) => Rented(w) \/ w \in parked_names
         /\ On(c, w, {"reclaim"}) /\ chains[c].method = "transfer" => owner[w] # None

\* A mint is the first to install a signer.
MintFirst(w) ==
    \A c \in Slots : On(c, w, MintKinds) =>
      /\ signer_pending[w] = None
      /\ \A d \in Slots : ~On(d, w, {"retry"})
      /\ owner[w] # None => chains[c].result = "Active"

\* A signer is missing where the registry waits for one or mints, and is
\* there while it still waits only until the news have arrived.
SignerAwaited(w) ==
    /\ Rented(w) /\ signer_pending[w] = None /\ owner[w] = None =>
         \E c \in Slots : On(c, w, MintKinds)
    /\ signer_pending[w] # None /\ owner[w] # None =>
         \E c \in Slots : On(c, w, {"retry", "reclaim"}) /\ chains[c].result = "ok"

WalletInv(w) ==
    /\ SignerKnown(w) /\ SoldOrRetracted(w)
    /\ w \notin overridden => SaleLock(w) /\ ReclaimLock(w) /\ TooLateToSell(w)
    /\ Covered(w) => /\ RentalRuns(w) /\ RentalAlone(w)
                     /\ SignerPlace(w) /\ MintFirst(w) /\ SignerAwaited(w)

TenancyInv == \A w \in Wallets : WalletInv(w)

-----------------------------------------------------------------------------
(* A step is about one name; the others are left alone.                    *)

SameName(w) ==
    /\ sub_accounts'[w] = sub_accounts[w]
    /\ w \in parked_names' <=> w \in parked_names
    /\ signer_pending'[w] = signer_pending[w]

SameSale(w) == listings'[w] = listings[w] /\ accepted_offers'[w] = accepted_offers[w]

SameLock(w) == w \in reclaim_pending' <=> w \in reclaim_pending

SameOwner(w) == owner'[w] = None <=> owner[w] = None

\* Chains elsewhere come and go; those on the name stay as they are.
SameChain(c) ==
    /\ chains'[c].kind = chains[c].kind /\ chains'[c].wallet = chains[c].wallet
    /\ chains'[c].method = chains[c].method /\ chains'[c].result = chains[c].result
    /\ chains'[c].aged <=> chains[c].aged

SameChains(w) ==
    \A c \in Slots :
      /\ (InFlight(c) /\ chains[c].wallet = w /\ chains[c].kind # "claim")'
           <=> InFlight(c) /\ chains[c].wallet = w /\ chains[c].kind # "claim"
      /\ InFlight(c) /\ chains[c].wallet = w /\ chains[c].kind # "claim" => SameChain(c)

Quiet(w) == SameName(w) /\ SameSale(w) /\ SameLock(w) /\ SameOwner(w) /\ SameChains(w)

\* Neither time nor TLAs nor overrides are touched.
Calm == UNCHANGED <<tlas, now, overridden>>

LEMMA QuietKeeps ==
    ASSUME NEW w \in Wallets, Quiet(w), UNCHANGED <<tlas, now>>,
           w \in overridden' <=> w \in overridden, WalletInv(w)
    PROVE  WalletInv(w)'
<1>1. /\ Rented(w)' <=> Rented(w)
      /\ Tla(w)' = Tla(w)
      /\ OfBusiness(w)' <=> OfBusiness(w)
      /\ SaleIdle(w)' <=> SaleIdle(w)
      /\ Covered(w)' <=> Covered(w)
  BY DEF Quiet, SameName, SameSale, Rented, Tla, OfBusiness, IsBusiness, SaleIdle, Covered,
     NoticeOutlastsChains
<1>2. Expired(w)' <=> Expired(w)
  BY <1>1 DEF Expired, Quiet, SameName
<1>3. \A c \in Slots :
        /\ chains'[c] # None /\ chains'[c].wallet = w /\ chains'[c].kind # "claim"
             <=> chains[c] # None /\ chains[c].wallet = w /\ chains[c].kind # "claim"
        /\ chains[c] # None /\ chains[c].wallet = w /\ chains[c].kind # "claim" =>
             /\ chains'[c].kind = chains[c].kind
             /\ chains'[c].method = chains[c].method /\ chains'[c].result = chains[c].result
             /\ Slack(c)' = Slack(c)
  BY DEF Quiet, SameChains, SameChain, InFlight, Slack
<1>a. "claim" \notin SaleKinds /\ "claim" \notin RentalKinds /\ "claim" \notin MintKinds
      /\ "claim" \notin QueryKinds /\ "claim" \notin SignerKinds
  BY DEF SaleKinds, RentalKinds, MintKinds, QueryKinds, SignerKinds
<1>4. SignerKnown(w) => SignerKnown(w)'
  BY <1>1, <1>3, <1>a DEF SignerKnown, Quiet, SameSale, SameOwner, On, InFlight
<1>5. SoldOrRetracted(w) => SoldOrRetracted(w)'
  BY <1>1, <1>3, <1>a DEF SoldOrRetracted, Quiet, SameName, On, InFlight
<1>6. SaleLock(w) => SaleLock(w)'
  BY <1>1, <1>3, <1>a DEF SaleLock, Quiet, SameName, On, InFlight
<1>7. ReclaimLock(w) => ReclaimLock(w)'
  BY <1>1, <1>3, <1>a DEF ReclaimLock, Quiet, SameLock, On, InFlight
<1>8. TooLateToSell(w) => TooLateToSell(w)'
  BY <1>1, <1>2, <1>3, <1>a DEF TooLateToSell, On, InFlight
<1>9. RentalRuns(w) => RentalRuns(w)'
  BY <1>1, <1>3, <1>a DEF RentalRuns, Quiet, SameName, On, InFlight
<1>10. RentalAlone(w) => RentalAlone(w)'
  BY <1>1, <1>3, <1>a DEF RentalAlone, On, InFlight
<1>11. SignerPlace(w) => SignerPlace(w)'
  BY <1>1, <1>3, <1>a DEF SignerPlace, Quiet, SameName, SameOwner, On, InFlight
<1>12. MintFirst(w) => MintFirst(w)'
  BY <1>1, <1>3, <1>a DEF MintFirst, Quiet, SameName, SameOwner, On, InFlight
<1>13. SignerAwaited(w) => SignerAwaited(w)'
  BY <1>1, <1>3, <1>a DEF SignerAwaited, Quiet, SameName, SameOwner, On, InFlight
<1> QED BY <1>1, <1>4, <1>5, <1>6, <1>7, <1>8, <1>9, <1>10, <1>11, <1>12, <1>13
        DEF WalletInv

\* The chains in flight on other names are left alone.
Alone(c, w) ==
    /\ OnlyChain(c)
    /\ InFlight(c) => chains[c].wallet = w
    /\ chains'[c] # None => chains'[c].wallet = w

Elsewhere(w) ==
    \A v \in Wallets \ {w} : SameName(v) /\ SameSale(v) /\ SameLock(v) /\ SameOwner(v)

\* What SellerStep says of one name.
SellerKept(w) ==
    w \notin overridden /\ w \notin parked_names =>
        \A c \in Slots : On(c, w, SaleKinds) /\ chains'[c] # None =>
            /\ sub_accounts'[w] # None
            /\ sub_accounts'[w].owner = sub_accounts[w].owner
            /\ sub_accounts'[w].main_wallet = sub_accounts[w].main_wallet

Kept(w) == WalletInv(w)' /\ SellerKept(w)

LEMMA SellerQuiet ==
    ASSUME NEW w \in Wallets, SameName(w), WalletInv(w)
    PROVE  SellerKept(w)
BY DEF SellerKept, SameName, WalletInv, SaleLock, Rented

LEMMA OthersKeep ==
    ASSUME NEW w \in Wallets, Calm, Elsewhere(w), TenancyInv, Kept(w),
           UNCHANGED chains \/ \E c \in Slots : Alone(c, w)
    PROVE  \A v \in Wallets : Kept(v)
<1>1. SUFFICES ASSUME NEW v \in Wallets \ {w} PROVE Kept(v)
  OBVIOUS
<1>2. SameChains(v)
  <2>1. CASE UNCHANGED chains
    BY <2>1 DEF SameChains, SameChain, InFlight
  <2>2. ASSUME NEW c \in Slots, Alone(c, w) PROVE SameChains(v)
    BY <2>2 DEF Alone, OnlyChain, SameChains, SameChain, InFlight
  <2> QED BY <2>1, <2>2
<1>3. Quiet(v) /\ WalletInv(v) /\ SameName(v)
  BY <1>2 DEF Elsewhere, Quiet, TenancyInv
<1> QED BY <1>3, QuietKeeps, SellerQuiet DEF Kept, Calm

LEMMA AllQuiet ==
    ASSUME TenancyInv, Calm, \A w \in Wallets : Quiet(w)
    PROVE  \A w \in Wallets : Kept(w)
BY QuietKeeps, SellerQuiet DEF Kept, TenancyInv, Quiet, Calm

-----------------------------------------------------------------------------
(* What can happen to a name.                                              *)

\* A listing or an offer is being verified, comes in or is taken back.
Advertising(c, w) ==
    /\ OnlyChain(c)
    /\ InFlight(c) => On(c, w, QueryKinds)
    /\ chains'[c] # None =>
         /\ chains'[c].wallet = w /\ chains'[c].kind \in QueryKinds
         /\ chains'[c].result \in Keys /\ chains'[c].result # "pending" => owner[w] # None
    /\ SameName(w) /\ SameLock(w) /\ SameOwner(w)
    /\ SaleIdle(w)' <=> SaleIdle(w)
    /\ (listings'[w] # None \/ accepted_offers'[w] # None) =>
         listings[w] # None \/ accepted_offers[w] # None \/ owner[w] # None

LEMMA AdvertisingKeeps ==
    ASSUME NEW w \in Wallets, NEW c \in Slots, Advertising(c, w), Calm, WalletInv(w)
    PROVE  Kept(w)
<1>1. /\ Rented(w)' <=> Rented(w)
      /\ Tla(w)' = Tla(w)
      /\ OfBusiness(w)' <=> OfBusiness(w)
      /\ Covered(w)' <=> Covered(w)
      /\ SaleIdle(w)' <=> SaleIdle(w)
      /\ SameName(w) /\ SameLock(w) /\ SameOwner(w)
  BY DEF Advertising, Calm, SameName, Rented, Tla, OfBusiness, IsBusiness, Covered,
     NoticeOutlastsChains
<1>2. Expired(w)' <=> Expired(w)
  BY <1>1 DEF Expired, SameName, Calm
<1>3. /\ \A d \in Slots \ {c} : chains'[d] = chains[d]
      /\ chains[c] # None => chains[c].kind \in QueryKinds
      /\ chains'[c] # None => chains'[c].kind \in QueryKinds
      /\ QueryKinds \cap (SaleKinds \cup RentalKinds \cup MintKinds \cup SignerKinds) = {}
      /\ "reclaim" \notin QueryKinds /\ "retry" \notin QueryKinds
      /\ \A d \in Slots : d # c => Slack(d)' = Slack(d)
  BY DEF Advertising, OnlyChain, On, InFlight, QueryKinds, SaleKinds, RentalKinds, MintKinds, SignerKinds, Slack
<1>4. SignerKnown(w) => SignerKnown(w)'
  BY <1>1, <1>3 DEF SignerKnown, Advertising, SameOwner, On, InFlight
<1>5. SoldOrRetracted(w) => SoldOrRetracted(w)'
  BY <1>1, <1>3 DEF SoldOrRetracted, SameName, On, InFlight
<1>6. SaleLock(w) => SaleLock(w)'
  BY <1>1, <1>3 DEF SaleLock, SameName, On, InFlight
<1>7. ReclaimLock(w) => ReclaimLock(w)'
  BY <1>1, <1>3 DEF ReclaimLock, SameLock, On, InFlight
<1>8. TooLateToSell(w) => TooLateToSell(w)'
  BY <1>1, <1>2, <1>3 DEF TooLateToSell, On, InFlight
<1>9. RentalRuns(w) => RentalRuns(w)'
  BY <1>1, <1>3 DEF RentalRuns, SameName, On, InFlight, Calm
<1>10. RentalAlone(w) => RentalAlone(w)'
  BY <1>1, <1>3 DEF RentalAlone, On, InFlight
<1>11. SignerPlace(w) => SignerPlace(w)'
  BY <1>1, <1>3 DEF SignerPlace, SameName, SameOwner, On, InFlight
<1>12. MintFirst(w) => MintFirst(w)'
  BY <1>1, <1>3 DEF MintFirst, SameName, SameOwner, On, InFlight
<1>13. SignerAwaited(w) => SignerAwaited(w)'
  BY <1>1, <1>3 DEF SignerAwaited, SameName, SameOwner, On, InFlight
<1>14. WalletInv(w)'
  BY <1>1, <1>4, <1>5, <1>6, <1>7, <1>8, <1>9, <1>10, <1>11, <1>12, <1>13 DEF WalletInv, Calm
<1> QED BY <1>1, <1>14, SellerQuiet DEF Kept

LEMMA NameFacts ==
    ASSUME NEW w \in Wallets, SameName(w), Calm
    PROVE  /\ Rented(w)' <=> Rented(w)
           /\ Tla(w)' = Tla(w)
           /\ OfBusiness(w)' <=> OfBusiness(w)
           /\ Covered(w)' <=> Covered(w)
           /\ Expired(w)' <=> Expired(w)
<1>1. /\ Rented(w)' <=> Rented(w)
      /\ Tla(w)' = Tla(w)
      /\ OfBusiness(w)' <=> OfBusiness(w)
      /\ Covered(w)' <=> Covered(w)
  BY DEF Calm, SameName, Rented, Tla, OfBusiness, IsBusiness, Covered, NoticeOutlastsChains
<1> QED BY <1>1 DEF Expired, SameName, Calm

\* A chain comes a step further, and nothing it has reached is news for the
\* name yet.
Moving(c, w) ==
    /\ GoesOn(c) /\ chains[c].wallet = w /\ chains[c].kind \notin QueryKinds
    /\ chains[c].result # "ok" /\ chains'[c].result \notin {"Active", "ok"}
    /\ chains[c].kind \in MintKinds => chains[c].result = "pending"
    /\ chains[c].kind = "reclaim" =>
         /\ chains'[c].method \in Rekeying => chains[c].method \in Rekeying
         /\ chains'[c].method = "transfer" => chains[c].method = "transfer"
    /\ SameName(w) /\ SameSale(w) /\ SameLock(w) /\ SameOwner(w)

LEMMA MovingKeeps ==
    ASSUME NEW w \in Wallets, NEW c \in Slots, Moving(c, w), Calm, WalletInv(w)
    PROVE  Kept(w)
<1>1. /\ Rented(w)' <=> Rented(w)
      /\ Tla(w)' = Tla(w)
      /\ OfBusiness(w)' <=> OfBusiness(w)
      /\ Covered(w)' <=> Covered(w)
      /\ Expired(w)' <=> Expired(w)
      /\ SaleIdle(w)' <=> SaleIdle(w)
      /\ SameName(w) /\ SameLock(w) /\ SameOwner(w) /\ SameSale(w)
  BY NameFacts DEF Moving, SameSale, SaleIdle
<1>2. /\ \A d \in Slots \ {c} : chains'[d] = chains[d]
      /\ chains[c] # None /\ chains'[c] # None /\ chains[c].wallet = w
      /\ chains'[c].kind = chains[c].kind /\ chains'[c].wallet = chains[c].wallet
      /\ \A d \in Slots : Slack(d)' = Slack(d)
      /\ chains[c].kind \notin QueryKinds
      /\ chains'[c].result \notin {"Active", "ok"}
  BY DEF Moving, GoesOn, OnlyChain, InFlight, Slack
<1>3. SignerKnown(w) => SignerKnown(w)'
  BY <1>1, <1>2 DEF SignerKnown, SameSale, SameOwner, On, InFlight
<1>4. SoldOrRetracted(w) => SoldOrRetracted(w)'
  BY <1>1, <1>2 DEF SoldOrRetracted, SameName, On, InFlight
<1>5. SaleLock(w) => SaleLock(w)'
  BY <1>1, <1>2 DEF SaleLock, SameName, On, InFlight
<1>6. ReclaimLock(w) => ReclaimLock(w)'
  BY <1>1, <1>2 DEF ReclaimLock, SameLock, On, InFlight
<1>7. TooLateToSell(w) => TooLateToSell(w)'
  BY <1>1, <1>2 DEF TooLateToSell, On, InFlight, Moving
<1>8. RentalRuns(w) => RentalRuns(w)'
  BY <1>1, <1>2 DEF RentalRuns, SameName, On, InFlight, Calm
<1>9. RentalAlone(w) => RentalAlone(w)'
  BY <1>1, <1>2 DEF RentalAlone, On, InFlight
<1>10. SignerPlace(w) => SignerPlace(w)'
  BY <1>1, <1>2 DEF SignerPlace, SameName, SameOwner, On, InFlight, Moving
<1>11. MintFirst(w) => MintFirst(w)'
  BY <1>1, <1>2 DEF MintFirst, SameName, SameOwner, On, InFlight, Moving
<1>12. SignerAwaited(w) => SignerAwaited(w)'
  BY <1>1, <1>2 DEF SignerAwaited, SameName, SameOwner, On, InFlight, Moving
<1>13. WalletInv(w)'
  BY <1>1, <1>3, <1>4, <1>5, <1>6, <1>7, <1>8, <1>9, <1>10, <1>11, <1>12 DEF WalletInv, Calm
<1> QED BY <1>1, <1>13, SellerQuiet DEF Kept

\* The wallet gets its first signer.
Installing(c, w) ==
    /\ GoesOn(c) /\ chains[c].wallet = w
    /\ chains[c].result = "pending"
    /\ \/ chains[c].kind \in MintKinds /\ chains'[c].result = "Active"
       \/ /\ chains[c].kind \in {"retry", "reclaim"} /\ chains'[c].result = "ok"
          /\ chains[c].method \in Rekeying /\ chains'[c].method # "transfer"
    /\ owner[w] = None /\ owner'[w] # None
    /\ SameName(w) /\ SameSale(w) /\ SameLock(w)

LEMMA InstallingKeeps ==
    ASSUME NEW w \in Wallets, NEW c \in Slots, Installing(c, w), Calm, WalletInv(w)
    PROVE  Kept(w)
<1>1. /\ Rented(w)' <=> Rented(w)
      /\ Tla(w)' = Tla(w)
      /\ OfBusiness(w)' <=> OfBusiness(w)
      /\ Covered(w)' <=> Covered(w)
      /\ Expired(w)' <=> Expired(w)
      /\ SaleIdle(w)' <=> SaleIdle(w)
      /\ SameName(w) /\ SameLock(w) /\ SameSale(w)
  BY NameFacts DEF Installing, SameSale, SaleIdle
<1>2. /\ \A d \in Slots \ {c} : chains'[d] = chains[d]
      /\ chains[c] # None /\ chains'[c] # None /\ chains[c].wallet = w
      /\ chains'[c].kind = chains[c].kind /\ chains'[c].wallet = chains[c].wallet
      /\ \A d \in Slots : Slack(d)' = Slack(d)
      /\ chains[c].kind \notin QueryKinds /\ owner'[w] # None
  BY DEF Installing, GoesOn, OnlyChain, InFlight, Slack, MintKinds, QueryKinds
<1>3. SignerKnown(w) => SignerKnown(w)'
  BY <1>1, <1>2 DEF SignerKnown, SameSale, On, InFlight
<1>4. SoldOrRetracted(w) => SoldOrRetracted(w)'
  BY <1>1, <1>2 DEF SoldOrRetracted, SameName, On, InFlight
<1>5. SaleLock(w) => SaleLock(w)'
  BY <1>1, <1>2 DEF SaleLock, SameName, On, InFlight
<1>6. ReclaimLock(w) => ReclaimLock(w)'
  BY <1>1, <1>2 DEF ReclaimLock, SameLock, On, InFlight
<1>7. TooLateToSell(w) => TooLateToSell(w)'
  BY <1>1, <1>2 DEF TooLateToSell, On, InFlight, Installing, MintKinds
<1>8. RentalRuns(w) => RentalRuns(w)'
  BY <1>1, <1>2 DEF RentalRuns, SameName, On, InFlight, Calm
<1>9. RentalAlone(w) => RentalAlone(w)'
  BY <1>1, <1>2 DEF RentalAlone, On, InFlight
<1>10. ASSUME RentalRuns(w), RentalAlone(w), SignerPlace(w), MintFirst(w), SignerAwaited(w)
       PROVE  SignerPlace(w)' /\ MintFirst(w)' /\ SignerAwaited(w)'
  <2>1. CASE chains[c].kind \in MintKinds /\ chains'[c].result = "Active"
    <3>1. Rented(w) /\ On(c, w, MintKinds) /\ signer_pending[w] = None
      BY <1>2, <1>10, <2>1 DEF RentalRuns, MintFirst, On, InFlight, MintKinds, RentalKinds
    <3>2. SignerPlace(w)'
      BY <1>1, <1>2, <1>10, <3>1 DEF SignerPlace, SameName, On, InFlight
    <3>3. \A d \in Slots : On(d, w, MintKinds) => d = c
      BY <1>10, <3>1 DEF RentalAlone, On, MintKinds, RentalKinds
    <3>4. MintFirst(w)'
      BY <1>1, <1>2, <1>10, <2>1, <3>1, <3>3 DEF MintFirst, SameName, On, InFlight
    <3>5. SignerAwaited(w)'
      BY <1>1, <1>2, <3>1 DEF SignerAwaited, SameName
    <3> QED BY <3>2, <3>4, <3>5
  <2>2. CASE /\ chains[c].kind \in {"retry", "reclaim"} /\ chains'[c].result = "ok"
             /\ chains[c].method \in Rekeying /\ chains'[c].method # "transfer"
    <3>1. Rented(w) \/ w \in parked_names
      BY <1>2, <1>10, <2>2 DEF RentalAlone, SignerPlace, On, InFlight
    <3>2. \A d \in Slots : ~On(d, w, MintKinds)
      BY <1>2, <1>10, <2>2 DEF RentalAlone, MintFirst, On, InFlight, MintKinds, RentalKinds
    <3>3. SignerPlace(w)'
      BY <1>1, <1>2, <1>10, <3>1 DEF SignerPlace, SameName, On, InFlight
    <3>4. MintFirst(w)'
      BY <1>1, <1>2, <3>2 DEF MintFirst, On, InFlight
    <3>5. On(c, w, {"retry", "reclaim"})' /\ (chains[c].result = "ok")'
      BY <1>2, <2>2 DEF On, InFlight
    <3>6. SignerAwaited(w)'
      BY <1>2, <3>5 DEF SignerAwaited
    <3> QED BY <3>3, <3>4, <3>6
  <2> QED BY <2>1, <2>2 DEF Installing
<1>11. WalletInv(w)'
  BY <1>1, <1>3, <1>4, <1>5, <1>6, <1>7, <1>8, <1>9, <1>10 DEF WalletInv, Calm
<1> QED BY <1>1, <1>11, SellerQuiet DEF Kept

\* A listing or an offer goes, with no chain in between.
Unlisting(w) ==
    /\ UNCHANGED chains
    /\ SameName(w) /\ SameLock(w) /\ SameOwner(w)
    /\ SaleIdle(w)' <=> SaleIdle(w)
    /\ (listings'[w] # None \/ accepted_offers'[w] # None) =>
         listings[w] # None \/ accepted_offers[w] # None

LEMMA UnlistingKeeps ==
    ASSUME NEW w \in Wallets, Unlisting(w), Calm, WalletInv(w)
    PROVE  Kept(w)
<1>1. /\ Rented(w)' <=> Rented(w)
      /\ Tla(w)' = Tla(w)
      /\ OfBusiness(w)' <=> OfBusiness(w)
      /\ Covered(w)' <=> Covered(w)
      /\ Expired(w)' <=> Expired(w)
      /\ SaleIdle(w)' <=> SaleIdle(w)
      /\ SameName(w) /\ SameLock(w) /\ SameOwner(w)
  BY NameFacts DEF Unlisting
<1>2. chains' = chains /\ \A c \in Slots : Slack(c)' = Slack(c)
  BY DEF Unlisting, Slack
<1>3. (SignerKnown(w) => SignerKnown(w)') /\ (SoldOrRetracted(w) => SoldOrRetracted(w)')
  BY <1>1, <1>2 DEF SignerKnown, SoldOrRetracted, Unlisting, SameName, SameOwner, On, InFlight
<1>4. (SaleLock(w) => SaleLock(w)') /\ (ReclaimLock(w) => ReclaimLock(w)')
  BY <1>1, <1>2 DEF SaleLock, ReclaimLock, SameName, SameLock, On, InFlight
<1>5. TooLateToSell(w) => TooLateToSell(w)'
  BY <1>1, <1>2 DEF TooLateToSell, On, InFlight
<1>6. (RentalRuns(w) => RentalRuns(w)') /\ (RentalAlone(w) => RentalAlone(w)')
  BY <1>1, <1>2 DEF RentalRuns, RentalAlone, SameName, On, InFlight, Calm
<1>7. (SignerPlace(w) => SignerPlace(w)') /\ (MintFirst(w) => MintFirst(w)')
      /\ (SignerAwaited(w) => SignerAwaited(w)')
  BY <1>1, <1>2 DEF SignerPlace, MintFirst, SignerAwaited, SameName, SameOwner, On, InFlight
<1>8. WalletInv(w)'
  BY <1>1, <1>3, <1>4, <1>5, <1>6, <1>7 DEF WalletInv, Calm
<1> QED BY <1>1, <1>8, SellerQuiet DEF Kept

\* A purchase takes the lock of a name that can be sold.
Buying(c, w) ==
    /\ \E kind \in SaleKinds, method \in Method : Fresh(c, kind, method, w)
    /\ SaleIdle(w) /\ ~SaleIdle(w)'
    /\ Rented(w) /\ Tla(w) # None /\ ~OfBusiness(w) /\ ~Expired(w)
    /\ listings[w] # None \/ accepted_offers[w] # None
    /\ SameName(w) /\ SameLock(w) /\ SameOwner(w)

LEMMA BuyingKeeps ==
    ASSUME NEW w \in Wallets, NEW c \in Slots, Buying(c, w), Calm, WalletInv(w)
    PROVE  Kept(w)
<1>1. /\ Rented(w)' <=> Rented(w)
      /\ Tla(w)' = Tla(w)
      /\ OfBusiness(w)' <=> OfBusiness(w)
      /\ Covered(w)' <=> Covered(w)
      /\ Expired(w)' <=> Expired(w)
      /\ SaleIdle(w) /\ ~SaleIdle(w)'
      /\ Rented(w) /\ Tla(w) # None /\ ~OfBusiness(w) /\ ~Expired(w)
      /\ SameName(w) /\ SameLock(w) /\ SameOwner(w)
  BY NameFacts DEF Buying
<1>2. owner[w] # None
  BY DEF Buying, WalletInv, SignerKnown
<1>3. /\ \A d \in Slots \ {c} : chains'[d] = chains[d] /\ Slack(d)' = Slack(d)
      /\ chains[c] = None /\ chains'[c] # None /\ chains'[c].wallet = w
      /\ chains'[c].kind \in SaleKinds /\ chains'[c].result = "pending"
      /\ SaleKinds \cap (QueryKinds \cup RentalKinds \cup MintKinds \cup {"reclaim", "retry"}) = {}
  BY DEF Buying, Fresh, OnlyChain, InFlight, Slack, SaleKinds, QueryKinds, RentalKinds, MintKinds
<1>4. SignerKnown(w) => SignerKnown(w)'
  BY <1>1, <1>2, <1>3 DEF SignerKnown, SameOwner, On, InFlight
<1>5. SoldOrRetracted(w) => SoldOrRetracted(w)'
  BY <1>1, <1>3 DEF SoldOrRetracted, SameName, On, InFlight
<1>6. SaleLock(w) => SaleLock(w)'
  <2> SUFFICES ASSUME SaleLock(w) PROVE SaleLock(w)'
    OBVIOUS
  <2>1. \A d \in Slots : ~On(d, w, SaleKinds)
    BY <1>1 DEF SaleLock
  <2>2. On(c, w, SaleKinds)'
    BY <1>3 DEF On, InFlight
  <2> QED BY <1>1, <1>3, <2>1, <2>2 DEF SaleLock, On, InFlight
<1>7. ReclaimLock(w) => ReclaimLock(w)'
  BY <1>1, <1>3 DEF ReclaimLock, SameLock, On, InFlight
<1>8. TooLateToSell(w) => TooLateToSell(w)'
  BY <1>1, <1>3 DEF TooLateToSell, On, InFlight
<1>9. (RentalRuns(w) => RentalRuns(w)') /\ (RentalAlone(w) => RentalAlone(w)')
  BY <1>1, <1>3 DEF RentalRuns, RentalAlone, SameName, On, InFlight, Calm
<1>10. (SignerPlace(w) => SignerPlace(w)') /\ (MintFirst(w) => MintFirst(w)')
  BY <1>1, <1>3 DEF SignerPlace, MintFirst, SameName, SameOwner, On, InFlight
<1>11. SignerAwaited(w) => SignerAwaited(w)'
  BY <1>1, <1>3 DEF SignerAwaited, SameName, SameOwner, On, InFlight
<1>12. WalletInv(w)'
  BY <1>1, <1>4, <1>5, <1>6, <1>7, <1>8, <1>9, <1>10, <1>11 DEF WalletInv, Calm
<1> QED BY <1>1, <1>12, SellerQuiet DEF Kept

\* The lease does not change, whoever the tenant is now.
SameLease(w) ==
    /\ Rented(w)' <=> Rented(w)
    /\ Rented(w) => /\ sub_accounts'[w].expires_at = sub_accounts[w].expires_at
                    /\ sub_accounts'[w].retraction_at = sub_accounts[w].retraction_at

\* A sale settles or is called off.
SaleOver(c, w) ==
    /\ Ends(c) /\ On(c, w, SaleKinds)
    /\ SaleIdle(w)'
    /\ (listings'[w] # None \/ accepted_offers'[w] # None) =>
         listings[w] # None \/ accepted_offers[w] # None
    /\ SameLease(w) /\ SameLock(w) /\ SameOwner(w)
    /\ w \in parked_names' <=> w \in parked_names
    /\ signer_pending'[w] = signer_pending[w]

LEMMA LeaseFacts ==
    ASSUME NEW w \in Wallets, SameLease(w), Calm
    PROVE  /\ Rented(w)' <=> Rented(w)
           /\ Tla(w)' = Tla(w)
           /\ OfBusiness(w)' <=> OfBusiness(w)
           /\ Covered(w)' <=> Covered(w)
           /\ Expired(w)' <=> Expired(w)
<1>1. /\ Rented(w)' <=> Rented(w)
      /\ Tla(w)' = Tla(w)
      /\ OfBusiness(w)' <=> OfBusiness(w)
      /\ Covered(w)' <=> Covered(w)
  BY DEF Calm, SameLease, Tla, OfBusiness, IsBusiness, Covered, NoticeOutlastsChains
<1> QED BY <1>1 DEF Expired, SameLease, Calm

LEMMA SaleOverKeeps ==
    ASSUME NEW w \in Wallets, NEW c \in Slots, SaleOver(c, w), Calm, WalletInv(w)
    PROVE  Kept(w)
<1>1. /\ Rented(w)' <=> Rented(w)
      /\ Tla(w)' = Tla(w)
      /\ OfBusiness(w)' <=> OfBusiness(w)
      /\ Covered(w)' <=> Covered(w)
      /\ Expired(w)' <=> Expired(w)
      /\ SaleIdle(w)' /\ SameLock(w) /\ SameOwner(w)
      /\ w \in parked_names' <=> w \in parked_names
      /\ signer_pending'[w] = signer_pending[w]
  BY LeaseFacts DEF SaleOver
<1>2. /\ \A d \in Slots \ {c} : chains'[d] = chains[d] /\ Slack(d)' = Slack(d)
      /\ chains[c] # None /\ chains'[c] = None /\ On(c, w, SaleKinds)
      /\ chains[c].kind \in SaleKinds
      /\ SaleKinds \cap (QueryKinds \cup RentalKinds \cup MintKinds \cup {"reclaim", "retry"}) = {}
  BY DEF SaleOver, Ends, OnlyChain, InFlight, On, Slack, SaleKinds, QueryKinds, RentalKinds,
     MintKinds
<1>3. SignerKnown(w) => SignerKnown(w)'
  BY <1>1, <1>2 DEF SignerKnown, SaleOver, SameOwner, On, InFlight
<1>4. SoldOrRetracted(w) => SoldOrRetracted(w)'
  BY <1>1, <1>2 DEF SoldOrRetracted, SaleOver, SameLease, On, InFlight
<1>5. SaleLock(w) => SaleLock(w)'
  BY <1>1, <1>2 DEF SaleLock, On, InFlight
<1>6. ReclaimLock(w) => ReclaimLock(w)'
  BY <1>1, <1>2 DEF ReclaimLock, SameLock, On, InFlight
<1>7. TooLateToSell(w) => TooLateToSell(w)'
  BY <1>1, <1>2 DEF TooLateToSell, On, InFlight
<1>8. RentalRuns(w) => RentalRuns(w)'
  BY <1>1, <1>2 DEF RentalRuns, SaleOver, SameLease, On, InFlight, Calm
<1>9. RentalAlone(w) => RentalAlone(w)'
  BY <1>1, <1>2 DEF RentalAlone, On, InFlight
<1>10. (SignerPlace(w) => SignerPlace(w)') /\ (MintFirst(w) => MintFirst(w)')
  BY <1>1, <1>2 DEF SignerPlace, MintFirst, SameOwner, On, InFlight
<1>11. SignerAwaited(w) => SignerAwaited(w)'
  BY <1>1, <1>2 DEF SignerAwaited, SameOwner, On, InFlight
<1>12. WalletInv(w)'
  BY <1>1, <1>3, <1>4, <1>5, <1>6, <1>7, <1>8, <1>9, <1>10, <1>11 DEF WalletInv, Calm
<1>13. SellerKept(w)
  BY <1>2 DEF SellerKept, WalletInv, SaleLock
<1> QED BY <1>12, <1>13 DEF Kept

\* A free name is entered, and minted or, if it is parked, re-keyed.
Renting(c, w) ==
    /\ \E kind \in RentalKinds, method \in Method :
         Fresh(c, kind, method, w) /\ (kind = "rerent" <=> w \in parked_names)
    /\ ~Rented(w) /\ Rented(w)'
    /\ Tla(w) # None /\ Tla(w).status = "Active" /\ now < Tla(w).expires_at
    /\ sub_accounts'[w].expires_at = now + Year /\ sub_accounts'[w].retraction_at = None
    /\ w \in parked_names' <=> w \in parked_names
    /\ signer_pending'[w] = signer_pending[w]
    /\ SameSale(w) /\ SameLock(w) /\ SameOwner(w)

LEMMA RentingKeeps ==
    ASSUME TypeInv, NEW w \in Wallets, NEW c \in Slots, Renting(c, w), Calm, WalletInv(w)
    PROVE  Kept(w)
<1>1. /\ Tla(w)' = Tla(w)
      /\ OfBusiness(w)' <=> OfBusiness(w)
      /\ Covered(w)' <=> Covered(w)
      /\ SaleIdle(w)' <=> SaleIdle(w)
      /\ ~Rented(w) /\ Rented(w)'
      /\ w \in parked_names' <=> w \in parked_names
      /\ signer_pending'[w] = signer_pending[w]
      /\ SameSale(w) /\ SameLock(w) /\ SameOwner(w)
      /\ now' = now
      /\ sub_accounts'[w].expires_at = now + Year /\ sub_accounts'[w].retraction_at = None
  BY DEF Renting, Calm, SameSale, Tla, OfBusiness, IsBusiness, Covered, NoticeOutlastsChains,
     SaleIdle
<1>2. /\ \A d \in Slots \ {c} : chains'[d] = chains[d] /\ Slack(d)' = Slack(d)
      /\ chains[c] = None /\ chains'[c] # None /\ chains'[c].wallet = w
      /\ chains'[c].kind \in RentalKinds /\ chains'[c].result = "pending" /\ ~chains'[c].aged
      /\ chains'[c].kind = "rerent" <=> w \in parked_names
      /\ Slack(c)' = 1
  BY DEF Renting, Fresh, OnlyChain, InFlight, Slack
<1>3. /\ \A kind \in RentalKinds : kind \notin SaleKinds /\ kind \notin QueryKinds
                                   /\ kind \notin {"reclaim", "retry"}
      /\ \A kind \in RentalKinds : kind \in MintKinds <=> kind # "rerent"
      /\ MintKinds \subseteq RentalKinds
  BY DEF RentalKinds, SaleKinds, QueryKinds, MintKinds
<1>4. SignerKnown(w) => SignerKnown(w)'
  BY <1>1, <1>2, <1>3 DEF SignerKnown, SameSale, SameOwner, On, InFlight
<1>5. SoldOrRetracted(w) => SoldOrRetracted(w)'
  BY <1>1, <1>2, <1>3 DEF SoldOrRetracted, On, InFlight
<1>6. SaleLock(w) => SaleLock(w)'
  BY <1>1, <1>2, <1>3 DEF SaleLock, On, InFlight
<1>7. ReclaimLock(w) => ReclaimLock(w)'
  BY <1>1, <1>2, <1>3 DEF ReclaimLock, SameLock, On, InFlight
<1>8. ASSUME TooLateToSell(w), Covered(w) => RentalAlone(w), w \notin overridden
      PROVE  TooLateToSell(w)'
  <2>1. \A d \in Slots : On(d, w, {"reclaim"}) => OfBusiness(w)
    BY <1>1, <1>8 DEF Covered, RentalAlone
  <2> QED BY <1>1, <1>2, <1>3, <1>8, <2>1 DEF TooLateToSell, On, InFlight
<1>9. ASSUME RentalRuns(w), RentalAlone(w), SignerPlace(w), MintFirst(w), SignerAwaited(w)
      PROVE  /\ RentalRuns(w)' /\ RentalAlone(w)'
             /\ SignerPlace(w)' /\ MintFirst(w)' /\ SignerAwaited(w)'
  <2>1. \A d \in Slots : ~On(d, w, RentalKinds) /\ ~On(d, w, {"reclaim"})
    BY <1>1, <1>9 DEF RentalRuns, RentalAlone
  <2>2. \A d \in Slots \ {c} : ~On(d, w, RentalKinds)' /\ ~On(d, w, {"reclaim"})'
    BY <1>2, <2>1 DEF On, InFlight
  <2>3. RentalRuns(w)'
    <3>1. /\ now \in Nat /\ Year \in Nat \ {0} /\ Grace \in Nat \ {0}
          /\ Tla(w).expires_at \in Nat /\ Tla(w).status # "Registered"
          /\ now < Tla(w).expires_at
      BY TlaFields, RegistryConstants DEF TypeInv, WorldOK, Renting, Tla
    <3>2. \A d \in Slots : On(d, w, RentalKinds)' => d = c
      BY <2>2
    <3> QED BY <1>1, <1>2, <3>1, <3>2 DEF RentalRuns
  <2>4. RentalAlone(w)'
    BY <1>1, <1>2, <1>3, <2>2 DEF RentalAlone, On, InFlight
  <2>5. SignerPlace(w)'
    BY <1>1, <1>2, <1>3, <1>9, <2>1 DEF SignerPlace, SameOwner, On, InFlight
  <2>6. MintFirst(w)'
    <3>1. \A d \in Slots : On(d, w, MintKinds)' => d = c /\ w \notin parked_names
      BY <1>2, <1>3, <2>2 DEF On, InFlight
    <3>2. w \notin parked_names => /\ owner[w] = None /\ signer_pending[w] = None
                                   /\ \A d \in Slots : ~On(d, w, {"retry"})
      BY <1>1, <1>9 DEF SignerPlace
    <3> QED BY <1>1, <1>2, <1>3, <3>1, <3>2 DEF MintFirst, SameOwner, On, InFlight
  <2>7. SignerAwaited(w)'
    <3>1. signer_pending[w] = None /\ (owner[w] = None => w \notin parked_names)
      BY <1>1, <1>9 DEF SignerPlace
    <3>2. w \notin parked_names => On(c, w, MintKinds)'
      BY <1>2, <1>3 DEF On, InFlight
    <3> QED BY <1>1, <3>1, <3>2 DEF SignerAwaited, SameOwner
  <2> QED BY <2>3, <2>4, <2>5, <2>6, <2>7
<1>10. WalletInv(w)'
  BY <1>1, <1>4, <1>5, <1>6, <1>7, <1>8, <1>9 DEF WalletInv, Calm
<1>11. SellerKept(w)
  BY <1>1 DEF SellerKept, WalletInv, SaleLock
<1> QED BY <1>10, <1>11 DEF Kept

\* The name is minted, with its signer or without, or re-keyed.
Settling(c, w) ==
    /\ Ends(c) /\ On(c, w, RentalKinds)
    /\ chains[c].result \in Replies(chains[c].method) /\ chains[c].method \in MethodsOf(chains[c].kind)
    /\ sub_accounts'[w] = sub_accounts[w]
    /\ w \in parked_names' <=> w \in parked_names /\ chains[c].kind # "rerent"
    /\ chains[c].kind # "rerent" => chains[c].result \in {"Active", "SignerPending"}
    /\ signer_pending'[w] # None =>
         \/ signer_pending'[w] = signer_pending[w]
         \/ chains[c].kind # "rerent" /\ chains[c].result = "SignerPending" /\ Rented(w)
    /\ chains[c].kind # "rerent" /\ chains[c].result = "SignerPending" /\ Rented(w) =>
         signer_pending'[w] # None
    /\ signer_pending[w] # None => signer_pending'[w] # None
    /\ SameSale(w) /\ SameLock(w) /\ SameOwner(w)

LEMMA SettlingKeeps ==
    ASSUME NEW w \in Wallets, NEW c \in Slots, Settling(c, w), Calm, WalletInv(w)
    PROVE  Kept(w)
<1>1. /\ Tla(w)' = Tla(w)
      /\ OfBusiness(w)' <=> OfBusiness(w)
      /\ Covered(w)' <=> Covered(w)
      /\ SaleIdle(w)' <=> SaleIdle(w)
      /\ Rented(w)' <=> Rented(w)
      /\ sub_accounts'[w] = sub_accounts[w]
      /\ SameSale(w) /\ SameLock(w) /\ SameOwner(w)
      /\ now' = now
  BY DEF Settling, Calm, SameSale, Tla, OfBusiness, IsBusiness, Covered, NoticeOutlastsChains,
     SaleIdle, Rented
<1>2. Expired(w)' <=> Expired(w)
  BY <1>1 DEF Expired
<1>3. /\ \A d \in Slots \ {c} : chains'[d] = chains[d] /\ Slack(d)' = Slack(d)
      /\ chains[c] # None /\ chains'[c] = None /\ On(c, w, RentalKinds)
      /\ chains[c].kind \in RentalKinds
      /\ \A kind \in RentalKinds : kind \notin SaleKinds /\ kind \notin QueryKinds
                                   /\ kind \notin {"reclaim", "retry"}
      /\ MintKinds \subseteq RentalKinds
      /\ chains[c].kind # "rerent" => chains[c].kind \in MintKinds
  BY DEF Settling, Ends, OnlyChain, InFlight, On, Slack, SaleKinds, QueryKinds, RentalKinds,
     MintKinds
<1>4. SignerKnown(w) => SignerKnown(w)'
  BY <1>1, <1>3 DEF SignerKnown, SameSale, SameOwner, On, InFlight
<1>5. SoldOrRetracted(w) => SoldOrRetracted(w)'
  BY <1>1, <1>3 DEF SoldOrRetracted, On, InFlight
<1>6. ASSUME SaleLock(w), SoldOrRetracted(w), Covered(w) => RentalRuns(w), w \notin overridden
      PROVE  SaleLock(w)'
  <2>1. \A d \in Slots : On(d, w, SaleKinds) => Rented(w)
    BY <1>3, <1>6 DEF SoldOrRetracted, Covered, RentalRuns
  <2> QED BY <1>1, <1>3, <1>6, <2>1 DEF SaleLock, On, InFlight
<1>7. ReclaimLock(w) => ReclaimLock(w)'
  BY <1>1, <1>3 DEF ReclaimLock, SameLock, On, InFlight
<1>8. TooLateToSell(w) => TooLateToSell(w)'
  BY <1>1, <1>2, <1>3 DEF TooLateToSell, On, InFlight
<1>9. ASSUME SignerKnown(w),
             RentalRuns(w), RentalAlone(w), SignerPlace(w), MintFirst(w), SignerAwaited(w)
      PROVE  /\ RentalRuns(w)' /\ RentalAlone(w)'
             /\ SignerPlace(w)' /\ MintFirst(w)' /\ SignerAwaited(w)'
  <2>1. /\ Rented(w) /\ Rented(w)' /\ \A d \in Slots : ~On(d, w, {"reclaim"})
        /\ \A d \in Slots : On(d, w, RentalKinds) => d = c
        /\ chains[c].kind = "rerent" <=> w \in parked_names
    BY <1>1, <1>3, <1>9 DEF RentalRuns, RentalAlone
  <2>2. \A d \in Slots : /\ ~On(d, w, RentalKinds)' /\ ~On(d, w, {"reclaim"})'
                         /\ ~On(d, w, MintKinds)'
    BY <1>3, <2>1 DEF On, InFlight
  <2>3. w \notin parked_names'
    BY <2>1 DEF Settling
  <2>4. SignerPlace(w)'
    BY <1>1, <1>3, <1>9, <2>1, <2>2, <2>3 DEF SignerPlace, SameOwner, On, InFlight
  <2>5. signer_pending'[w] = None => owner[w] # None
    <3>1. CASE chains[c].kind = "rerent"
      BY <1>9, <2>1, <3>1 DEF SignerPlace
    <3>2. CASE chains[c].kind # "rerent" /\ chains[c].result = "Active"
      BY <1>3, <1>9, <3>2 DEF SignerKnown, On, SignerKinds, MintKinds
    <3>3. CASE chains[c].kind # "rerent" /\ chains[c].result = "SignerPending"
      BY <2>1, <3>3 DEF Settling
    <3> QED BY <3>1, <3>2, <3>3 DEF Settling
  <2>6. signer_pending'[w] # None => owner[w] = None
    <3>1. signer_pending[w] = None
      BY <1>3, <1>9, <2>1 DEF SignerPlace, MintFirst, On
    <3>2. signer_pending'[w] # None => chains[c].kind \in MintKinds /\ chains[c].result = "SignerPending"
      BY <1>3, <3>1 DEF Settling
    <3> QED BY <1>3, <1>9, <3>2 DEF MintFirst, On
  <2>7. SignerAwaited(w)'
    BY <1>1, <2>5, <2>6 DEF SignerAwaited, SameOwner
  <2>8. RentalRuns(w)' /\ RentalAlone(w)' /\ MintFirst(w)'
    BY <2>1, <2>2 DEF RentalRuns, RentalAlone, MintFirst
  <2> QED BY <2>4, <2>7, <2>8
<1>10. WalletInv(w)'
  BY <1>1, <1>4, <1>5, <1>6, <1>7, <1>8, <1>9 DEF WalletInv, Calm
<1>11. SellerKept(w)
  BY <1>1 DEF SellerKept, WalletInv, SaleLock, Rented
<1> QED BY <1>10, <1>11 DEF Kept

\* A mint or a re-rent fails and the entry is taken out again.
Failing(c, w) ==
    /\ Ends(c) /\ On(c, w, RentalKinds)
    /\ chains[c].kind # "rerent" => chains[c].result # "Active"
    /\ ~Rented(w)'
    /\ w \in parked_names' <=> w \in parked_names
    /\ signer_pending'[w] = signer_pending[w]
    /\ SameSale(w) /\ SameLock(w) /\ SameOwner(w)

LEMMA FailingKeeps ==
    ASSUME NEW w \in Wallets, NEW c \in Slots, Failing(c, w), Calm, WalletInv(w)
    PROVE  Kept(w)
<1>1. /\ Tla(w)' = Tla(w)
      /\ OfBusiness(w)' <=> OfBusiness(w)
      /\ Covered(w)' <=> Covered(w)
      /\ SaleIdle(w)' <=> SaleIdle(w)
      /\ ~Rented(w)'
      /\ w \in parked_names' <=> w \in parked_names
      /\ signer_pending'[w] = signer_pending[w]
      /\ SameSale(w) /\ SameLock(w) /\ SameOwner(w)
      /\ now' = now
  BY DEF Failing, Calm, SameSale, Tla, OfBusiness, IsBusiness, Covered, NoticeOutlastsChains,
     SaleIdle
<1>2. /\ \A d \in Slots \ {c} : chains'[d] = chains[d] /\ Slack(d)' = Slack(d)
      /\ chains[c] # None /\ chains'[c] = None /\ On(c, w, RentalKinds)
      /\ chains[c].kind \in RentalKinds
      /\ \A kind \in RentalKinds : kind \notin SaleKinds /\ kind \notin QueryKinds
                                   /\ kind \notin {"reclaim", "retry"}
      /\ MintKinds \subseteq RentalKinds
      /\ chains[c].kind # "rerent" => On(c, w, MintKinds)
  BY DEF Failing, Ends, OnlyChain, InFlight, On, Slack, SaleKinds, QueryKinds, RentalKinds,
     MintKinds
<1>3. ASSUME RentalRuns(w), RentalAlone(w), MintFirst(w)
      PROVE  /\ \A d \in Slots : ~On(d, w, {"reclaim"})
             /\ \A d \in Slots : On(d, w, RentalKinds) => d = c
             /\ w \notin parked_names => /\ owner[w] = None /\ signer_pending[w] = None
                                         /\ \A d \in Slots : ~On(d, w, {"retry"})
  BY <1>2, <1>3 DEF RentalRuns, RentalAlone, MintFirst, Failing
<1>4. SignerKnown(w) => SignerKnown(w)'
  BY <1>1, <1>2 DEF SignerKnown, SameSale, SameOwner, On, InFlight
<1>5. SoldOrRetracted(w) => SoldOrRetracted(w)'
  BY <1>1, <1>2 DEF SoldOrRetracted, On, InFlight
<1>6. ASSUME SignerKnown(w), SaleLock(w), SoldOrRetracted(w), w \notin overridden,
             Covered(w) => RentalRuns(w) /\ RentalAlone(w) /\ MintFirst(w)
      PROVE  SaleLock(w)' /\ SellerKept(w)
  <2>1. \A d \in Slots : On(d, w, SaleKinds) => w \in parked_names
    BY <1>3, <1>6 DEF SoldOrRetracted, SignerKnown, Covered
  <2>2. SaleLock(w)'
    BY <1>1, <1>2, <1>6, <2>1 DEF SaleLock, On, InFlight
  <2> QED BY <2>1, <2>2 DEF SellerKept
<1>7. ReclaimLock(w) => ReclaimLock(w)'
  BY <1>1, <1>2 DEF ReclaimLock, SameLock, On, InFlight
<1>8. ASSUME TooLateToSell(w), w \notin overridden,
             Covered(w) => RentalRuns(w) /\ RentalAlone(w) /\ MintFirst(w)
      PROVE  TooLateToSell(w)'
  <2>1. \A d \in Slots : On(d, w, {"reclaim"}) => OfBusiness(w)
    BY <1>3, <1>8 DEF Covered
  <2> QED BY <1>1, <1>2, <1>8, <2>1 DEF TooLateToSell, On, InFlight
<1>9. ASSUME RentalRuns(w), RentalAlone(w), SignerPlace(w), MintFirst(w), SignerAwaited(w)
      PROVE  /\ RentalRuns(w)' /\ RentalAlone(w)'
             /\ SignerPlace(w)' /\ MintFirst(w)' /\ SignerAwaited(w)'
  <2>1. \A d \in Slots : /\ ~On(d, w, RentalKinds)' /\ ~On(d, w, {"reclaim"})'
                         /\ ~On(d, w, MintKinds)'
    BY <1>2, <1>3, <1>9 DEF On, InFlight
  <2>2. RentalRuns(w)' /\ RentalAlone(w)' /\ MintFirst(w)'
    BY <2>1 DEF RentalRuns, RentalAlone, MintFirst
  <2>3. signer_pending[w] = None
    BY <1>3, <1>9 DEF SignerPlace
  <2>4. SignerPlace(w)'
    <3>1. /\ owner[w] # None => w \in parked_names
          /\ w \in parked_names => owner[w] # None
          /\ \A d \in Slots : On(d, w, {"retry"}) => w \in parked_names
      BY <1>3, <1>9 DEF SignerPlace
    <3>2. \A d \in Slots : On(d, w, {"retry"})' => On(d, w, {"retry"})
      BY <1>2 DEF On, InFlight
    <3> QED BY <1>1, <2>1, <2>3, <3>1, <3>2 DEF SignerPlace, SameOwner
  <2>5. SignerAwaited(w)'
    BY <1>1, <2>3 DEF SignerAwaited
  <2> QED BY <2>2, <2>4, <2>5
<1>10. WalletInv(w)'
  BY <1>1, <1>4, <1>5, <1>6, <1>7, <1>8, <1>9 DEF WalletInv, Calm
<1>11. SellerKept(w)
  BY <1>6 DEF WalletInv, SellerKept
<1> QED BY <1>10, <1>11 DEF Kept

\* The tenant changes the entry: another main wallet, a longer lease, a
\* retraction or its end.
Editing(w) ==
    /\ UNCHANGED chains
    /\ Rented(w) /\ Rented(w)'
    /\ sub_accounts'[w].expires_at \in Nat
    /\ sub_accounts'[w].expires_at >= sub_accounts[w].expires_at
    /\ now >= sub_accounts[w].expires_at + Grace =>
         sub_accounts'[w].expires_at = sub_accounts[w].expires_at
    /\ \/ sub_accounts'[w].retraction_at \in {None, sub_accounts[w].retraction_at}
       \/ OfBusiness(w) /\ sub_accounts'[w].retraction_at = now
    /\ \/ SaleIdle(w)
       \/ /\ sub_accounts'[w].owner = sub_accounts[w].owner
          /\ sub_accounts'[w].main_wallet = sub_accounts[w].main_wallet
    /\ w \in parked_names' <=> w \in parked_names
    /\ signer_pending'[w] = signer_pending[w]
    /\ SameSale(w) /\ SameLock(w) /\ SameOwner(w)

LEMMA EditingKeeps ==
    ASSUME TypeInv, NEW w \in Wallets, Editing(w), Calm, WalletInv(w)
    PROVE  Kept(w)
<1>1. /\ Tla(w)' = Tla(w)
      /\ OfBusiness(w)' <=> OfBusiness(w)
      /\ Covered(w)' <=> Covered(w)
      /\ SaleIdle(w)' <=> SaleIdle(w)
      /\ Rented(w) /\ Rented(w)'
      /\ w \in parked_names' <=> w \in parked_names
      /\ signer_pending'[w] = signer_pending[w]
      /\ SameSale(w) /\ SameLock(w) /\ SameOwner(w)
      /\ now' = now /\ chains' = chains
  BY DEF Editing, Calm, SameSale, Tla, OfBusiness, IsBusiness, Covered, NoticeOutlastsChains,
     SaleIdle
<1>2. \A c \in Slots : Slack(c)' = Slack(c) /\ Slack(c) \in {0, 1}
  BY <1>1 DEF Slack
<1>3. Expired(w) => Expired(w)'
  BY <1>1 DEF Expired, Editing
<1>4. (SignerKnown(w) => SignerKnown(w)') /\ (SoldOrRetracted(w) => SoldOrRetracted(w)')
  BY <1>1 DEF SignerKnown, SoldOrRetracted, Editing, SameSale, SameOwner, On, InFlight
<1>5. (SaleLock(w) => SaleLock(w)') /\ (ReclaimLock(w) => ReclaimLock(w)')
  BY <1>1 DEF SaleLock, ReclaimLock, SameLock, On, InFlight
<1>6. TooLateToSell(w) => TooLateToSell(w)'
  BY <1>1, <1>3 DEF TooLateToSell, On, InFlight
<1>7. RentalRuns(w) => RentalRuns(w)'
  <2>1. /\ now \in Nat /\ Grace \in Nat /\ sub_accounts[w].expires_at \in Nat
        /\ sub_accounts[w].retraction_at \in Nat \cup {None}
    BY <1>1, NameFields, RegistryConstants DEF TypeInv, WorldOK, SubAccountEntry
  <2> QED BY <1>1, <1>2, <2>1 DEF RentalRuns, Editing, On, InFlight
<1>8. RentalAlone(w) => RentalAlone(w)'
  BY <1>1 DEF RentalAlone, On, InFlight
<1>9. (SignerPlace(w) => SignerPlace(w)') /\ (MintFirst(w) => MintFirst(w)')
      /\ (SignerAwaited(w) => SignerAwaited(w)')
  BY <1>1 DEF SignerPlace, MintFirst, SignerAwaited, SameOwner, On, InFlight
<1>10. WalletInv(w)'
  BY <1>1, <1>4, <1>5, <1>6, <1>7, <1>8, <1>9 DEF WalletInv, Calm
<1>11. SellerKept(w)
  BY <1>1 DEF SellerKept, WalletInv, SaleLock, Editing, Rented
<1> QED BY <1>10, <1>11 DEF Kept

\* The installation of a signer is tried again, and the answer comes.
Retrying(c, w) ==
    /\ Fresh(c, "retry", "retry_install", w)
    /\ Rented(w) /\ signer_pending[w] # None
    /\ SameName(w) /\ SameSale(w) /\ SameLock(w) /\ SameOwner(w)

LEMMA RetryingKeeps ==
    ASSUME NEW w \in Wallets, NEW c \in Slots, Retrying(c, w), Calm, WalletInv(w)
    PROVE  Kept(w)
<1>1. /\ Rented(w)' <=> Rented(w)
      /\ Tla(w)' = Tla(w)
      /\ OfBusiness(w)' <=> OfBusiness(w)
      /\ Covered(w)' <=> Covered(w)
      /\ Expired(w)' <=> Expired(w)
      /\ SaleIdle(w)' <=> SaleIdle(w)
      /\ Rented(w) /\ signer_pending[w] # None
      /\ SameName(w) /\ SameLock(w) /\ SameOwner(w) /\ SameSale(w)
  BY NameFacts DEF Retrying, SameSale, SaleIdle
<1>2. /\ \A d \in Slots \ {c} : chains'[d] = chains[d] /\ Slack(d)' = Slack(d)
      /\ chains[c] = None /\ chains'[c] # None /\ chains'[c].wallet = w
      /\ chains'[c].kind = "retry" /\ chains'[c].result = "pending"
      /\ "retry" \notin QueryKinds \cup SaleKinds \cup RentalKinds \cup MintKinds
  BY DEF Retrying, Fresh, OnlyChain, InFlight, Slack, SaleKinds, QueryKinds, RentalKinds, MintKinds
<1>3. SignerKnown(w) => SignerKnown(w)'
  BY <1>1, <1>2 DEF SignerKnown, SameSale, SameOwner, On, InFlight
<1>4. SoldOrRetracted(w) => SoldOrRetracted(w)'
  BY <1>1, <1>2 DEF SoldOrRetracted, SameName, On, InFlight
<1>5. SaleLock(w) => SaleLock(w)'
  BY <1>1, <1>2 DEF SaleLock, SameName, On, InFlight
<1>6. ReclaimLock(w) => ReclaimLock(w)'
  BY <1>1, <1>2 DEF ReclaimLock, SameLock, On, InFlight
<1>7. TooLateToSell(w) => TooLateToSell(w)'
  BY <1>1, <1>2 DEF TooLateToSell, On, InFlight
<1>8. RentalRuns(w) => RentalRuns(w)'
  BY <1>1, <1>2 DEF RentalRuns, SameName, On, InFlight, Calm
<1>9. RentalAlone(w) => RentalAlone(w)'
  BY <1>1, <1>2 DEF RentalAlone, On, InFlight
<1>10. SignerPlace(w) => SignerPlace(w)'
  BY <1>1, <1>2 DEF SignerPlace, SameName, SameOwner, On, InFlight
<1>11. MintFirst(w) => MintFirst(w)'
  <2> SUFFICES ASSUME MintFirst(w) PROVE MintFirst(w)'
    OBVIOUS
  <2>1. \A d \in Slots : ~On(d, w, MintKinds)
    BY <1>1 DEF MintFirst
  <2> QED BY <1>2, <2>1 DEF MintFirst, On, InFlight
<1>12. SignerAwaited(w) => SignerAwaited(w)'
  BY <1>1, <1>2 DEF SignerAwaited, SameName, SameOwner, On, InFlight
<1>13. WalletInv(w)'
  BY <1>1, <1>3, <1>4, <1>5, <1>6, <1>7, <1>8, <1>9, <1>10, <1>11, <1>12 DEF WalletInv, Calm
<1> QED BY <1>1, <1>13, SellerQuiet DEF Kept

Retried(c, w) ==
    /\ Ends(c) /\ On(c, w, {"retry"})
    /\ sub_accounts'[w] = sub_accounts[w]
    /\ w \in parked_names' <=> w \in parked_names
    /\ signer_pending'[w] = IF chains[c].result = "ok" THEN None ELSE signer_pending[w]
    /\ SameSale(w) /\ SameLock(w) /\ SameOwner(w)

LEMMA RetriedKeeps ==
    ASSUME NEW w \in Wallets, NEW c \in Slots, Retried(c, w), Calm, WalletInv(w)
    PROVE  Kept(w)
<1>1. /\ Tla(w)' = Tla(w)
      /\ OfBusiness(w)' <=> OfBusiness(w)
      /\ Covered(w)' <=> Covered(w)
      /\ SaleIdle(w)' <=> SaleIdle(w)
      /\ Rented(w)' <=> Rented(w)
      /\ sub_accounts'[w] = sub_accounts[w]
      /\ w \in parked_names' <=> w \in parked_names
      /\ SameSale(w) /\ SameLock(w) /\ SameOwner(w)
      /\ now' = now
  BY DEF Retried, Calm, SameSale, Tla, OfBusiness, IsBusiness, Covered, NoticeOutlastsChains,
     SaleIdle, Rented
<1>2. Expired(w)' <=> Expired(w)
  BY <1>1 DEF Expired
<1>3. /\ \A d \in Slots \ {c} : chains'[d] = chains[d] /\ Slack(d)' = Slack(d)
      /\ chains[c] # None /\ chains'[c] = None /\ On(c, w, {"retry"})
      /\ chains[c].kind = "retry"
      /\ "retry" \notin QueryKinds \cup SaleKinds \cup RentalKinds \cup MintKinds
  BY DEF Retried, Ends, OnlyChain, InFlight, On, Slack, SaleKinds, QueryKinds, RentalKinds,
     MintKinds
<1>4. SignerKnown(w) => SignerKnown(w)'
  BY <1>1, <1>3 DEF SignerKnown, SameSale, SameOwner, On, InFlight
<1>5. SoldOrRetracted(w) => SoldOrRetracted(w)'
  BY <1>1, <1>3 DEF SoldOrRetracted, On, InFlight
<1>6. SaleLock(w) => SaleLock(w)'
  BY <1>1, <1>3 DEF SaleLock, On, InFlight
<1>7. ReclaimLock(w) => ReclaimLock(w)'
  BY <1>1, <1>3 DEF ReclaimLock, SameLock, On, InFlight
<1>8. TooLateToSell(w) => TooLateToSell(w)'
  BY <1>1, <1>2, <1>3 DEF TooLateToSell, On, InFlight
<1>9. RentalRuns(w) => RentalRuns(w)'
  BY <1>1, <1>3 DEF RentalRuns, On, InFlight
<1>10. RentalAlone(w) => RentalAlone(w)'
  BY <1>1, <1>3 DEF RentalAlone, On, InFlight
<1>11. SignerPlace(w) => SignerPlace(w)'
  BY <1>1, <1>3 DEF SignerPlace, Retried, SameOwner, On, InFlight
<1>12. MintFirst(w) => MintFirst(w)'
  BY <1>1, <1>3 DEF MintFirst, Retried, SameOwner, On, InFlight
<1>13. SignerKnown(w) /\ SignerAwaited(w) => SignerAwaited(w)'
  <2> SUFFICES ASSUME SignerKnown(w), SignerAwaited(w) PROVE SignerAwaited(w)'
    OBVIOUS
  <2>1. CASE chains[c].result = "ok"
    <3>1. owner[w] # None /\ signer_pending'[w] = None
      BY <1>3, <2>1 DEF SignerKnown, On, SignerKinds, Retried
    <3> QED BY <1>1, <3>1 DEF SignerAwaited, SameOwner
  <2>2. CASE chains[c].result # "ok"
    <3>1. signer_pending'[w] = signer_pending[w]
      BY <2>2 DEF Retried
    <3> QED BY <1>1, <1>3, <2>2, <3>1 DEF SignerAwaited, SameOwner, On, InFlight
  <2> QED BY <2>1, <2>2
<1>14. WalletInv(w)'
  BY <1>1, <1>4, <1>5, <1>6, <1>7, <1>8, <1>9, <1>10, <1>11, <1>12, <1>13 DEF WalletInv, Calm
<1>15. SellerKept(w)
  BY <1>1 DEF SellerKept, WalletInv, SaleLock, Rented
<1> QED BY <1>14, <1>15 DEF Kept

\* A name that may be reclaimed can not be sold any more, and is not being
\* minted or re-rented.
LEMMA ReclaimableName ==
    ASSUME TypeInv, NEW w \in Wallets, resolve_reclaimable(w), SoldOrRetracted(w)
    PROVE  /\ Rented(w) /\ Tla(w) # None
           /\ OfBusiness(w) \/ Expired(w)
           /\ Covered(w) /\ RentalRuns(w) => \A c \in Slots : ~On(c, w, RentalKinds)
<1>1. /\ Rented(w) /\ Tla(w) # None /\ effective_sub_lifecycle(w) = "Reclaimable"
      /\ TlaOf[w] \in Tlas
  BY RegistryConstants DEF resolve_reclaimable
<1>2. /\ now \in Nat /\ Grace \in Nat /\ sub_accounts[w].expires_at \in Nat
      /\ sub_accounts[w].retraction_at \in Nat \cup {None}
      /\ Tla(w).expires_at \in Nat /\ fee_config.retraction_notice_ns \in Nat
      /\ fee_config \in FeeConfigs
  BY <1>1, NameFields, TlaFields, RegistryConstants
     DEF TypeInv, WorldOK, ConfigOK, SubAccountEntry, FeeConfig, Tla
<1>3. \/ Tla(w).status = "Active" /\ now >= Tla(w).expires_at + Grace
      \/ /\ sub_accounts[w].retraction_at # None
         /\ now >= sub_accounts[w].retraction_at + fee_config.retraction_notice_ns
      \/ now >= sub_accounts[w].expires_at + Grace
  <2>1. CASE TlaLifecycle(TlaOf[w]) = "Reclaimable"
    <3>1. tlas[TlaOf[w]].status \in {"Registered", "Active", "Suspended"}
      BY <1>1, TlaFields DEF TypeInv, Tla
    <3> QED BY <1>2, <2>1, <3>1 DEF TlaLifecycle, time_lifecycle, Tla
  <2>2. CASE TlaLifecycle(TlaOf[w]) # "Reclaimable"
    BY <1>1, <1>2, <2>2 DEF effective_sub_lifecycle, time_lifecycle
  <2> QED BY <2>1, <2>2
<1>4. OfBusiness(w) \/ Expired(w)
  BY <1>1, <1>3 DEF SoldOrRetracted, Expired
<1>5. ASSUME Covered(w), RentalRuns(w), NEW c \in Slots, On(c, w, RentalKinds)
      PROVE  FALSE
  <2>1. /\ now + Slack(c) < sub_accounts[w].expires_at + Grace
        /\ now + Slack(c) < Tla(w).expires_at + Grace
        /\ sub_accounts[w].retraction_at # None => now + Slack(c) < sub_accounts[w].retraction_at + 2
        /\ Slack(c) \in {0, 1}
    BY <1>5 DEF RentalRuns, Slack
  <2>2. sub_accounts[w].retraction_at # None => fee_config.retraction_notice_ns >= 2
    BY <1>1, <1>2, <1>5 DEF SoldOrRetracted, Covered, NoticeOutlastsChains
  <2> QED BY <1>2, <1>3, <2>1, <2>2
<1> QED BY <1>1, <1>4, <1>5

\* A reclaim takes its lock, at the gate or, with no token at the gate, past it.
ReclaimBegins(c, w) ==
    /\ \E method \in Method : /\ Fresh(c, "reclaim", method, w)
                              /\ method = "transfer" => signer_pending[w] = None
    /\ SaleIdle(w) /\ resolve_reclaimable(w)
    /\ w \notin reclaim_pending /\ w \in reclaim_pending'
    /\ SameName(w) /\ SameSale(w) /\ SameOwner(w)

LEMMA ReclaimBeginsKeeps ==
    ASSUME TypeInv, NEW w \in Wallets, NEW c \in Slots, ReclaimBegins(c, w), Calm, WalletInv(w)
    PROVE  Kept(w)
<1>1. /\ Rented(w)' <=> Rented(w)
      /\ Tla(w)' = Tla(w)
      /\ OfBusiness(w)' <=> OfBusiness(w)
      /\ Covered(w)' <=> Covered(w)
      /\ Expired(w)' <=> Expired(w)
      /\ SaleIdle(w)' <=> SaleIdle(w)
      /\ SaleIdle(w) /\ w \notin reclaim_pending /\ w \in reclaim_pending'
      /\ SameName(w) /\ SameOwner(w) /\ SameSale(w)
  BY NameFacts DEF ReclaimBegins, SameSale, SaleIdle
<1>2. /\ \A d \in Slots \ {c} : chains'[d] = chains[d] /\ Slack(d)' = Slack(d)
      /\ chains[c] = None /\ chains'[c] # None /\ chains'[c].wallet = w
      /\ chains'[c].kind = "reclaim" /\ chains'[c].result = "pending"
      /\ chains'[c].method = "transfer" => signer_pending[w] = None
      /\ "reclaim" \notin QueryKinds \cup SaleKinds \cup RentalKinds \cup MintKinds
      /\ MintKinds \subseteq RentalKinds
  BY DEF ReclaimBegins, Fresh, OnlyChain, InFlight, Slack, SaleKinds, QueryKinds, RentalKinds,
     MintKinds
<1>3. /\ Rented(w) /\ (OfBusiness(w) \/ Expired(w))
      /\ Covered(w) /\ RentalRuns(w) => \A d \in Slots : ~On(d, w, RentalKinds)
  BY ReclaimableName DEF WalletInv, ReclaimBegins
<1>4. SignerKnown(w) => SignerKnown(w)'
  BY <1>1, <1>2 DEF SignerKnown, SameSale, SameOwner, On, InFlight
<1>5. SoldOrRetracted(w) => SoldOrRetracted(w)'
  BY <1>1, <1>2 DEF SoldOrRetracted, SameName, On, InFlight
<1>6. SaleLock(w) => SaleLock(w)'
  BY <1>1, <1>2 DEF SaleLock, SameName, On, InFlight
<1>7. ReclaimLock(w) => ReclaimLock(w)'
  <2> SUFFICES ASSUME ReclaimLock(w) PROVE ReclaimLock(w)'
    OBVIOUS
  <2>1. \A d \in Slots : ~On(d, w, {"reclaim"})
    BY <1>1 DEF ReclaimLock
  <2>2. On(c, w, {"reclaim"})'
    BY <1>2 DEF On, InFlight
  <2> QED BY <1>1, <1>2, <2>1, <2>2 DEF ReclaimLock, On, InFlight
<1>8. SaleLock(w) /\ TooLateToSell(w) => TooLateToSell(w)'
  BY <1>1, <1>2, <1>3 DEF SaleLock, TooLateToSell, On, InFlight
<1>9. ASSUME RentalRuns(w), RentalAlone(w), SignerPlace(w), MintFirst(w), SignerAwaited(w),
             Covered(w)
      PROVE  /\ RentalRuns(w)' /\ RentalAlone(w)'
             /\ SignerPlace(w)' /\ MintFirst(w)' /\ SignerAwaited(w)'
  <2>1. \A d \in Slots : ~On(d, w, RentalKinds) /\ ~On(d, w, MintKinds)
    BY <1>2, <1>3, <1>9 DEF On
  <2>2. \A d \in Slots : ~On(d, w, RentalKinds)' /\ ~On(d, w, MintKinds)'
    BY <1>2, <2>1 DEF On, InFlight
  <2>3. RentalRuns(w)' /\ RentalAlone(w)' /\ MintFirst(w)'
    BY <1>1, <1>3, <2>2 DEF RentalRuns, RentalAlone, MintFirst
  <2>4. signer_pending[w] = None => owner[w] # None
    BY <1>3, <1>9, <2>1 DEF SignerAwaited
  <2>5. SignerPlace(w)'
    BY <1>1, <1>2, <1>9, <2>4 DEF SignerPlace, SameName, SameOwner, On, InFlight
  <2>6. SignerAwaited(w)'
    BY <1>1, <1>2, <1>9, <2>4 DEF SignerAwaited, SameName, SameOwner, On, InFlight
  <2> QED BY <2>3, <2>5, <2>6
<1>10. WalletInv(w)'
  BY <1>1, <1>4, <1>5, <1>6, <1>7, <1>8, <1>9 DEF WalletInv, Calm
<1> QED BY <1>1, <1>10, SellerQuiet DEF Kept

\* The gate lets a reclaim pass.
ReclaimPasses(c, w) ==
    /\ GoesOn(c) /\ On(c, w, {"reclaim"})
    /\ chains[c].result # "ok" /\ chains'[c].result = "pending"
    /\ chains'[c].method = "transfer" => signer_pending[w] = None
    /\ SaleIdle(w) /\ resolve_reclaimable(w)
    /\ SameName(w) /\ SameSale(w) /\ SameLock(w) /\ SameOwner(w)

LEMMA ReclaimPassesKeeps ==
    ASSUME TypeInv, NEW w \in Wallets, NEW c \in Slots, ReclaimPasses(c, w), Calm, WalletInv(w)
    PROVE  Kept(w)
<1>1. /\ Rented(w)' <=> Rented(w)
      /\ Tla(w)' = Tla(w)
      /\ OfBusiness(w)' <=> OfBusiness(w)
      /\ Covered(w)' <=> Covered(w)
      /\ Expired(w)' <=> Expired(w)
      /\ SaleIdle(w)' <=> SaleIdle(w)
      /\ SaleIdle(w)
      /\ SameName(w) /\ SameLock(w) /\ SameOwner(w) /\ SameSale(w)
  BY NameFacts DEF ReclaimPasses, SameSale, SaleIdle
<1>2. /\ \A d \in Slots \ {c} : chains'[d] = chains[d] /\ Slack(d)' = Slack(d)
      /\ chains[c] # None /\ chains[c].wallet = w /\ chains[c].kind = "reclaim"
      /\ chains[c].result # "ok" /\ On(c, w, {"reclaim"})
      /\ chains'[c] # None /\ chains'[c].wallet = w
      /\ chains'[c].kind = "reclaim" /\ chains'[c].result = "pending"
      /\ chains'[c].method = "transfer" => signer_pending[w] = None
      /\ "reclaim" \notin QueryKinds \cup SaleKinds \cup RentalKinds \cup MintKinds
      /\ MintKinds \subseteq RentalKinds
  BY DEF ReclaimPasses, GoesOn, OnlyChain, InFlight, On, Slack, SaleKinds, QueryKinds,
     RentalKinds, MintKinds
<1>3. /\ Rented(w) /\ (OfBusiness(w) \/ Expired(w))
      /\ Covered(w) /\ RentalRuns(w) => \A d \in Slots : ~On(d, w, RentalKinds)
  BY ReclaimableName DEF WalletInv, ReclaimPasses
<1>4. SignerKnown(w) => SignerKnown(w)'
  BY <1>1, <1>2 DEF SignerKnown, SameSale, SameOwner, On, InFlight
<1>5. SoldOrRetracted(w) => SoldOrRetracted(w)'
  BY <1>1, <1>2 DEF SoldOrRetracted, SameName, On, InFlight
<1>6. SaleLock(w) => SaleLock(w)'
  BY <1>1, <1>2 DEF SaleLock, SameName, On, InFlight
<1>7. ReclaimLock(w) => ReclaimLock(w)'
  BY <1>1, <1>2 DEF ReclaimLock, SameLock, On, InFlight
<1>8. SaleLock(w) /\ TooLateToSell(w) => TooLateToSell(w)'
  BY <1>1, <1>2, <1>3 DEF SaleLock, TooLateToSell, On, InFlight
<1>9. ASSUME RentalRuns(w), RentalAlone(w), SignerPlace(w), MintFirst(w), SignerAwaited(w),
             Covered(w)
      PROVE  /\ RentalRuns(w)' /\ RentalAlone(w)'
             /\ SignerPlace(w)' /\ MintFirst(w)' /\ SignerAwaited(w)'
  <2>1. \A d \in Slots : ~On(d, w, RentalKinds) /\ ~On(d, w, MintKinds)
    BY <1>2, <1>3, <1>9 DEF On
  <2>2. \A d \in Slots : ~On(d, w, RentalKinds)' /\ ~On(d, w, MintKinds)'
    BY <1>2, <2>1 DEF On, InFlight
  <2>3. RentalRuns(w)' /\ RentalAlone(w)' /\ MintFirst(w)'
    BY <1>1, <1>3, <2>2 DEF RentalRuns, RentalAlone, MintFirst
  <2>4. signer_pending[w] = None => owner[w] # None
    BY <1>3, <1>9, <2>1 DEF SignerAwaited
  <2>5. SignerPlace(w)'
    BY <1>1, <1>2, <1>9, <2>4 DEF SignerPlace, SameName, SameOwner, On, InFlight
  <2>6. SignerAwaited(w)'
    BY <1>1, <1>2, <1>9, <2>4 DEF SignerAwaited, SameName, SameOwner, On, InFlight
  <2> QED BY <2>3, <2>5, <2>6
<1>10. WalletInv(w)'
  BY <1>1, <1>4, <1>5, <1>6, <1>7, <1>8, <1>9 DEF WalletInv, Calm
<1> QED BY <1>1, <1>10, SellerQuiet DEF Kept

\* A reclaim ends, and the name stays with its tenant.
ReclaimEnds(c, w) ==
    /\ Ends(c) /\ On(c, w, {"reclaim"})
    /\ chains[c].result # "ok" \/ ~Rented(w)
    /\ w \notin reclaim_pending'
    /\ SameName(w) /\ SameSale(w) /\ SameOwner(w)

LEMMA ReclaimEndsKeeps ==
    ASSUME NEW w \in Wallets, NEW c \in Slots, ReclaimEnds(c, w), Calm, WalletInv(w)
    PROVE  Kept(w)
<1>1. /\ Rented(w)' <=> Rented(w)
      /\ Tla(w)' = Tla(w)
      /\ OfBusiness(w)' <=> OfBusiness(w)
      /\ Covered(w)' <=> Covered(w)
      /\ Expired(w)' <=> Expired(w)
      /\ SaleIdle(w)' <=> SaleIdle(w)
      /\ w \notin reclaim_pending'
      /\ SameName(w) /\ SameOwner(w) /\ SameSale(w)
  BY NameFacts DEF ReclaimEnds, SameSale, SaleIdle
<1>2. /\ \A d \in Slots \ {c} : chains'[d] = chains[d] /\ Slack(d)' = Slack(d)
      /\ chains[c] # None /\ chains'[c] = None /\ On(c, w, {"reclaim"})
      /\ chains[c].kind = "reclaim" /\ chains[c].wallet = w
      /\ chains[c].result # "ok" \/ ~Rented(w)
      /\ "reclaim" \notin QueryKinds \cup SaleKinds \cup RentalKinds \cup MintKinds
  BY DEF ReclaimEnds, Ends, OnlyChain, InFlight, On, Slack, SaleKinds, QueryKinds,
     RentalKinds, MintKinds
<1>3. SignerKnown(w) => SignerKnown(w)'
  BY <1>1, <1>2 DEF SignerKnown, SameSale, SameOwner, On, InFlight
<1>4. SoldOrRetracted(w) => SoldOrRetracted(w)'
  BY <1>1, <1>2 DEF SoldOrRetracted, SameName, On, InFlight
<1>5. SaleLock(w) => SaleLock(w)'
  BY <1>1, <1>2 DEF SaleLock, SameName, On, InFlight
<1>6. ReclaimLock(w) => ReclaimLock(w)'
  BY <1>1, <1>2 DEF ReclaimLock, On, InFlight
<1>7. TooLateToSell(w) => TooLateToSell(w)'
  BY <1>1, <1>2 DEF TooLateToSell, On, InFlight
<1>8. RentalRuns(w) => RentalRuns(w)'
  BY <1>1, <1>2 DEF RentalRuns, SameName, On, InFlight, Calm
<1>9. RentalAlone(w) => RentalAlone(w)'
  BY <1>1, <1>2 DEF RentalAlone, On, InFlight
<1>10. SignerPlace(w) => SignerPlace(w)'
  BY <1>1, <1>2 DEF SignerPlace, SameName, SameOwner, On, InFlight
<1>11. MintFirst(w) => MintFirst(w)'
  BY <1>1, <1>2 DEF MintFirst, SameName, SameOwner, On, InFlight
<1>12. SignerPlace(w) /\ SignerAwaited(w) => SignerAwaited(w)'
  BY <1>1, <1>2 DEF SignerPlace, SignerAwaited, SameName, SameOwner, On, InFlight
<1>13. WalletInv(w)'
  BY <1>1, <1>3, <1>4, <1>5, <1>6, <1>7, <1>8, <1>9, <1>10, <1>11, <1>12 DEF WalletInv, Calm
<1> QED BY <1>1, <1>13, SellerQuiet DEF Kept

\* A reclaim ends with the name parked.
Parking(c, w) ==
    /\ Ends(c) /\ On(c, w, {"reclaim"}) /\ chains[c].method \in Rekeying
    /\ chains[c].method = "transfer" \/ chains[c].result = "ok"
    /\ w \notin reclaim_pending'
    /\ ~Rented(w)' /\ w \in parked_names' /\ signer_pending'[w] = None
    /\ listings'[w] = None /\ accepted_offers'[w] = None
    /\ SameOwner(w)

LEMMA ParkingKeeps ==
    ASSUME NEW w \in Wallets, NEW c \in Slots, Parking(c, w), Calm, WalletInv(w)
    PROVE  Kept(w)
<1>1. /\ Tla(w)' = Tla(w)
      /\ OfBusiness(w)' <=> OfBusiness(w)
      /\ Covered(w)' <=> Covered(w)
      /\ SaleIdle(w)'
      /\ w \notin reclaim_pending'
      /\ ~Rented(w)' /\ w \in parked_names' /\ signer_pending'[w] = None
      /\ listings'[w] = None /\ accepted_offers'[w] = None
      /\ SameOwner(w) /\ now' = now
  BY DEF Parking, Calm, Tla, OfBusiness, IsBusiness, Covered, NoticeOutlastsChains, SaleIdle
<1>2. /\ \A d \in Slots \ {c} : chains'[d] = chains[d]
      /\ chains[c] # None /\ chains'[c] = None /\ On(c, w, {"reclaim"})
      /\ chains[c].kind = "reclaim" /\ chains[c].wallet = w /\ chains[c].method \in Rekeying
      /\ chains[c].method = "transfer" \/ chains[c].result = "ok"
      /\ "reclaim" \notin QueryKinds \cup SaleKinds \cup RentalKinds \cup MintKinds
      /\ MintKinds \subseteq RentalKinds
  BY DEF Parking, Ends, OnlyChain, InFlight, On, SaleKinds, QueryKinds, RentalKinds, MintKinds
<1>3. SignerKnown(w) => SignerKnown(w)'
  BY <1>1, <1>2 DEF SignerKnown, SameOwner, On, InFlight
<1>4. SoldOrRetracted(w) => SoldOrRetracted(w)'
  BY <1>1, <1>2 DEF SoldOrRetracted, On, InFlight
<1>5. TooLateToSell(w) => \A d \in Slots : ~On(d, w, SaleKinds)
  BY <1>2 DEF TooLateToSell
<1>6. TooLateToSell(w) => SaleLock(w)'
  BY <1>1, <1>2, <1>5 DEF SaleLock, On, InFlight
<1>7. ReclaimLock(w) => ReclaimLock(w)'
  BY <1>1, <1>2 DEF ReclaimLock, On, InFlight
<1>8. ReclaimLock(w) => TooLateToSell(w)'
  BY <1>2 DEF ReclaimLock, TooLateToSell, On, InFlight
<1>9. ASSUME SignerKnown(w), ReclaimLock(w),
             RentalRuns(w), RentalAlone(w), SignerPlace(w), MintFirst(w), SignerAwaited(w)
      PROVE  /\ RentalRuns(w)' /\ RentalAlone(w)'
             /\ SignerPlace(w)' /\ MintFirst(w)' /\ SignerAwaited(w)'
  <2>1. \A d \in Slots : ~On(d, w, RentalKinds) /\ (On(d, w, {"reclaim"}) => d = c)
    BY <1>2, <1>9 DEF RentalAlone, ReclaimLock
  <2>2. \A d \in Slots : /\ ~On(d, w, RentalKinds)' /\ ~On(d, w, MintKinds)'
                         /\ ~On(d, w, {"reclaim"})'
    BY <1>2, <2>1 DEF On, InFlight
  <2>3. RentalRuns(w)' /\ RentalAlone(w)' /\ MintFirst(w)'
    BY <2>2 DEF RentalRuns, RentalAlone, MintFirst
  <2>4. owner[w] # None
    <3>1. CASE chains[c].method = "transfer"
      BY <1>2, <1>9, <3>1 DEF SignerPlace
    <3>2. CASE chains[c].result = "ok"
      BY <1>2, <1>9, <3>2 DEF SignerKnown, On, SignerKinds
    <3> QED BY <1>2, <3>1, <3>2
  <2>5. SignerPlace(w)'
    BY <1>1, <2>2, <2>4 DEF SignerPlace, SameOwner
  <2>6. SignerAwaited(w)'
    BY <1>1 DEF SignerAwaited
  <2> QED BY <2>3, <2>5, <2>6
<1>10. WalletInv(w)'
  BY <1>1, <1>3, <1>4, <1>6, <1>7, <1>8, <1>9 DEF WalletInv, Calm, Covered
<1>11. SellerKept(w)
  BY <1>5 DEF SellerKept, WalletInv
<1> QED BY <1>10, <1>11 DEF Kept

-----------------------------------------------------------------------------
(* What each method does to the names.                                     *)

LEMMA ChainAlone ==
    ASSUME NEW w \in Wallets, NEW c \in Slots,
           \/ \E kind \in Kind, method \in Method : Fresh(c, kind, method, w)
           \/ Ends(c) /\ chains[c].wallet = w
           \/ GoesOn(c) /\ chains[c].wallet = w
    PROVE  Alone(c, w)
BY DEF Alone, Fresh, Ends, GoesOn, InFlight

\* Nothing but the chains and the sales changes.
LEMMA NamesSame ==
    ASSUME NEW w \in Wallets, UNCHANGED <<nameVars, reclaim_pending, ownershipVars>>
    PROVE  SameName(w) /\ SameLock(w) /\ SameOwner(w)
BY DEF nameVars, ownershipVars, SameName, SameLock, SameOwner

LEMMA AdvertiseKeeps ==
    ASSUME TypeInv, TenancyInv, NEW c \in Slots, NEW u \in Users, NEW w \in Wallets, NEW k \in Keys,
           Advertise(c, u, w, k)
    PROVE  \A v \in Wallets : Kept(v)
<1>1. /\ \E kind \in QueryKinds : Fresh(c, kind, "query", w)
      /\ UNCHANGED <<tlas, nameVars, saleVars, reclaim_pending, worldVars>>
  <2>1. ASSUME NEW p \in Prices, list_sub_account(c, u, w, p, k)
        PROVE  /\ \E kind \in QueryKinds : Fresh(c, kind, "query", w)
               /\ UNCHANGED <<tlas, nameVars, saleVars, reclaim_pending, worldVars>>
    BY <2>1, ListStarts DEF list_sub_account, QueryKinds
  <2>2. ASSUME NEW p \in Prices, NEW b \in Users, accept_offer(c, u, w, b, p, k)
        PROVE  /\ \E kind \in QueryKinds : Fresh(c, kind, "query", w)
               /\ UNCHANGED <<tlas, nameVars, saleVars, reclaim_pending, worldVars>>
    BY <2>2, OfferStarts DEF accept_offer, QueryKinds
  <2> QED BY <2>1, <2>2 DEF Advertise
<1>2. PICK kind \in QueryKinds : Fresh(c, kind, "query", w)
  BY <1>1
<1>3. Calm /\ \A v \in Wallets : SameName(v) /\ SameLock(v) /\ SameOwner(v) /\ SameSale(v)
  BY <1>1, NamesSame DEF Calm, worldVars, saleVars, SameSale
<1>4. Alone(c, w)
  BY <1>2, ChainAlone DEF QueryKinds, Kind, Method
<1>5. SaleIdle(w)' <=> SaleIdle(w)
  BY <1>1 DEF saleVars, SaleIdle
<1>7. Advertising(c, w)
  BY <1>2, <1>3, <1>5 DEF Advertising, Fresh, InFlight, SameSale
<1>8. Elsewhere(w)
  BY <1>3 DEF Elsewhere
<1> QED BY <1>3, <1>4, <1>7, <1>8, AdvertisingKeeps, OthersKeep DEF TenancyInv

\* A purchase is of a name whose lease has not ended, and not under a
\* Business TLA.
LEMMA SellableName ==
    ASSUME TypeInv, NEW w \in Wallets, assert_sellable(w)
    PROVE  Rented(w) /\ Tla(w) # None /\ ~OfBusiness(w) /\ ~Expired(w)
<1>1. /\ Rented(w) /\ Tla(w) # None /\ ~IsBusiness(TlaOf[w]) /\ Tla(w).status = "Active"
      /\ TlaLifecycle(TlaOf[w]) # "Reclaimable"
      /\ time_lifecycle(sub_accounts[w].expires_at) = "Active"
  BY DEF assert_sellable, effective_sub_lifecycle
<1>2. TlaOf[w] \in Tlas /\ now \in Nat /\ Grace \in Nat
  BY RegistryConstants DEF TypeInv, WorldOK
<1>3. sub_accounts[w].expires_at \in Nat /\ tlas[TlaOf[w]].expires_at \in Nat
  BY <1>1, <1>2, NameFields, TlaFields DEF TypeInv, Tla
<1>4. ~(now >= sub_accounts[w].expires_at + Grace)
  BY <1>1, <1>2, <1>3 DEF time_lifecycle
<1>5. ~(now >= Tla(w).expires_at + Grace)
  BY <1>1, <1>2, <1>3 DEF TlaLifecycle, time_lifecycle, Tla
<1> QED BY <1>1, <1>4, <1>5 DEF OfBusiness, Expired

LEMMA LockedElsewhere ==
    ASSUME SalesOK, NEW w \in Wallets, NEW b, LockTerms(w, b)
    PROVE  \A v \in Wallets \ {w} : SameSale(v)
BY DEF SalesOK, LockTerms, SameSale

LEMMA PurchaseKeeps ==
    ASSUME TypeInv, TenancyInv, NEW c \in Slots, NEW u \in Users, NEW w \in Wallets, NEW k \in Keys,
           Purchase(c, u, w, k)
    PROVE  \A v \in Wallets : Kept(v)
<1>1. /\ \E kind \in SaleKinds : Fresh(c, kind, GateMethod, w)
      /\ GateMethod \in {"balances", "transfer"}
      /\ SaleIdle(w) /\ ~SaleIdle(w)' /\ assert_sellable(w)
      /\ \E b \in Users : Terms(w, b) # None /\ LockTerms(w, b)
      /\ UNCHANGED <<tlas, nameVars, reclaim_pending, worldVars>>
  <2>1. ASSUME NEW d \in Payments, buy_sub_account(c, u, w, k, d)
        PROVE  <1>1!:
    BY <2>1, BuyStarts DEF buy_sub_account, SaleKinds, resolve_and_lock_sale
  <2>2. ASSUME NEW b \in Users, buy_sub_account_paid(c, u, b, w, k)
        PROVE  <1>1!:
    BY <2>2, BuyPaidStarts DEF buy_sub_account_paid, SaleKinds, resolve_and_lock_paid_sale
  <2> QED BY <2>1, <2>2 DEF Purchase
<1>2. PICK kind \in SaleKinds : Fresh(c, kind, GateMethod, w)
  BY <1>1
<1>3. PICK b \in Users : Terms(w, b) # None /\ LockTerms(w, b)
  BY <1>1
<1>4. GateMethod \in Method /\ kind \in Kind
  BY <1>1 DEF Method, Kind, SaleKinds
<1>5. Calm /\ \A v \in Wallets : SameName(v) /\ SameLock(v) /\ SameOwner(v)
  BY <1>1, NamesSame DEF Calm, worldVars
<1>6. Alone(c, w)
  BY <1>2, <1>4, ChainAlone
<1>7. Elsewhere(w)
  BY <1>3, <1>5, LockedElsewhere DEF Elsewhere, TypeInv
<1>8. listings[w] # None \/ accepted_offers[w] # None
  BY <1>3 DEF Terms, HasOffer
<1>9. Buying(c, w)
  BY <1>1, <1>2, <1>4, <1>5, <1>8, SellableName DEF Buying
<1> QED BY <1>5, <1>6, <1>7, <1>9, BuyingKeeps, OthersKeep DEF TenancyInv

LEMMA WithdrawalKeeps ==
    ASSUME TypeInv, TenancyInv, NEW u \in Users, NEW w \in Wallets,
           unlist_sub_account(u, w) \/ revoke_offer(u, w)
    PROVE  \A v \in Wallets : Kept(v)
<1>1. /\ UNCHANGED <<tlas, nameVars, reclaim_pending, worldVars, chains>>
      /\ SaleIdle(w)
      /\ \/ listings' = [listings EXCEPT ![w] = None] /\ UNCHANGED accepted_offers
         \/ accepted_offers' = [accepted_offers EXCEPT ![w] = None] /\ UNCHANGED listings
  BY DEF unlist_sub_account, revoke_offer
<1>2. Calm /\ \A v \in Wallets : SameName(v) /\ SameLock(v) /\ SameOwner(v)
  BY <1>1, NamesSame DEF Calm, worldVars
<1>3. /\ listings'[w] \in {None, listings[w]} /\ accepted_offers'[w] \in {None, accepted_offers[w]}
      /\ \A v \in Wallets \ {w} : SameSale(v)
  BY <1>1 DEF SameSale, TypeInv, SalesOK
<1>4. Unlisting(w)
  BY <1>1, <1>2, <1>3 DEF Unlisting, SaleIdle
<1>5. Elsewhere(w)
  BY <1>2, <1>3 DEF Elsewhere
<1> QED BY <1>1, <1>2, <1>4, <1>5, UnlistingKeeps, OthersKeep DEF TenancyInv

\* The callbacks that write a listing or an offer do so for a key that the
\* signer knows.
LEMMA VerifiedKeeps ==
    ASSUME TypeInv, TenancyInv, NEW c \in Slots, on_listing_verified(c) \/ on_offer_verified(c)
    PROVE  \A v \in Wallets : Kept(v)
<1>1. /\ UNCHANGED <<tlas, nameVars, reclaim_pending, worldVars>> /\ End(c)
      /\ CallbackDue(c, QueryKinds, {"query"})
  BY DEF on_listing_verified, on_offer_verified, CallbackDue, QueryKinds
<1>2. GoodChain(chains[c]) /\ InFlight(c) /\ chains[c].kind \in QueryKinds
  BY <1>1, CallbackTyped DEF TypeInv
<1>3. PICK w \in Wallets : chains[c].wallet = w
  BY <1>2 DEF GoodChain, QueryKinds
<1>4. On(c, w, QueryKinds) /\ Ends(c) /\ chains[c].result # "pending" /\ chains[c].key \in Keys
  BY <1>1, <1>2, <1>3, ChainEnds DEF TypeInv, GoodChain, QueryKinds, On, Ends, CallbackDue
<1>5. Calm /\ \A v \in Wallets : SameName(v) /\ SameLock(v) /\ SameOwner(v)
  BY <1>1, NamesSame DEF Calm, worldVars
<1>6. StillSelling(chains[c]) => owner[w] # None
  BY <1>4 DEF StillSelling, TenancyInv, WalletInv, SignerKnown
<1>7. /\ \A v \in Wallets \ {w} : SameSale(v)
      /\ SaleIdle(w)' <=> SaleIdle(w)
      /\ (listings'[w] # None \/ accepted_offers'[w] # None) =>
           listings[w] # None \/ accepted_offers[w] # None \/ StillSelling(chains[c])
  <2>1. CASE on_listing_verified(c)
    <3>1. /\ UNCHANGED accepted_offers
          /\ \/ UNCHANGED listings
             \/ /\ StillSelling(chains[c]) /\ ~(listings[w] # None /\ listings[w].settling)
                /\ listings' = [listings EXCEPT ![w] =
                                  [price |-> chains[c].price, settling |-> FALSE,
                                   owner_key |-> chains[c].key]]
      BY <1>3, <2>1 DEF on_listing_verified
    <3>2. CASE UNCHANGED listings
      BY <3>1, <3>2 DEF SameSale, SaleIdle
    <3>3. CASE ~UNCHANGED listings
      <4>1. listings'[w].settling = FALSE /\ ~(listings[w] # None /\ listings[w].settling)
        BY <3>1, <3>3 DEF TypeInv, SalesOK
      <4> QED BY <3>1, <3>3, <4>1 DEF SameSale, SaleIdle, TypeInv, SalesOK
    <3> QED BY <3>2, <3>3
  <2>2. CASE on_offer_verified(c)
    <3>1. /\ UNCHANGED listings
          /\ \/ UNCHANGED accepted_offers
             \/ /\ StillSelling(chains[c])
                /\ ~(accepted_offers[w] # None /\ accepted_offers[w].settling)
                /\ accepted_offers' = [accepted_offers EXCEPT ![w] =
                                         [buyer |-> chains[c].other, price |-> chains[c].price,
                                          settling |-> FALSE, owner_key |-> chains[c].key]]
      BY <1>3, <2>2 DEF on_offer_verified
    <3>2. CASE UNCHANGED accepted_offers
      BY <3>1, <3>2 DEF SameSale, SaleIdle
    <3>3. CASE ~UNCHANGED accepted_offers
      <4>1. /\ accepted_offers'[w].settling = FALSE
            /\ ~(accepted_offers[w] # None /\ accepted_offers[w].settling)
        BY <3>1, <3>3 DEF TypeInv, SalesOK
      <4> QED BY <3>1, <3>3, <4>1 DEF SameSale, SaleIdle, TypeInv, SalesOK
    <3> QED BY <3>2, <3>3
  <2> QED BY <2>1, <2>2
<1>8. Advertising(c, w)
  BY <1>4, <1>5, <1>6, <1>7 DEF Advertising, Ends, InFlight
<1>9. Elsewhere(w) /\ Alone(c, w)
  BY <1>3, <1>4, <1>5, <1>7, ChainAlone DEF Elsewhere
<1> QED BY <1>5, <1>8, <1>9, AdvertisingKeeps, OthersKeep DEF TenancyInv

\* What other contracts do, the keys apart.
LEMMA OthersSame ==
    ASSUME UNCHANGED unchangedByOthers
    PROVE  Calm /\ \A v \in Wallets : SameName(v) /\ SameSale(v) /\ SameLock(v)
BY DEF unchangedByOthers, Calm, nameVars, saleVars, SameName, SameSale, SameLock

LEMMA QueryKeeps ==
    ASSUME TypeInv, TenancyInv, NEW c \in Slots, RunQuery(c)
    PROVE  \A v \in Wallets : Kept(v)
<1>1. /\ UNCHANGED <<unchangedByOthers, ownershipVars>> /\ Pending(c, "query")
      /\ \E result \in {owner[chains[c].wallet], "err"} : AnsweredWith(c, result)
  BY DEF RunQuery
<1>2. /\ GoodChain(chains[c]) /\ InFlight(c) /\ chains[c].kind \in Kind
      /\ "query" \in MethodsOf(chains[c].kind)
  BY <1>1, PendingTyped DEF TypeInv
<1>3. chains[c].kind \in QueryKinds
  BY <1>2, WhoseMethod DEF QueryKinds
<1>4. PICK w \in Wallets : chains[c].wallet = w
  BY <1>2, <1>3 DEF GoodChain, QueryKinds
<1>5. GoesOn(c) /\ chains'[c].result \in {owner[w], "err"}
  <2>1. PICK result \in {owner[w], "err"} : AnsweredWith(c, result)
    BY <1>1, <1>4
  <2>2. owner[w] \in KeyOrNone
    BY DEF TypeInv, OwnersOK
  <2>3. result \in Replies("query") /\ InFlight(c) /\ chains[c].method = "query"
    BY <1>1, <2>1, <2>2 DEF Replies, Pending
  <2> QED BY <2>1, <2>3, ChainAnswered DEF TypeInv
<1>6. /\ Calm /\ \A v \in Wallets : SameName(v) /\ SameSale(v) /\ SameLock(v)
      /\ \A v \in Wallets : SameOwner(v)
  BY <1>1, OthersSame DEF ownershipVars, SameOwner
<1>7. SaleIdle(w)' <=> SaleIdle(w)
  BY <1>6 DEF SaleIdle, SameSale
<1>8. chains'[c].result \in Keys => owner[w] # None
  BY <1>5, AccountConstants, RegistryNone
<1>9. Advertising(c, w)
  BY <1>3, <1>4, <1>5, <1>6, <1>7, <1>8 DEF Advertising, GoesOn, On, SameSale
<1>10. Elsewhere(w) /\ Alone(c, w)
  BY <1>4, <1>5, <1>6, ChainAlone DEF Elsewhere
<1> QED BY <1>6, <1>9, <1>10, AdvertisingKeeps, OthersKeep DEF TenancyInv

\* The sales of a name that is sold are gone; otherwise they are free again.
LEMMA ClearedSales ==
    ASSUME SalesOK, NEW w \in Wallets, NEW sold, OrClear(w, sold)
    PROVE  /\ SaleIdle(w)'
           /\ listings'[w] # None => listings[w] # None
           /\ accepted_offers'[w] # None => accepted_offers[w] # None
           /\ \A v \in Wallets \ {w} : SameSale(v)
<1>1. CASE sold
  BY <1>1 DEF OrClear, SalesOK, SaleIdle, SameSale
<1>2. CASE ~sold
  <2>1. /\ listings'[w] = Unlocked(listings[w]) /\ accepted_offers'[w] = Unlocked(accepted_offers[w])
        /\ \A v \in Wallets \ {w} : SameSale(v)
    BY <1>2 DEF OrClear, clear_settling, SalesOK, SameSale
  <2>2. /\ listings[w] = None => Unlocked(listings[w]) = None
        /\ listings[w] # None => Unlocked(listings[w]).settling = FALSE
    BY SaleFields DEF Unlocked, Listing
  <2>3. /\ accepted_offers[w] = None => Unlocked(accepted_offers[w]) = None
        /\ accepted_offers[w] # None => Unlocked(accepted_offers[w]).settling = FALSE
    BY SaleFields DEF Unlocked, AcceptedOffer
  <2> QED BY <2>1, <2>2, <2>3 DEF SaleIdle
<1> QED BY <1>1, <1>2

\* The chain of a callback that is due, and the name it is about.
LEMMA CallbackName ==
    ASSUME TypeInv, NEW c \in Slots, NEW kinds, NEW methods, CallbackDue(c, kinds, methods),
           "claim" \notin kinds
    PROVE  \E w \in Wallets :
             /\ chains[c].wallet = w /\ On(c, w, kinds) /\ chains[c].method \in methods
             /\ chains[c].result \in Replies(chains[c].method)
             /\ chains[c].method \in MethodsOf(chains[c].kind)
<1>1. /\ InFlight(c) /\ GoodChain(chains[c])
      /\ chains[c].kind \in kinds /\ chains[c].method \in methods
      /\ chains[c].result \in Replies(chains[c].method)
  BY CallbackTyped DEF TypeInv
<1> QED BY <1>1 DEF GoodChain, On

\* The end of a sale, at the gate or at the settlement.
LEMMA SaleEndKeeps ==
    ASSUME TypeInv, TenancyInv, NEW c \in Slots, NEW w \in Wallets, On(c, w, SaleKinds), End(c),
           NEW sold, OrClear(w, sold),
           \/ UNCHANGED sub_accounts
           \/ /\ Rented(w)
              /\ \E o \in Users, m \in Accounts : sub_accounts' = NewTenant(w, o, m),
           UNCHANGED <<tlas, parked_names, signer_pending, reclaim_pending, worldVars>>
    PROVE  \A v \in Wallets : Kept(v)
<1>1. Ends(c) /\ Alone(c, w)
  BY ChainEnds, ChainAlone DEF On, Ends, TypeInv
<1>2. Calm /\ \A v \in Wallets : SameLock(v) /\ SameOwner(v)
  BY DEF Calm, worldVars, ownershipVars, SameLock, SameOwner
<1>3. SameLease(w) /\ \A v \in Wallets \ {w} : SameName(v)
  <2>1. CASE UNCHANGED sub_accounts
    BY <2>1 DEF SameLease, SameName, Rented
  <2>2. ASSUME NEW o \in Users, NEW m \in Accounts, Rented(w), sub_accounts' = NewTenant(w, o, m)
        PROVE  SameLease(w) /\ \A v \in Wallets \ {w} : SameName(v)
    <3>1. /\ sub_accounts'[w].expires_at = sub_accounts[w].expires_at
          /\ sub_accounts'[w].retraction_at = sub_accounts[w].retraction_at
          /\ \A v \in Wallets \ {w} : sub_accounts'[v] = sub_accounts[v]
          /\ Rented(w)' <=> Rented(w)
      BY <2>2, TenantChange DEF TypeInv
    <3> QED BY <3>1 DEF SameLease, SameName
  <2> QED BY <2>1, <2>2
<1>4. /\ SaleIdle(w)'
      /\ listings'[w] # None => listings[w] # None
      /\ accepted_offers'[w] # None => accepted_offers[w] # None
      /\ \A v \in Wallets \ {w} : SameSale(v)
  BY ClearedSales DEF TypeInv
<1>5. SaleOver(c, w)
  BY <1>1, <1>2, <1>3, <1>4 DEF SaleOver
<1>6. Elsewhere(w)
  BY <1>2, <1>3, <1>4 DEF Elsewhere
<1> QED BY <1>1, <1>2, <1>5, <1>6, SaleOverKeeps, OthersKeep DEF TenancyInv

LEMMA SoldKeeps ==
    ASSUME TypeInv, TenancyInv, NEW c \in Slots,
           on_sub_account_sold(c) \/ on_sub_account_sold_paid(c)
    PROVE  \A v \in Wallets : Kept(v)
<1>1. CallbackDue(c, SaleKinds, {"transfer"}) /\ End(c)
  BY DEF on_sub_account_sold, on_sub_account_sold_paid, CallbackDue, SaleKinds
<1>2. PICK w \in Wallets : chains[c].wallet = w /\ On(c, w, SaleKinds)
  BY <1>1, CallbackName DEF SaleKinds
<1>3. GoodChain(chains[c])
  BY <1>1, CallbackTyped DEF TypeInv
<1>4. /\ OrClear(w, Sold(chains[c]))
      /\ UNCHANGED <<tlas, parked_names, signer_pending, reclaim_pending, worldVars>>
      /\ \/ UNCHANGED sub_accounts
         \/ /\ Rented(w)
            /\ \E o \in Users, m \in Accounts : sub_accounts' = NewTenant(w, o, m)
  <2>1. CASE on_sub_account_sold(c)
    <3>1. chains[c].user \in Users /\ Users \subseteq Accounts
      BY <1>3, <2>1 DEF GoodChain, Accounts, on_sub_account_sold, CallbackDue
    <3> QED BY <1>2, <2>1, <3>1 DEF on_sub_account_sold, Sold
  <2>2. CASE on_sub_account_sold_paid(c)
    <3>1. chains[c].user \in Users /\ chains[c].other \in Users /\ Users \subseteq Accounts
      BY <1>3, <2>2 DEF GoodChain, Accounts, on_sub_account_sold_paid, CallbackDue
    <3> QED BY <1>2, <2>2, <3>1 DEF on_sub_account_sold_paid, Sold
  <2> QED BY <2>1, <2>2
<1> QED BY <1>1, <1>2, <1>4, SaleEndKeeps

\* A chain that goes on and brings no news.
LEMMA MoveKeeps ==
    ASSUME TypeInv, TenancyInv, NEW c \in Slots, NEW w \in Wallets, Moving(c, w), Calm,
           \A v \in Wallets : SameName(v) /\ SameSale(v) /\ SameLock(v) /\ SameOwner(v)
    PROVE  \A v \in Wallets : Kept(v)
<1>1. Elsewhere(w) /\ Alone(c, w)
  BY ChainAlone DEF Elsewhere, Moving
<1> QED BY <1>1, MovingKeeps, OthersKeep DEF TenancyInv

LEMMA BuyGateKeeps ==
    ASSUME TypeInv, TenancyInv, NEW c \in Slots,
           on_buy_balances_checked(c) \/ on_buy_paid_balances_checked(c)
    PROVE  \A v \in Wallets : Kept(v)
<1>1. /\ CallbackDue(c, SaleKinds, {"balances"})
      /\ UNCHANGED <<tlas, nameVars, reclaim_pending, worldVars>>
      /\ \/ clear_settling(chains[c].wallet) /\ End(c)
         \/ Proceed(c, "transfer") /\ UNCHANGED saleVars
  BY DEF on_buy_balances_checked, on_buy_paid_balances_checked, CallbackDue, SaleKinds, abort_sale
<1>2. PICK w \in Wallets : /\ chains[c].wallet = w /\ On(c, w, SaleKinds)
                           /\ chains[c].method = "balances"
                           /\ chains[c].result \in Replies("balances")
  BY <1>1, CallbackName DEF SaleKinds
<1>3. CASE clear_settling(w) /\ End(c)
  <2>1. OrClear(w, FALSE)
    BY <1>3 DEF OrClear
  <2> QED BY <1>1, <1>2, <1>3, <2>1, SaleEndKeeps DEF nameVars
<1>4. CASE Proceed(c, "transfer") /\ UNCHANGED saleVars
  <2>1. chains[c].kind \in SaleKinds /\ InFlight(c) /\ "transfer" \in MethodsOf(chains[c].kind)
    BY <1>2, MethodFacts DEF On, SaleKinds
  <2>2. GoesOn(c) /\ chains'[c].result = "pending"
    BY <1>4, <2>1, ChainProceeds DEF TypeInv, SaleKinds
  <2>3. Calm /\ \A v \in Wallets : SameName(v) /\ SameSale(v) /\ SameLock(v) /\ SameOwner(v)
    BY <1>1, <1>4, NamesSame DEF Calm, worldVars, saleVars, SameSale
  <2>4. Moving(c, w)
    BY <1>2, <2>1, <2>2, <2>3 DEF Moving, SaleKinds, QueryKinds, MintKinds, Replies
  <2> QED BY <2>3, <2>4, MoveKeeps
<1> QED BY <1>1, <1>2, <1>3, <1>4

LEMMA RentRenting ==
    ASSUME TypeInv, NEW c \in Slots, NEW u \in Users, NEW w \in Wallets, NEW k \in Keys,
           NEW m \in Accounts, NEW paid \in Payments,
           rent_sub_account(c, u, w, k, m, paid) \/ rent_sub_account_paid(c, u, w, k, m, paid)
    PROVE  /\ Renting(c, w) /\ Calm
           /\ UNCHANGED <<parked_names, signer_pending, saleVars, reclaim_pending, owner>>
           /\ \A v \in Wallets \ {w} : sub_accounts'[v] = sub_accounts[v]
<1>1. /\ ~Rented(w) /\ is_accepting_rentals(TlaOf[w]) /\ SetEntry(w, NewEntry(u, m))
      /\ UNCHANGED <<tlas, parked_names, signer_pending, saleVars, reclaim_pending, worldVars>>
  BY DEF rent_sub_account, rent_sub_account_paid, Enter, SetEntry
<1>2. \E kind \in RentalKinds, method \in Method :
        Fresh(c, kind, method, w) /\ (kind = "rerent" <=> w \in parked_names)
  <2>1. CASE rent_sub_account(c, u, w, k, m, paid)
    BY <2>1, RentStarts DEF RentalKinds, Method
  <2>2. CASE rent_sub_account_paid(c, u, w, k, m, paid)
    <3>1. w \notin parked_names
      BY <2>2 DEF rent_sub_account_paid
    <3> QED BY <2>2, <3>1, RentPaidStarts DEF RentalKinds, Method
  <2> QED BY <2>1, <2>2
<1>3. /\ Rented(w)' /\ sub_accounts'[w] = NewEntry(u, m)
      /\ \A v \in Wallets \ {w} : sub_accounts'[v] = sub_accounts[v]
  BY <1>1, NewEntryType, EntryChange DEF TypeInv
<1>4. sub_accounts'[w].expires_at = now + Year /\ sub_accounts'[w].retraction_at = None
  BY <1>3 DEF NewEntry
<1>5. Calm /\ \A v \in Wallets : SameSale(v) /\ SameLock(v) /\ SameOwner(v)
  BY <1>1 DEF Calm, worldVars, ownershipVars, saleVars, SameSale, SameLock, SameOwner
<1>6. Tla(w) # None /\ Tla(w).status = "Active" /\ now < Tla(w).expires_at
  BY <1>1 DEF is_accepting_rentals, Tla
<1>7. Renting(c, w)
  BY <1>1, <1>2, <1>3, <1>4, <1>5, <1>6 DEF Renting
<1> QED BY <1>1, <1>3, <1>5, <1>7 DEF worldVars, ownershipVars

LEMMA RentKeeps ==
    ASSUME TypeInv, TenancyInv, NEW c \in Slots, NEW u \in Users, NEW w \in Wallets, NEW k \in Keys,
           NEW m \in Accounts, NEW paid \in Payments,
           rent_sub_account(c, u, w, k, m, paid) \/ rent_sub_account_paid(c, u, w, k, m, paid)
    PROVE  \A v \in Wallets : Kept(v)
<1>1. /\ Renting(c, w) /\ Calm
      /\ UNCHANGED <<parked_names, signer_pending, saleVars, reclaim_pending, owner>>
      /\ \A v \in Wallets \ {w} : sub_accounts'[v] = sub_accounts[v]
  BY RentRenting
<1>2. Elsewhere(w)
  BY <1>1 DEF Elsewhere, SameName, SameSale, saleVars, SameLock, SameOwner
<1>3. Alone(c, w)
  BY <1>1, ChainAlone DEF Renting, RentalKinds, Kind
<1> QED BY <1>1, <1>2, <1>3, RentingKeeps, OthersKeep DEF TenancyInv

\* The end of a mint or of a re-rent that failed.
LEMMA FailedKeeps ==
    ASSUME TypeInv, TenancyInv, NEW c \in Slots, NEW w \in Wallets, On(c, w, RentalKinds),
           chains[c].kind # "rerent" => chains[c].result # "Active",
           settle_failed_mint(c), End(c), UNCHANGED <<tlas, saleVars, reclaim_pending, worldVars>>
    PROVE  \A v \in Wallets : Kept(v)
<1>1. Ends(c) /\ Alone(c, w)
  BY ChainEnds, ChainAlone DEF On, Ends, TypeInv
<1>2. SetEntry(w, None) /\ UNCHANGED <<parked_names, signer_pending>>
  BY DEF settle_failed_mint, SetEntry, On
<1>3. ~Rented(w)' /\ \A v \in Wallets \ {w} : sub_accounts'[v] = sub_accounts[v]
  BY <1>2, EntryChange DEF TypeInv
<1>4. Calm /\ \A v \in Wallets : SameSale(v) /\ SameLock(v) /\ SameOwner(v)
  BY DEF Calm, worldVars, ownershipVars, saleVars, SameSale, SameLock, SameOwner
<1>5. Failing(c, w)
  BY <1>1, <1>2, <1>3, <1>4 DEF Failing
<1>6. Elsewhere(w)
  BY <1>2, <1>3, <1>4 DEF Elsewhere, SameName
<1> QED BY <1>1, <1>4, <1>5, <1>6, FailingKeeps, OthersKeep DEF TenancyInv

LEMMA CreatedKeeps ==
    ASSUME TypeInv, TenancyInv, NEW c \in Slots,
           on_sub_account_created(c) \/ on_sub_account_created_paid(c)
    PROVE  \A v \in Wallets : Kept(v)
<1>1. /\ CallbackDue(c, MintKinds, {"create", "install", "return"}) /\ End(c)
      /\ IF chains[c].result \in {"Active", "SignerPending"}
           THEN RecordRental(c)
           ELSE settle_failed_mint(c)
      /\ UNCHANGED <<tlas, saleVars, reclaim_pending, worldVars>>
  BY DEF on_sub_account_created, on_sub_account_created_paid, Created, CallbackDue, MintKinds
<1>2. PICK w \in Wallets :
        /\ chains[c].wallet = w /\ On(c, w, MintKinds)
        /\ chains[c].result \in Replies(chains[c].method)
        /\ chains[c].method \in MethodsOf(chains[c].kind)
  BY <1>1, CallbackName DEF MintKinds
<1>3. On(c, w, RentalKinds) /\ chains[c].kind # "rerent"
  BY <1>2 DEF On, MintKinds, RentalKinds
<1>4. CASE chains[c].result \notin {"Active", "SignerPending"}
  BY <1>1, <1>3, <1>4, FailedKeeps
<1>5. CASE chains[c].result \in {"Active", "SignerPending"}
  <2>1. /\ UNCHANGED <<sub_accounts, parked_names>>
        /\ signer_pending' = IF Rented(w) /\ chains[c].result = "SignerPending"
                               THEN [signer_pending EXCEPT ![w] = chains[c].key]
                               ELSE signer_pending
    BY <1>1, <1>2, <1>5 DEF RecordRental
  <2>2. chains[c].key \in Keys /\ None \notin Keys
    <3>1. GoodChain(chains[c])
      BY <1>1, CallbackTyped DEF TypeInv
    <3> QED BY <1>2, <3>1, AccountConstants DEF GoodChain, On, MintKinds
  <2>3. Ends(c) /\ Alone(c, w)
    BY <1>1, <1>2, ChainEnds, ChainAlone DEF On, Ends, TypeInv
  <2>4. Calm /\ \A v \in Wallets : SameSale(v) /\ SameLock(v) /\ SameOwner(v)
    BY <1>1 DEF Calm, worldVars, ownershipVars, saleVars, SameSale, SameLock, SameOwner
  <2>5. /\ signer_pending'[w] = IF Rented(w) /\ chains[c].result = "SignerPending"
                                  THEN chains[c].key
                                  ELSE signer_pending[w]
        /\ \A v \in Wallets \ {w} : signer_pending'[v] = signer_pending[v]
    BY <2>1 DEF TypeInv, NamesOK
  <2>6. Settling(c, w)
    BY <1>2, <1>3, <1>5, <2>1, <2>2, <2>3, <2>4, <2>5 DEF Settling
  <2>7. Elsewhere(w)
    BY <2>1, <2>4, <2>5 DEF Elsewhere, SameName
  <2> QED BY <2>3, <2>4, <2>6, <2>7, SettlingKeeps, OthersKeep DEF TenancyInv
<1> QED BY <1>4, <1>5

LEMMA ReRentGateKeeps ==
    ASSUME TypeInv, TenancyInv, NEW c \in Slots, on_re_rent_balances_checked(c)
    PROVE  \A v \in Wallets : Kept(v)
<1>1. /\ CallbackDue(c, {"rerent"}, {"balances"})
      /\ UNCHANGED <<tlas, saleVars, reclaim_pending, worldVars>>
      /\ \/ settle_failed_mint(c) /\ End(c)
         \/ Proceed(c, "transfer") /\ UNCHANGED nameVars
  BY DEF on_re_rent_balances_checked
<1>2. PICK w \in Wallets : /\ chains[c].wallet = w /\ On(c, w, {"rerent"})
                           /\ chains[c].method = "balances"
                           /\ chains[c].result \in Replies("balances")
  BY <1>1, CallbackName
<1>3. On(c, w, RentalKinds) /\ chains[c].kind = "rerent" /\ InFlight(c)
  BY <1>2 DEF On, RentalKinds
<1>4. CASE settle_failed_mint(c) /\ End(c)
  BY <1>1, <1>3, <1>4, FailedKeeps
<1>5. CASE Proceed(c, "transfer") /\ UNCHANGED nameVars
  <2>1. "transfer" \in MethodsOf(chains[c].kind)
    BY <1>3, MethodFacts
  <2>2. GoesOn(c) /\ chains'[c].result = "pending"
    BY <1>3, <1>5, <2>1, ChainProceeds DEF TypeInv
  <2>3. Calm /\ \A v \in Wallets : SameName(v) /\ SameSale(v) /\ SameLock(v) /\ SameOwner(v)
    BY <1>1, <1>5, NamesSame DEF Calm, worldVars, saleVars, SameSale
  <2>4. Moving(c, w)
    BY <1>2, <1>3, <2>2, <2>3 DEF Moving, QueryKinds, MintKinds, Replies
  <2> QED BY <2>3, <2>4, MoveKeeps
<1> QED BY <1>1, <1>4, <1>5

LEMMA ReRentedKeeps ==
    ASSUME TypeInv, TenancyInv, NEW c \in Slots, on_sub_account_re_rented(c)
    PROVE  \A v \in Wallets : Kept(v)
<1>1. /\ CallbackDue(c, {"rerent"}, {"transfer"}) /\ End(c)
      /\ UNCHANGED <<tlas, saleVars, reclaim_pending, worldVars>>
      /\ \/ settle_failed_mint(c)
         \/ /\ parked_names' = parked_names \ {chains[c].wallet}
            /\ UNCHANGED <<sub_accounts, signer_pending>>
  BY DEF on_sub_account_re_rented
<1>2. PICK w \in Wallets : /\ chains[c].wallet = w /\ On(c, w, {"rerent"})
                           /\ chains[c].result \in Replies(chains[c].method)
                           /\ chains[c].method \in MethodsOf(chains[c].kind)
  BY <1>1, CallbackName
<1>3. On(c, w, RentalKinds) /\ chains[c].kind = "rerent" /\ InFlight(c)
  BY <1>2 DEF On, RentalKinds
<1>4. CASE settle_failed_mint(c)
  BY <1>1, <1>3, <1>4, FailedKeeps
<1>5. CASE parked_names' = parked_names \ {w} /\ UNCHANGED <<sub_accounts, signer_pending>>
  <2>1. Ends(c) /\ Alone(c, w)
    BY <1>1, <1>2, <1>3, ChainEnds, ChainAlone DEF Ends, TypeInv
  <2>2. Calm /\ \A v \in Wallets : SameSale(v) /\ SameLock(v) /\ SameOwner(v)
    BY <1>1 DEF Calm, worldVars, ownershipVars, saleVars, SameSale, SameLock, SameOwner
  <2>3. Settling(c, w)
    BY <1>2, <1>3, <1>5, <2>1, <2>2 DEF Settling
  <2>4. Elsewhere(w)
    BY <1>5, <2>2 DEF Elsewhere, SameName
  <2> QED BY <2>1, <2>2, <2>3, <2>4, SettlingKeeps, OthersKeep DEF TenancyInv
<1> QED BY <1>1, <1>2, <1>4, <1>5

\* A change of the entry by its tenant.
LEMMA EditKeeps ==
    ASSUME TypeInv, TenancyInv, NEW w \in Wallets, Rented(w), NEW e \in SubAccountEntry,
           SetEntry(w, e),
           e.expires_at >= sub_accounts[w].expires_at,
           now >= sub_accounts[w].expires_at + Grace => e.expires_at = sub_accounts[w].expires_at,
           \/ e.retraction_at \in {None, sub_accounts[w].retraction_at}
           \/ OfBusiness(w) /\ e.retraction_at = now,
           \/ SaleIdle(w)
           \/ e.owner = sub_accounts[w].owner /\ e.main_wallet = sub_accounts[w].main_wallet,
           UNCHANGED <<tlas, parked_names, signer_pending, saleVars, reclaim_pending, chains,
                       worldVars>>
    PROVE  \A v \in Wallets : Kept(v)
<1>1. /\ sub_accounts'[w] = e /\ Rented(w)'
      /\ \A v \in Wallets \ {w} : sub_accounts'[v] = sub_accounts[v]
  BY EntryChange, RegistryNone DEF TypeInv
<1>2. Calm /\ \A v \in Wallets : SameSale(v) /\ SameLock(v) /\ SameOwner(v)
  BY DEF Calm, worldVars, ownershipVars, saleVars, SameSale, SameLock, SameOwner
<1>3. e.expires_at \in Nat
  BY DEF SubAccountEntry
<1>4. Editing(w)
  BY <1>1, <1>2, <1>3 DEF Editing
<1>5. Elsewhere(w)
  BY <1>1, <1>2 DEF Elsewhere, SameName
<1> QED BY <1>2, <1>4, <1>5, EditingKeeps, OthersKeep DEF TenancyInv

LEMMA MainWalletKeeps ==
    ASSUME TypeInv, TenancyInv, NEW u \in Users, NEW w \in Wallets, NEW m \in Accounts,
           set_main_wallet(u, w, m)
    PROVE  \A v \in Wallets : Kept(v)
<1>1. PICK e \in SubAccountEntry :
        /\ SetEntry(w, e) /\ Rented(w) /\ e.expires_at = sub_accounts[w].expires_at
        /\ e.retraction_at = sub_accounts[w].retraction_at
  BY MainWalletEntry
<1>2. /\ SaleIdle(w)
      /\ UNCHANGED <<tlas, parked_names, signer_pending, saleVars, reclaim_pending, chains,
                     worldVars>>
  BY DEF set_main_wallet
<1>3. sub_accounts[w].expires_at \in Nat
  BY <1>1, NameFields DEF TypeInv
<1>4. /\ e.expires_at >= sub_accounts[w].expires_at
      /\ e.retraction_at \in {None, sub_accounts[w].retraction_at}
  BY <1>1, <1>3
<1> QED BY <1>1, <1>2, <1>4, EditKeeps

LEMMA RenewKeeps ==
    ASSUME TypeInv, TenancyInv, NEW u \in Users, NEW w \in Wallets, NEW paid \in Payments,
           renew_sub_account(u, w, paid)
    PROVE  \A v \in Wallets : Kept(v)
<1>1. PICK e \in SubAccountEntry :
        /\ SetEntry(w, e) /\ Rented(w) /\ e.expires_at = Renewed(sub_accounts[w].expires_at)
        /\ e.owner = sub_accounts[w].owner /\ e.main_wallet = sub_accounts[w].main_wallet
        /\ e.retraction_at = sub_accounts[w].retraction_at
  BY RenewEntry
<1>2. /\ now < sub_accounts[w].expires_at + Grace
      /\ UNCHANGED <<tlas, parked_names, signer_pending, saleVars, reclaim_pending, chains,
                     worldVars>>
  BY DEF renew_sub_account
<1>3. sub_accounts[w].expires_at \in Nat /\ now \in Nat /\ Grace \in Nat
  BY <1>1, NameFields, RegistryConstants DEF TypeInv, WorldOK
<1>4. e.expires_at >= sub_accounts[w].expires_at
  BY <1>1, <1>3, RenewedIsLater DEF TypeInv
<1>5. ~(now >= sub_accounts[w].expires_at + Grace)
  BY <1>2, <1>3
<1>6. e.retraction_at \in {None, sub_accounts[w].retraction_at}
  BY <1>1
<1> QED BY <1>1, <1>2, <1>4, <1>5, <1>6, EditKeeps

LEMMA RetractKeeps ==
    ASSUME TypeInv, TenancyInv, NEW u \in Users, NEW w \in Wallets,
           schedule_retraction(u, w) \/ cancel_retraction(u, w)
    PROVE  \A v \in Wallets : Kept(v)
<1>1. PICK at \in Nat \cup {None} : /\ SetRetraction(w, at) /\ Rented(w)
                                    /\ at = None \/ (OfBusiness(w) /\ at = now)
  <2>1. CASE schedule_retraction(u, w)
    BY <2>1 DEF schedule_retraction, OfBusiness, TypeInv, WorldOK
  <2>2. CASE cancel_retraction(u, w)
    BY <2>2 DEF cancel_retraction
  <2> QED BY <2>1, <2>2
<1>2. PICK e \in SubAccountEntry :
        /\ SetEntry(w, e) /\ e.expires_at = sub_accounts[w].expires_at
        /\ e.owner = sub_accounts[w].owner /\ e.main_wallet = sub_accounts[w].main_wallet
        /\ e.retraction_at = at
  BY <1>1, RetractionEntry
<1>3. UNCHANGED <<tlas, parked_names, signer_pending, saleVars, reclaim_pending, chains, worldVars>>
  BY <1>1 DEF SetRetraction
<1>4. sub_accounts[w].expires_at \in Nat
  BY <1>1, NameFields DEF TypeInv
<1>5. /\ e.expires_at >= sub_accounts[w].expires_at
      /\ \/ e.retraction_at \in {None, sub_accounts[w].retraction_at}
         \/ OfBusiness(w) /\ e.retraction_at = now
  BY <1>1, <1>2, <1>4
<1> QED BY <1>1, <1>2, <1>3, <1>5, EditKeeps

LEMMA RetryKeeps ==
    ASSUME TypeInv, TenancyInv, NEW c \in Slots, NEW u \in Users, NEW w \in Wallets,
           retry_signer_install(c, u, w)
    PROVE  \A v \in Wallets : Kept(v)
<1>1. /\ Rented(w) /\ signer_pending[w] # None
      /\ UNCHANGED <<tlas, nameVars, saleVars, reclaim_pending, worldVars>>
  BY DEF retry_signer_install
<1>2. Fresh(c, "retry", "retry_install", w)
  BY RetryStarts
<1>3. Calm /\ \A v \in Wallets : SameName(v) /\ SameSale(v) /\ SameLock(v) /\ SameOwner(v)
  BY <1>1, NamesSame DEF Calm, worldVars, saleVars, SameSale
<1>4. Retrying(c, w) /\ Elsewhere(w)
  BY <1>1, <1>2, <1>3 DEF Retrying, Elsewhere
<1>5. Alone(c, w)
  BY <1>2, ChainAlone DEF Kind, Method
<1> QED BY <1>3, <1>4, <1>5, RetryingKeeps, OthersKeep DEF TenancyInv

LEMMA RetrySettledKeeps ==
    ASSUME TypeInv, TenancyInv, NEW c \in Slots, on_retry_signer_settled(c)
    PROVE  \A v \in Wallets : Kept(v)
<1>1. /\ CallbackDue(c, {"retry"}, Rekeying) /\ End(c)
      /\ UNCHANGED <<tlas, sub_accounts, parked_names, saleVars, reclaim_pending, worldVars>>
  BY DEF on_retry_signer_settled
<1>2. PICK w \in Wallets : chains[c].wallet = w /\ On(c, w, {"retry"})
  BY <1>1, CallbackName
<1>3. signer_pending' = IF chains[c].result = "ok" THEN [signer_pending EXCEPT ![w] = None]
                                                   ELSE signer_pending
  BY <1>2 DEF on_retry_signer_settled
<1>4. /\ signer_pending'[w] = IF chains[c].result = "ok" THEN None ELSE signer_pending[w]
      /\ \A v \in Wallets \ {w} : signer_pending'[v] = signer_pending[v]
  BY <1>3 DEF TypeInv, NamesOK
<1>5. Calm /\ \A v \in Wallets : SameSale(v) /\ SameLock(v) /\ SameOwner(v)
  BY <1>1 DEF Calm, worldVars, ownershipVars, saleVars, SameSale, SameLock, SameOwner
<1>6. Ends(c) /\ Alone(c, w)
  BY <1>1, <1>2, ChainEnds, ChainAlone DEF On, Ends, TypeInv
<1>7. Retried(c, w) /\ Elsewhere(w)
  BY <1>1, <1>2, <1>4, <1>5, <1>6 DEF Retried, Elsewhere, SameName
<1> QED BY <1>5, <1>6, <1>7, RetriedKeeps, OthersKeep DEF TenancyInv

LEMMA ReclaimKeeps ==
    ASSUME TypeInv, TenancyInv, NEW c \in Slots, NEW w \in Wallets, reclaim_finalize(c, w)
    PROVE  \A v \in Wallets : Kept(v)
<1>1. /\ SaleIdle(w) /\ resolve_reclaimable(w) /\ w \notin reclaim_pending
      /\ reclaim_pending' = reclaim_pending \cup {w}
      /\ UNCHANGED <<tlas, nameVars, saleVars, worldVars>>
  BY DEF reclaim_finalize
<1>2. \E method \in Method : /\ Fresh(c, "reclaim", method, w)
                             /\ method = "transfer" => signer_pending[w] = None
  <2>1. CASE ft_allowlist # {}
    BY <2>1, ReclaimStarts DEF Method
  <2>2. CASE ft_allowlist = {}
    <3>1. PICK m \in Rekeying : Fresh(c, "reclaim", m, w)
      BY <2>2, ReclaimStarts
    <3>2. chains'[c].method = ParkMethod(w)
      <4>1. /\ Start(c, [Chain("reclaim", ParkMethod(w), w) EXCEPT !.key = parked_signer_pubkey])
            /\ ParkMethod(w) \in Method
        BY <2>2 DEF reclaim_finalize, ParkMethod, Method
      <4>2. Chain("reclaim", ParkMethod(w), w) \in ChainRecord
            /\ Chain("reclaim", ParkMethod(w), w).method = ParkMethod(w)
        BY <4>1, ChainBase DEF TypeInv, Kind
      <4> QED BY <4>1, <4>2 DEF Start, TypeInv, ChainsOK, ChainRecord
    <3>3. m = ParkMethod(w)
      BY <3>1, <3>2 DEF Fresh
    <3> QED BY <3>1, <3>3 DEF ParkMethod, Rekeying, Method
  <2> QED BY <2>1, <2>2
<1>3. Calm /\ \A v \in Wallets : SameName(v) /\ SameSale(v) /\ SameOwner(v)
  BY <1>1 DEF Calm, worldVars, ownershipVars, nameVars, saleVars, SameName, SameSale, SameOwner
<1>4. ReclaimBegins(c, w)
  BY <1>1, <1>2, <1>3 DEF ReclaimBegins
<1>5. Elsewhere(w)
  BY <1>1, <1>3 DEF Elsewhere, SameLock
<1>6. Alone(c, w)
  BY <1>2, ChainAlone DEF Kind
<1> QED BY <1>3, <1>4, <1>5, <1>6, ReclaimBeginsKeeps, OthersKeep DEF TenancyInv

\* A reclaim that ends without the name.
LEMMA ReclaimEndKeeps ==
    ASSUME TypeInv, TenancyInv, NEW c \in Slots, NEW w \in Wallets, On(c, w, {"reclaim"}), End(c),
           chains[c].result # "ok" \/ ~Rented(w), reclaim_pending' = reclaim_pending \ {w},
           UNCHANGED <<tlas, nameVars, saleVars, worldVars>>
    PROVE  \A v \in Wallets : Kept(v)
<1>1. Ends(c) /\ Alone(c, w)
  BY ChainEnds, ChainAlone DEF On, Ends, TypeInv
<1>2. Calm /\ \A v \in Wallets : SameName(v) /\ SameSale(v) /\ SameOwner(v)
  BY DEF Calm, worldVars, ownershipVars, nameVars, saleVars, SameName, SameSale, SameOwner
<1>3. ReclaimEnds(c, w) /\ Elsewhere(w)
  BY <1>1, <1>2 DEF ReclaimEnds, Elsewhere, SameLock
<1> QED BY <1>1, <1>2, <1>3, ReclaimEndsKeeps, OthersKeep DEF TenancyInv

LEMMA ReclaimGateKeeps ==
    ASSUME TypeInv, TenancyInv, NEW c \in Slots, on_balances_checked(c)
    PROVE  \A v \in Wallets : Kept(v)
<1>1. CallbackDue(c, {"reclaim"}, {"balances"}) /\ UNCHANGED <<tlas, nameVars, saleVars, worldVars>>
  BY DEF on_balances_checked
<1>2. PICK w \in Wallets : /\ chains[c].wallet = w /\ On(c, w, {"reclaim"})
                           /\ chains[c].result \in Replies("balances")
  BY <1>1, CallbackName
<1>3. chains[c].result # "ok"
  BY <1>2 DEF Replies
<1>4. CASE SaleIdle(w) /\ chains[c].result = "clear" /\ resolve_reclaimable(w)
  <2>1. park_wallet(c) /\ UNCHANGED reclaim_pending
    BY <1>2, <1>4 DEF on_balances_checked
  <2>2. GoesOn(c) /\ chains'[c].method = ParkMethod(w) /\ chains'[c].result = "pending"
    BY <1>2, <2>1, ChainParks DEF TypeInv, On
  <2>3. Calm /\ \A v \in Wallets : SameName(v) /\ SameSale(v) /\ SameLock(v) /\ SameOwner(v)
    BY <1>1, <2>1, NamesSame DEF Calm, worldVars, saleVars, SameSale
  <2>4. chains'[c].method = "transfer" => signer_pending[w] = None
    BY <2>2 DEF ParkMethod
  <2>5. ReclaimPasses(c, w) /\ Elsewhere(w) /\ Alone(c, w)
    BY <1>2, <1>3, <1>4, <2>2, <2>3, <2>4, ChainAlone DEF ReclaimPasses, Elsewhere
  <2> QED BY <2>3, <2>5, ReclaimPassesKeeps, OthersKeep DEF TenancyInv
<1>5. CASE ~(SaleIdle(w) /\ chains[c].result = "clear" /\ resolve_reclaimable(w))
  <2>1. End(c) /\ reclaim_pending' = reclaim_pending \ {w}
    BY <1>2, <1>5 DEF on_balances_checked
  <2> QED BY <1>1, <1>2, <1>3, <2>1, ReclaimEndKeeps
<1> QED BY <1>4, <1>5

LEMMA ReclaimedKeeps ==
    ASSUME TypeInv, TenancyInv, NEW c \in Slots, on_reclaim_finalized(c)
    PROVE  \A v \in Wallets : Kept(v)
<1>1. CallbackDue(c, {"reclaim"}, Rekeying) /\ End(c) /\ UNCHANGED <<tlas, worldVars>>
  BY DEF on_reclaim_finalized
<1>2. PICK w \in Wallets : /\ chains[c].wallet = w /\ On(c, w, {"reclaim"})
                           /\ chains[c].method \in Rekeying
                           /\ chains[c].result \in Replies(chains[c].method)
  BY <1>1, CallbackName
<1>3. reclaim_pending' = reclaim_pending \ {w}
  BY <1>2 DEF on_reclaim_finalized
<1>4. CASE ~(chains[c].result # "err" /\ Rented(w))
  <2>1. UNCHANGED <<nameVars, saleVars>>
    BY <1>2, <1>4 DEF on_reclaim_finalized
  <2> QED BY <1>1, <1>2, <1>3, <1>4, <2>1, ReclaimEndKeeps
<1>5. CASE chains[c].result # "err" /\ Rented(w)
  <2>1. /\ SetEntry(w, None)
        /\ listings' = [listings EXCEPT ![w] = None]
        /\ accepted_offers' = [accepted_offers EXCEPT ![w] = None]
        /\ signer_pending' = [signer_pending EXCEPT ![w] = None]
        /\ parked_names' = parked_names \cup {w}
    BY <1>2, <1>5 DEF on_reclaim_finalized, SetEntry
  <2>2. /\ ~Rented(w)' /\ listings'[w] = None /\ accepted_offers'[w] = None
        /\ signer_pending'[w] = None /\ w \in parked_names'
        /\ \A v \in Wallets \ {w} : SameSale(v) /\ SameName(v)
    <3>1. ~Rented(w)' /\ \A v \in Wallets \ {w} : sub_accounts'[v] = sub_accounts[v]
      BY <2>1, EntryChange DEF TypeInv
    <3> QED BY <2>1, <3>1 DEF TypeInv, NamesOK, SalesOK, SameSale, SameName
  <2>3. Calm /\ \A v \in Wallets : SameOwner(v)
    BY <1>1 DEF Calm, worldVars, ownershipVars, SameOwner
  <2>4. Ends(c) /\ Alone(c, w)
    BY <1>1, <1>2, ChainEnds, ChainAlone DEF On, Ends, TypeInv
  <2>5. chains[c].method = "transfer" \/ chains[c].result = "ok"
    BY <1>2, <1>5 DEF Rekeying, Replies
  <2>6. Parking(c, w) /\ Elsewhere(w)
    BY <1>2, <1>3, <2>2, <2>3, <2>4, <2>5 DEF Parking, Elsewhere, SameLock
  <2> QED BY <2>3, <2>4, <2>6, ParkingKeeps, OthersKeep DEF TenancyInv
<1> QED BY <1>4, <1>5

LEMMA BalancesKeeps ==
    ASSUME TypeInv, TenancyInv, NEW c \in Slots, RunBalances(c)
    PROVE  \A v \in Wallets : Kept(v)
<1>1. /\ UNCHANGED <<unchangedByOthers, ownershipVars>> /\ Pending(c, "balances")
  BY DEF RunBalances
<1>2. /\ GoesOn(c) /\ chains'[c].method = "balances" /\ chains'[c].result \in {"blocked", "clear", "pending"}
      /\ chains[c].wallet \in Wallets
  BY BalancesAnswer
<1>3. PICK w \in Wallets : chains[c].wallet = w
  BY <1>2
<1>4. chains[c].kind \in {"buy", "buy_paid", "rerent", "reclaim"} /\ chains[c].result = "pending"
  BY <1>1, PendingTyped, WhoseMethod DEF TypeInv
<1>5. Calm /\ \A v \in Wallets : SameName(v) /\ SameSale(v) /\ SameLock(v) /\ SameOwner(v)
  BY <1>1, OthersSame DEF ownershipVars, SameOwner
<1>6. Moving(c, w)
  BY <1>2, <1>3, <1>4, <1>5 DEF Moving, QueryKinds, MintKinds, Rekeying
<1> QED BY <1>5, <1>6, MoveKeeps

LEMMA TransferKeeps ==
    ASSUME TypeInv, TenancyInv, NEW c \in Slots, RunForceTransfer(c)
    PROVE  \A v \in Wallets : Kept(v)
<1>1. UNCHANGED unchangedByOthers /\ Pending(c, "transfer")
  BY DEF RunForceTransfer
<1>2. PICK w \in Wallets : chains[c].wallet = w
  BY TransferAnswer
<1>3. /\ GoesOn(c) /\ chains'[c].method = "transfer" /\ chains'[c].result \in {"false", "err", "true"}
      /\ chains[c].method = "transfer"
      /\ \/ UNCHANGED ownershipVars
         \/ /\ owner[w] # None /\ owner'[w] # None
            /\ \A v \in Wallets \ {w} : owner'[v] = owner[v]
  BY <1>2, TransferAnswer
<1>4. chains[c].kind \in {"buy", "buy_paid", "rerent", "reclaim"} /\ chains[c].result = "pending"
  BY <1>1, PendingTyped, WhoseMethod DEF TypeInv
<1>5. Calm /\ \A v \in Wallets : SameName(v) /\ SameSale(v) /\ SameLock(v) /\ SameOwner(v)
  BY <1>1, <1>3, OthersSame DEF ownershipVars, SameOwner
<1>6. Moving(c, w)
  BY <1>2, <1>3, <1>4, <1>5 DEF Moving, QueryKinds, MintKinds
<1> QED BY <1>5, <1>6, MoveKeeps

\* The answer of a chain is what was written.
LEMMA AnswerIs ==
    ASSUME ChainsOK, NEW c \in Slots, InFlight(c), NEW r,
           \/ AnsweredWith(c, r)
           \/ r = "pending" /\ \E method : Proceed(c, method)
           \/ GiveBack(c, r)
    PROVE  chains'[c].result = r
<1>1. chains[c] \in ChainRecord /\ c \in DOMAIN chains
  BY ChainTyped DEF ChainsOK
<1>2. CASE AnsweredWith(c, r)
  BY <1>1, <1>2 DEF AnsweredWith, ChainRecord
<1>3. CASE GiveBack(c, r)
  BY <1>1, <1>3 DEF GiveBack, ChainRecord
<1>4. ASSUME NEW method, Proceed(c, method) PROVE chains'[c].result = "pending"
  BY <1>1, <1>4 DEF Proceed, ChainRecord
<1> QED BY <1>2, <1>3, <1>4

\* The manager says that a signer is there when it has installed it.
LEMMA ManagerNews ==
    ASSUME TypeInv, NEW c \in Slots, ManagerStep(c)
    PROVE  \/ chains'[c].result \notin {"Active", "ok"}
           \/ \E k \in Keys : FirstOwner(chains[c].wallet, k)
<1>1. InFlight(c)
  BY DEF ManagerStep, create_sub_account, on_key_derived, on_wallet_created, on_signer_settled,
     on_creation_failed, retry_install, on_retry_key_derived, Pending
<1>2. CASE create_sub_account(c) \/ on_creation_failed(c)
  BY <1>1, <1>2, AnswerIs DEF create_sub_account, on_creation_failed, TypeInv
<1>3. CASE on_key_derived(c) \/ on_wallet_created(c)
  BY <1>1, <1>3, AnswerIs DEF on_key_derived, on_wallet_created, TypeInv
<1>4. CASE retry_install(c)
  BY <1>1, <1>4, AnswerIs DEF retry_install, TypeInv
<1>5. CASE on_signer_settled(c)
  <2>1. chains[c].key \in Keys
    <3>1. Pending(c, "install")
      BY <1>5 DEF on_signer_settled
    <3>2. GoodChain(chains[c]) /\ chains[c].kind \in {"mint", "mint_paid"}
      BY <3>1, PendingTyped, WhoseMethod DEF TypeInv, Minting
    <3> QED BY <3>2 DEF GoodChain
  <2> QED BY <1>1, <1>5, <2>1, AnswerIs DEF on_signer_settled, TypeInv
<1>6. CASE on_retry_key_derived(c)
  <2>1. chains[c].key \in Keys
    <3>1. Pending(c, "retry_key")
      BY <1>6 DEF on_retry_key_derived
    <3>2. GoodChain(chains[c]) /\ chains[c].method = "retry_key"
      BY <3>1, PendingTyped DEF TypeInv
    <3> QED BY <3>2 DEF GoodChain, Rekeying
  <2> QED BY <1>1, <1>6, <2>1, AnswerIs DEF on_retry_key_derived, TypeInv
<1> QED BY <1>2, <1>3, <1>4, <1>5, <1>6 DEF ManagerStep

LEMMA ManagerKeeps ==
    ASSUME TypeInv, TenancyInv, NEW c \in Slots, ManagerStep(c)
    PROVE  \A v \in Wallets : Kept(v)
<1>1. /\ TypeInv' /\ GoesOn(c) /\ chains[c].result = "pending"
      /\ chains[c].method \in Minting \cup {"retry_install", "retry_key"}
      /\ chains'[c].method \in Minting <=> chains[c].method \in Minting
      /\ chains'[c].method \in Rekeying <=> chains[c].method \in Rekeying
      /\ \A v \in Wallets : \/ owner'[v] = owner[v]
                            \/ /\ v = chains[c].wallet /\ owner[v] = None /\ owner'[v] # None
                               /\ chains'[c].method \in {"install", "retry_key"}
                               /\ chains'[c].result \in {"Active", "ok"}
  BY ManagerType
<1>2. /\ InFlight(c) /\ InFlight(c)' /\ GoodChain(chains[c]) /\ GoodChain(chains[c])'
      /\ chains'[c].kind = chains[c].kind /\ chains[c].kind \in Kind /\ c \in Slots
  BY <1>1, ChainTyped DEF GoesOn, TypeInv, ChainsOK
<1>3. /\ chains[c].kind \in {"mint", "mint_paid", "reclaim", "retry"}
      /\ chains'[c].method \in MethodsOf(chains[c].kind)
      /\ chains[c].method \in {"retry_install", "retry_key"} => chains[c].kind \in {"reclaim", "retry"}
      /\ chains[c].method \in Minting => chains[c].kind \in {"mint", "mint_paid"}
  BY <1>1, <1>2, WhoseMethod DEF GoodChain
<1>4. PICK w \in Wallets : chains[c].wallet = w
  BY <1>2, <1>3 DEF GoodChain
<1>5. UNCHANGED unchangedByOthers
  BY DEF ManagerStep, create_sub_account, on_key_derived, on_wallet_created, on_signer_settled,
     on_creation_failed, retry_install, on_retry_key_derived, unchangedByManager, unchangedByOthers
<1>6. Calm /\ \A v \in Wallets : SameName(v) /\ SameSale(v) /\ SameLock(v)
  BY <1>5, OthersSame
<1>7. CASE owner'[w] = owner[w]
  <2>1. \A v \in Wallets : SameOwner(v)
    BY <1>1, <1>4, <1>7 DEF SameOwner
  <2>2. chains'[c].result \notin {"Active", "ok"}
    <3>1. ASSUME NEW k \in Keys, FirstOwner(w, k) PROVE FALSE
      BY <1>7, <3>1, OwnerSet, AccountConstants DEF FirstOwner, TypeInv
    <3> QED BY <1>4, <3>1, ManagerNews
  <2>3. chains'[c].method # "transfer"
    <3>1. chains'[c].method = "transfer" => chains[c].kind \in {"buy", "buy_paid", "rerent", "reclaim"}
      BY <1>2, <1>3, WhoseMethod
    <3>2. CASE chains[c].method \in Minting
      BY <1>1, <3>2 DEF Minting
    <3>3. CASE chains[c].method \in {"retry_install", "retry_key"}
      <4>1. Proceed(c, "retry_key") \/ AnsweredWith(c, "ok") \/ AnsweredWith(c, "err")
        BY <3>3 DEF ManagerStep, create_sub_account, on_key_derived, on_wallet_created,
           on_signer_settled, on_creation_failed, retry_install, on_retry_key_derived, Pending
      <4> QED BY <1>2, <3>3, <4>1, ChainTyped
              DEF Proceed, AnsweredWith, ChainRecord, TypeInv, ChainsOK
    <3> QED BY <1>1, <3>2, <3>3
  <2>4. chains[c].kind = "reclaim" => chains[c].method \in Rekeying
    BY <1>1, <1>3 DEF Rekeying
  <2>5. Moving(c, w)
    BY <1>1, <1>2, <1>3, <1>4, <1>6, <2>1, <2>2, <2>3, <2>4 DEF Moving, QueryKinds, MintKinds
  <2> QED BY <1>6, <2>1, <2>5, MoveKeeps
<1>8. CASE owner'[w] # owner[w]
  <2>1. /\ owner[w] = None /\ owner'[w] # None
        /\ chains'[c].method \in {"install", "retry_key"} /\ chains'[c].result \in {"Active", "ok"}
        /\ \A v \in Wallets \ {w} : SameOwner(v)
    BY <1>1, <1>4, <1>8 DEF SameOwner
  <2>2. chains'[c].result = "pending" \/ chains'[c].result \in Replies(chains'[c].method)
    BY <1>2 DEF GoodChain
  <2>3. CASE chains'[c].method = "install"
    <3>1. chains[c].kind \in MintKinds /\ chains'[c].result = "Active"
      BY <1>1, <1>3, <2>1, <2>2, <2>3 DEF Minting, MintKinds, Replies
    <3>2. Installing(c, w) /\ Elsewhere(w) /\ Alone(c, w)
      BY <1>1, <1>4, <1>6, <2>1, <3>1, ChainAlone DEF Installing, Elsewhere
    <3> QED BY <1>6, <3>2, InstallingKeeps, OthersKeep DEF TenancyInv
  <2>4. CASE chains'[c].method = "retry_key"
    <3>1. chains'[c].result = "ok"
      BY <2>1, <2>2, <2>4 DEF Replies
    <3>2. /\ chains[c].method \in Rekeying /\ chains[c].kind \in {"retry", "reclaim"}
          /\ chains'[c].method # "transfer"
      BY <1>1, <1>3, <2>4 DEF Rekeying, Minting
    <3>3. Installing(c, w) /\ Elsewhere(w) /\ Alone(c, w)
      BY <1>1, <1>4, <1>6, <2>1, <3>1, <3>2, ChainAlone DEF Installing, Elsewhere
    <3> QED BY <1>6, <3>3, InstallingKeeps, OthersKeep DEF TenancyInv
  <2> QED BY <2>1, <2>3, <2>4
<1> QED BY <1>7, <1>8

-----------------------------------------------------------------------------
(* What is not about one name.                                             *)

LEMMA QuietStep ==
    ASSUME TenancyInv, UNCHANGED <<tlas, nameVars, saleVars, reclaim_pending, now, overridden>>,
           \A v \in Wallets : SameOwner(v) /\ SameChains(v)
    PROVE  \A v \in Wallets : Kept(v)
<1>1. Calm /\ \A v \in Wallets : SameName(v) /\ SameSale(v) /\ SameLock(v)
  BY DEF Calm, nameVars, saleVars, SameName, SameSale, SameLock
<1> QED BY <1>1, AllQuiet DEF Quiet

LEMMA StillChains ==
    ASSUME UNCHANGED chains
    PROVE  \A v \in Wallets : SameChains(v)
BY DEF SameChains, SameChain, InFlight

\* The claim of a refund is about no name.
LEMMA ClaimChains ==
    ASSUME NEW c \in Slots, OnlyChain(c), InFlight(c) => chains[c].kind = "claim",
           chains'[c] # None => chains'[c].kind = "claim" \/ chains'[c].wallet = None
    PROVE  \A v \in Wallets : SameChains(v)
<1>1. \A v \in Wallets : v # None
  BY RegistryConstants DEF Accounts
<1> QED BY <1>1 DEF OnlyChain, SameChains, SameChain, InFlight

LEMMA ClaimKeeps ==
    ASSUME TypeInv, TenancyInv, NEW c \in Slots,
           \/ \E u \in Users : claim_refund(c, u)
           \/ on_claim_refund_settled(c)
           \/ RunPayment(c)
    PROVE  \A v \in Wallets : Kept(v)
<1>1. UNCHANGED <<tlas, nameVars, saleVars, reclaim_pending, now, overridden, ownershipVars>>
  <2>1. CASE RunPayment(c)
    BY <2>1 DEF RunPayment, unchangedByOthers
  <2>2. CASE on_claim_refund_settled(c)
    BY <2>2 DEF on_claim_refund_settled, worldVars
  <2>3. ASSUME NEW u \in Users, claim_refund(c, u)
        PROVE  UNCHANGED <<tlas, nameVars, saleVars, reclaim_pending, now, overridden, ownershipVars>>
    BY <2>3 DEF claim_refund, worldVars
  <2> QED BY <2>1, <2>2, <2>3
<1>2. \A v \in Wallets : SameChains(v)
  <2>1. ASSUME NEW u \in Users, claim_refund(c, u)
        PROVE  \A v \in Wallets : SameChains(v)
    <3>1. Fresh(c, "claim", "pay", None)
      BY <2>1, ClaimStarts
    <3> QED BY <3>1, ClaimChains DEF Fresh
  <2>2. CASE on_claim_refund_settled(c)
    <3>1. CallbackDue(c, {"claim"}, {"pay"}) /\ End(c)
      BY <2>2 DEF on_claim_refund_settled
    <3>2. OnlyChain(c) /\ chains'[c] = None
      BY <3>1, ChainEnds DEF TypeInv
    <3> QED BY <3>1, <3>2, ClaimChains DEF CallbackDue
  <2>3. CASE RunPayment(c)
    <3>1. Pending(c, "pay")
      BY <2>3 DEF RunPayment
    <3>2. chains[c].kind = "claim"
      BY <3>1, PendingTyped, WhoseMethod DEF TypeInv
    <3>3. GoesOn(c)
      BY <2>3, PaymentType
    <3> QED BY <3>2, <3>3, ClaimChains DEF GoesOn
  <2> QED BY <2>1, <2>2, <2>3
<1> QED BY <1>1, <1>2, QuietStep DEF ownershipVars, SameOwner

\* Money, mothers, roles and configurations leave the names alone.
LEMMA BooksKeep ==
    ASSUME TypeInv, TenancyInv,
           \/ Anchor \/ Sweeping \/ AdminRoles \/ AdminConfig \/ AdminMoney
           \/ \E caller \in Admins, u \in Users : admin_clear_mother(caller, u)
    PROVE  \A v \in Wallets : Kept(v)
<1>1. UNCHANGED <<tlas, nameVars, saleVars, reclaim_pending, chains, ownershipVars, now, overridden>>
  <2>1. CASE Anchor
    BY <2>1 DEF Anchor, set_mother, worldVars
  <2>2. CASE Sweeping
    BY <2>2 DEF Sweeping, reclaim_sweep_ft, RunSweep
  <2>3. CASE AdminRoles
    BY <2>3 DEF AdminRoles, SetRoles, pause, unpause, add_admin, remove_admin,
       add_payment_authority, remove_payment_authority, worldVars
  <2>4. CASE AdminConfig
    BY <2>4 DEF AdminConfig, Configure, update_fee_config, set_parked_signer_pubkey,
       add_ft_allowlist, remove_ft_allowlist, set_business_sub_cap, worldVars
  <2>5. CASE AdminMoney
    BY <2>5 DEF AdminMoney, withdraw, worldVars
  <2>6. ASSUME NEW caller \in Admins, NEW u \in Users, admin_clear_mother(caller, u)
        PROVE  <1>1!:
    BY <2>6 DEF admin_clear_mother, worldVars
  <2> QED BY <2>1, <2>2, <2>3, <2>4, <2>5, <2>6
<1> QED BY <1>1, StillChains, QuietStep DEF ownershipVars, SameOwner

LEMMA CustodyKeeps ==
    ASSUME TypeInv, TenancyInv, RecoveryStep \/ HaltStep
    PROVE  \A v \in Wallets : Kept(v)
<1>1. UNCHANGED <<unchangedByOthers, chains>>
  BY DEF RecoveryStep, HaltStep
<1>2. \A v \in Wallets : SameOwner(v)
  BY CustodyStep DEF SameOwner
<1> QED BY <1>1, <1>2, StillChains, QuietStep DEF unchangedByOthers

LEMMA TokenKeeps ==
    ASSUME TypeInv, TenancyInv, TokenStep
    PROVE  \A v \in Wallets : Kept(v)
<1>1. ASSUME NEW w \in Wallets, NEW token \in Tokens, TokenArrives(w, token)
      PROVE  \A v \in Wallets : Kept(v)
  BY <1>1, StillChains, QuietStep DEF TokenArrives, ownershipVars, SameOwner
<1>2. ASSUME NEW w \in Wallets, NEW token \in Tokens, TokenLeaves(w, token)
      PROVE  \A v \in Wallets : Kept(v)
  <2>1. UNCHANGED <<tlas, nameVars, saleVars, reclaim_pending, now, overridden, ownershipVars>>
    BY <1>2 DEF TokenLeaves
  <2>2. \A c \in Slots : /\ chains'[c] # None <=> chains[c] # None
                         /\ chains[c] # None => Marked(c) /\ (chains'[c].aged <=> chains[c].aged)
    BY <1>2, LeavesMarks DEF InFlight
  <2>3. \A v \in Wallets : SameChains(v)
    BY <2>2 DEF SameChains, SameChain, Marked, InFlight
  <2> QED BY <2>1, <2>3, QuietStep DEF ownershipVars, SameOwner
<1> QED BY <1>1, <1>2 DEF TokenStep

\* Time passes: what has expired stays expired, and a chain that could still
\* see a day pass has seen it now.
LEMMA TickKeeps ==
    ASSUME TypeInv, TenancyInv, Tick
    PROVE  \A v \in Wallets : Kept(v)
<1>1. SUFFICES ASSUME NEW w \in Wallets, WalletInv(w) PROVE Kept(w)
  BY DEF TenancyInv
<1>2. /\ now' = now + 1 /\ now \in Nat /\ Grace \in Nat
      /\ UNCHANGED <<tlas, nameVars, saleVars, reclaim_pending, ownershipVars, overridden>>
  BY RegistryConstants DEF Tick, TypeInv, WorldOK
<1>3. SameName(w) /\ SameSale(w) /\ SameLock(w) /\ SameOwner(w)
  BY <1>2, NamesSame DEF saleVars, SameSale
<1>4. /\ Rented(w)' <=> Rented(w)
      /\ Tla(w)' = Tla(w)
      /\ OfBusiness(w)' <=> OfBusiness(w)
      /\ SaleIdle(w)' <=> SaleIdle(w)
      /\ Covered(w)' <=> Covered(w)
  BY <1>2, <1>3 DEF SameName, SameSale, Rented, Tla, OfBusiness, IsBusiness, SaleIdle, Covered,
     NoticeOutlastsChains
<1>5. /\ Rented(w) => /\ sub_accounts[w].expires_at \in Nat
                      /\ sub_accounts[w].retraction_at \in Nat \cup {None}
      /\ Tla(w) # None => Tla(w).expires_at \in Nat
      /\ Rented(w) => Tla(w) # None
  BY NameFields, TlaFields, RegistryConstants DEF TypeInv, Tla, LinksOK
<1>6. Expired(w) => Expired(w)'
  BY <1>2, <1>3, <1>4, <1>5 DEF Expired, SameName
<1>7. \A c \in Slots :
        /\ chains'[c] # None <=> chains[c] # None
        /\ chains[c] # None =>
             /\ chains'[c].kind = chains[c].kind /\ chains'[c].wallet = chains[c].wallet
             /\ chains'[c].method = chains[c].method /\ chains'[c].result = chains[c].result
             /\ Slack(c)' = 0 /\ Slack(c) = 1
  BY TickMarks DEF Marked, InFlight, Slack
<1>8. SignerKnown(w) => SignerKnown(w)'
  BY <1>3, <1>7 DEF SignerKnown, SameSale, SameOwner, On, InFlight
<1>9. SoldOrRetracted(w) => SoldOrRetracted(w)'
  BY <1>3, <1>4, <1>7 DEF SoldOrRetracted, SameName, On, InFlight
<1>10. SaleLock(w) => SaleLock(w)'
  BY <1>3, <1>4, <1>7 DEF SaleLock, SameName, On, InFlight
<1>11. ReclaimLock(w) => ReclaimLock(w)'
  BY <1>3, <1>7 DEF ReclaimLock, SameLock, On, InFlight
<1>12. TooLateToSell(w) => TooLateToSell(w)'
  BY <1>4, <1>6, <1>7 DEF TooLateToSell, On, InFlight
<1>13. RentalRuns(w) => RentalRuns(w)'
  <2>1. SUFFICES ASSUME RentalRuns(w), NEW c \in Slots, On(c, w, RentalKinds)'
                 PROVE  /\ Rented(w)'
                        /\ (now + Slack(c) < sub_accounts[w].expires_at + Grace)'
                        /\ (Tla(w).status # "Registered")'
                        /\ (now + Slack(c) < Tla(w).expires_at + Grace)'
                        /\ (sub_accounts[w].retraction_at # None =>
                             now + Slack(c) < sub_accounts[w].retraction_at + 2)'
                        /\ chains'[c].kind = "rerent" <=> w \in parked_names'
    BY DEF RentalRuns
  <2>2. On(c, w, RentalKinds) /\ Slack(c)' = 0 /\ Slack(c) = 1 /\ chains'[c].kind = chains[c].kind
    BY <1>7, <2>1 DEF On, InFlight
  <2>3. /\ Rented(w) /\ now + 1 < sub_accounts[w].expires_at + Grace
        /\ Tla(w).status # "Registered" /\ now + 1 < Tla(w).expires_at + Grace
        /\ sub_accounts[w].retraction_at # None => now + 1 < sub_accounts[w].retraction_at + 2
        /\ chains[c].kind = "rerent" <=> w \in parked_names
    BY <2>1, <2>2 DEF RentalRuns
  <2> QED BY <1>2, <1>3, <1>4, <1>5, <2>2, <2>3 DEF SameName
<1>14. RentalAlone(w) => RentalAlone(w)'
  BY <1>4, <1>7 DEF RentalAlone, On, InFlight
<1>15. SignerPlace(w) => SignerPlace(w)'
  BY <1>3, <1>4, <1>7 DEF SignerPlace, SameName, SameOwner, On, InFlight
<1>16. MintFirst(w) => MintFirst(w)'
  BY <1>3, <1>7 DEF MintFirst, SameName, SameOwner, On, InFlight
<1>17. SignerAwaited(w) => SignerAwaited(w)'
  BY <1>3, <1>4, <1>7 DEF SignerAwaited, SameName, SameOwner, On, InFlight
<1>18. WalletInv(w)'
  BY <1>1, <1>2, <1>4, <1>8, <1>9, <1>10, <1>11, <1>12, <1>13, <1>14, <1>15, <1>16, <1>17
     DEF WalletInv
<1> QED BY <1>1, <1>3, <1>18, SellerQuiet DEF Kept

\* An admin lifts a lock.  Under a chain in flight the name counts as
\* overridden from then on; without one there was no lock to lift.
Lifting(w) ==
    /\ UNCHANGED <<tlas, now, chains>> /\ overridden' = Overridden(w)
    /\ SaleIdle(w)' \/ (SaleIdle(w)' <=> SaleIdle(w))
    /\ listings'[w] # None => listings[w] # None
    /\ accepted_offers'[w] # None => accepted_offers[w] # None
    /\ w \in reclaim_pending' => w \in reclaim_pending
    /\ SameName(w) /\ SameOwner(w) /\ Elsewhere(w)

LEMMA LiftingKeeps ==
    ASSUME TenancyInv, NEW w \in Wallets, Lifting(w)
    PROVE  \A v \in Wallets : Kept(v)
<1>1. ASSUME NEW v \in Wallets \ {w} PROVE Kept(v)
  <2>1. Quiet(v)
    <3>1. SameChains(v)
      BY StillChains DEF Lifting
    <3> QED BY <1>1, <3>1 DEF Lifting, Elsewhere, Quiet
  <2>2. v \in overridden' <=> v \in overridden
    BY <1>1 DEF Lifting, Overridden
  <2> QED BY <1>1, <2>1, <2>2, QuietKeeps, SellerQuiet DEF Kept, TenancyInv, Quiet, Lifting
<1>2. WalletInv(w) /\ SameName(w)
  BY DEF TenancyInv, Lifting
<1>3. /\ Rented(w)' <=> Rented(w)
      /\ Tla(w)' = Tla(w)
      /\ OfBusiness(w)' <=> OfBusiness(w)
      /\ UNCHANGED chains /\ SameOwner(w)
  BY DEF Lifting, SameName, Rented, Tla, OfBusiness, IsBusiness
<1>4. SignerKnown(w)'
  BY <1>2, <1>3 DEF WalletInv, SignerKnown, Lifting, SameOwner, On, InFlight
<1>5. SoldOrRetracted(w)'
  BY <1>2, <1>3 DEF WalletInv, SoldOrRetracted, SameName, On, InFlight
<1>6. CASE \E c \in Slots : InFlight(c) /\ chains[c].wallet = w
  <2>1. w \in overridden'
    BY <1>6 DEF Lifting, Overridden
  <2>2. ~Covered(w)'
    BY <2>1 DEF Covered
  <2> QED BY <1>1, <1>2, <1>4, <1>5, <2>1, <2>2, SellerQuiet DEF Kept, WalletInv
<1>7. CASE \A c \in Slots : ~(InFlight(c) /\ chains[c].wallet = w)
  <2>1. UNCHANGED overridden
    BY <1>7 DEF Lifting, Overridden
  <2>2. \A c \in Slots : \A kinds : ~On(c, w, kinds) /\ ~(chains'[c] # None /\ chains'[c].wallet = w)
    BY <1>3, <1>7 DEF On, InFlight
  <2>3. SaleLock(w) => SaleLock(w)'
    BY <1>3, <2>2 DEF SaleLock, On, InFlight, Lifting
  <2>4. ReclaimLock(w) => ReclaimLock(w)'
    BY <1>3, <2>2 DEF ReclaimLock, On, InFlight, Lifting
  <2>5. TooLateToSell(w)' /\ RentalRuns(w)' /\ RentalAlone(w)' /\ MintFirst(w)'
    BY <2>2 DEF TooLateToSell, RentalRuns, RentalAlone, MintFirst, On, InFlight
  <2>6. SignerPlace(w) => SignerPlace(w)'
    BY <1>2, <1>3, <2>2 DEF SignerPlace, SameName, SameOwner, On, InFlight
  <2>7. SignerAwaited(w) => SignerAwaited(w)'
    BY <1>2, <1>3, <2>2 DEF SignerAwaited, SameName, SameOwner, On, InFlight
  <2>8. Covered(w)' <=> Covered(w)
    BY <1>3, <2>1 DEF Covered, NoticeOutlastsChains
  <2>9. WalletInv(w)'
    BY <1>2, <1>4, <1>5, <2>1, <2>3, <2>4, <2>5, <2>6, <2>7, <2>8 DEF WalletInv
  <2> QED BY <1>1, <1>2, <2>9, SellerQuiet DEF Kept
<1> QED BY <1>6, <1>7

LEMMA OverrideKeeps ==
    ASSUME TypeInv, TenancyInv, NEW caller \in Admins, NEW w \in Wallets,
           admin_clear_settling(caller, w) \/ admin_clear_reclaim_pending(caller, w)
    PROVE  \A v \in Wallets : Kept(v)
<1>1. UNCHANGED <<tlas, nameVars, now, chains, ownershipVars>> /\ overridden' = Overridden(w)
  BY DEF admin_clear_settling, admin_clear_reclaim_pending
<1>2. \A v \in Wallets : SameName(v) /\ SameOwner(v)
  BY <1>1 DEF nameVars, ownershipVars, SameName, SameOwner
<1>3. CASE admin_clear_settling(caller, w)
  <2>1. OrClear(w, FALSE) /\ UNCHANGED reclaim_pending
    BY <1>3 DEF admin_clear_settling, OrClear
  <2>2. Lifting(w)
    BY <1>1, <1>2, <2>1, ClearedSales DEF Lifting, Elsewhere, SameLock, TypeInv
  <2> QED BY <2>2, LiftingKeeps
<1>4. CASE admin_clear_reclaim_pending(caller, w)
  <2>1. reclaim_pending' = reclaim_pending \ {w} /\ UNCHANGED saleVars
    BY <1>4 DEF admin_clear_reclaim_pending
  <2>2. SaleIdle(w)' <=> SaleIdle(w)
    BY <2>1 DEF saleVars, SaleIdle
  <2>3. Lifting(w)
    BY <1>1, <1>2, <2>1, <2>2 DEF Lifting, Elsewhere, SameLock, SameSale, saleVars
  <2> QED BY <2>3, LiftingKeeps
<1> QED BY <1>3, <1>4

\* A TLA is registered, activated, renewed, suspended or resumed.  Its type
\* stays, and once its lease is over for good it is not extended.
TlaChanges(t) ==
    /\ UNCHANGED <<nameVars, saleVars, reclaim_pending, chains, ownershipVars, now, overridden>>
    /\ \A s \in Tlas \ {t} : tlas'[s] = tlas[s]
    /\ tlas[t] # None =>
         /\ tlas'[t] # None /\ tlas'[t].tla_type = tlas[t].tla_type
         /\ tlas[t].status # "Registered" =>
              /\ tlas'[t].status # "Registered"
              /\ tlas'[t].expires_at >= tlas[t].expires_at
              /\ now >= tlas[t].expires_at + Grace => tlas'[t].expires_at = tlas[t].expires_at

LEMMA TlaChangesKeep ==
    ASSUME TypeInv, TlasOK', TenancyInv, NEW t \in Tlas, TlaChanges(t)
    PROVE  \A v \in Wallets : Kept(v)
<1>1. SUFFICES ASSUME NEW w \in Wallets, WalletInv(w) PROVE Kept(w)
  BY DEF TenancyInv
<1>2. /\ UNCHANGED <<now, chains, overridden>>
      /\ SameName(w) /\ SameSale(w) /\ SameLock(w) /\ SameOwner(w)
      /\ now \in Nat /\ Grace \in Nat /\ TlaOf[w] \in Tlas
  BY NamesSame, RegistryConstants DEF TlaChanges, saleVars, SameSale, TypeInv, WorldOK
<1>3. /\ Rented(w)' <=> Rented(w)
      /\ SaleIdle(w)' <=> SaleIdle(w)
  BY <1>2 DEF SameName, SameSale, Rented, SaleIdle
<1>4. SignerKnown(w) => SignerKnown(w)'
  BY <1>2 DEF SignerKnown, SameSale, SameOwner, On, InFlight
<1>5. SaleLock(w) => SaleLock(w)'
  BY <1>2, <1>3 DEF SaleLock, SameName, On, InFlight
<1>6. ReclaimLock(w) => ReclaimLock(w)'
  BY <1>2 DEF ReclaimLock, SameLock, On, InFlight
<1>7. RentalAlone(w) => RentalAlone(w)'
  BY <1>2, <1>3 DEF RentalAlone, On, InFlight
<1>8. SignerPlace(w) => SignerPlace(w)'
  BY <1>2, <1>3 DEF SignerPlace, SameName, SameOwner, On, InFlight
<1>9. MintFirst(w) => MintFirst(w)'
  BY <1>2 DEF MintFirst, SameName, SameOwner, On, InFlight
<1>10. SignerAwaited(w) => SignerAwaited(w)'
  BY <1>2, <1>3 DEF SignerAwaited, SameName, SameOwner, On, InFlight
<1>11. CASE Tla(w) # None
  <2>1. /\ Tla(w)' # None /\ Tla(w)'.tla_type = Tla(w).tla_type
        /\ Tla(w).expires_at \in Nat /\ Tla(w)'.expires_at \in Nat
        /\ Tla(w).status # "Registered" =>
             /\ Tla(w)'.status # "Registered"
             /\ Tla(w)'.expires_at >= Tla(w).expires_at
             /\ now >= Tla(w).expires_at + Grace => Tla(w)'.expires_at = Tla(w).expires_at
    <3>1. tlas[TlaOf[w]].expires_at \in Nat
      BY <1>2, <1>11, TlaFields DEF TypeInv, Tla
    <3>2. CASE TlaOf[w] # t
      BY <1>2, <1>11, <3>1, <3>2 DEF TlaChanges, Tla
    <3>3. CASE TlaOf[w] = t
      <4>1. tlas'[t] # None
        BY <1>11, <3>3 DEF TlaChanges, Tla
      <4>2. tlas'[t] \in TlaEntry
        BY <4>1 DEF TlasOK
      <4>3. tlas'[t].expires_at \in Nat
        BY <4>2 DEF TlaEntry
      <4> QED BY <1>11, <3>1, <3>3, <4>1, <4>3 DEF TlaChanges, Tla
    <3> QED BY <3>2, <3>3
  <2>2. OfBusiness(w)' <=> OfBusiness(w)
    BY <1>11, <2>1 DEF OfBusiness, IsBusiness, Tla
  <2>3. Covered(w)' <=> Covered(w)
    BY <1>2, <2>2 DEF Covered, NoticeOutlastsChains
  <2>4. Expired(w) => Expired(w)'
    BY <1>2, <1>3, <2>1 DEF Expired, SameName
  <2>5. SoldOrRetracted(w) => SoldOrRetracted(w)'
    BY <1>2, <1>3, <2>1, <2>2 DEF SoldOrRetracted, SameName, On, InFlight
  <2>6. TooLateToSell(w) => TooLateToSell(w)'
    BY <1>2, <2>2, <2>4 DEF TooLateToSell, On, InFlight
  <2>7. RentalRuns(w) => RentalRuns(w)'
    <3>1. SUFFICES ASSUME RentalRuns(w), NEW c \in Slots, On(c, w, RentalKinds)'
                   PROVE  /\ Rented(w)'
                          /\ (now + Slack(c) < sub_accounts[w].expires_at + Grace)'
                          /\ (Tla(w).status # "Registered")'
                          /\ (now + Slack(c) < Tla(w).expires_at + Grace)'
                          /\ (sub_accounts[w].retraction_at # None =>
                               now + Slack(c) < sub_accounts[w].retraction_at + 2)'
                          /\ chains'[c].kind = "rerent" <=> w \in parked_names'
      BY DEF RentalRuns
    <3>2. On(c, w, RentalKinds) /\ Slack(c)' = Slack(c) /\ chains'[c] = chains[c] /\ Slack(c) \in Nat
      BY <1>2, <3>1 DEF On, InFlight, Slack
    <3>3. /\ Rented(w) /\ now + Slack(c) < sub_accounts[w].expires_at + Grace
          /\ Tla(w).status # "Registered" /\ now + Slack(c) < Tla(w).expires_at + Grace
          /\ sub_accounts[w].retraction_at # None =>
               now + Slack(c) < sub_accounts[w].retraction_at + 2
          /\ chains[c].kind = "rerent" <=> w \in parked_names
      BY <3>1, <3>2 DEF RentalRuns
    <3> QED BY <1>2, <1>3, <2>1, <3>2, <3>3 DEF SameName
  <2>8. WalletInv(w)'
    BY <1>1, <1>2, <1>4, <1>5, <1>6, <1>7, <1>8, <1>9, <1>10, <2>3, <2>5, <2>6, <2>7 DEF WalletInv
  <2> QED BY <1>1, <1>2, <2>8, SellerQuiet DEF Kept
<1>12. CASE Tla(w) = None
  <2>1. ~Rented(w) /\ ~OfBusiness(w) /\ ~Expired(w)
    BY <1>12 DEF TypeInv, LinksOK, OfBusiness, Expired
  <2>2. Covered(w)' => Covered(w)
    BY <1>2, <2>1 DEF Covered, NoticeOutlastsChains
  <2>3. SoldOrRetracted(w) => SoldOrRetracted(w)'
    BY <1>2, <1>3, <1>12, <2>1 DEF SoldOrRetracted, On, InFlight
  <2>4. TooLateToSell(w) => TooLateToSell(w)'
    BY <1>2, <2>1 DEF TooLateToSell, On, InFlight
  <2>5. RentalRuns(w) => RentalRuns(w)'
    BY <1>2, <2>1 DEF RentalRuns, On, InFlight
  <2>6. WalletInv(w)'
    BY <1>1, <1>2, <1>4, <1>5, <1>6, <1>7, <1>8, <1>9, <1>10, <2>2, <2>3, <2>4, <2>5 DEF WalletInv
  <2> QED BY <1>1, <1>2, <2>6, SellerQuiet DEF Kept
<1> QED BY <1>11, <1>12

LEMMA TlaStepKeeps ==
    ASSUME TypeInv, TenancyInv, RunTla \/ AdminTlas
    PROVE  \A v \in Wallets : Kept(v)
<1>1. ASSUME NEW t \in Tlas, NEW e \in TlaEntry, SetEntryOf(t, e),
             UNCHANGED <<nameVars, saleVars, reclaim_pending, chains, worldVars>>,
             tlas[t] # None =>
               /\ e.tla_type = tlas[t].tla_type
               /\ tlas[t].status # "Registered" =>
                    /\ e.status # "Registered"
                    /\ e.expires_at >= tlas[t].expires_at
                    /\ now >= tlas[t].expires_at + Grace => e.expires_at = tlas[t].expires_at
      PROVE  \A v \in Wallets : Kept(v)
  <2>1. TlasOK' /\ tlas'[t] = e /\ e # None /\ \A s \in Tlas \ {t} : tlas'[s] = tlas[s]
    BY <1>1, TlaChange DEF TypeInv, nameVars
  <2>2. TlaChanges(t)
    BY <1>1, <2>1 DEF TlaChanges, worldVars
  <2> QED BY <2>1, <2>2, TlaChangesKeep
<1>2. ASSUME NEW u \in Users, NEW t \in Tlas, NEW paid \in Payments, activate_tla(u, t, paid)
      PROVE  \A v \in Wallets : Kept(v)
  <2>1. PICK e \in TlaEntry : /\ SetEntryOf(t, e) /\ tlas[t].status = "Registered"
                              /\ e.tla_type = tlas[t].tla_type
    BY <1>2, ActivateEntry
  <2> QED BY <1>1, <1>2, <2>1 DEF activate_tla
<1>3. ASSUME NEW u \in Users, NEW t \in Tlas, NEW paid \in Payments, renew_tla(u, t, paid)
      PROVE  \A v \in Wallets : Kept(v)
  <2>1. PICK e \in TlaEntry :
          /\ SetEntryOf(t, e) /\ tlas[t] # None
          /\ e.status = tlas[t].status /\ tlas[t].status = "Active"
          /\ e.expires_at = Renewed(tlas[t].expires_at) /\ e.tla_type = tlas[t].tla_type
    BY <1>3, RenewTlaEntry
  <2>2. tlas[t].expires_at \in Nat /\ now \in Nat /\ Grace \in Nat
    BY <2>1, TlaFields, RegistryConstants DEF TypeInv, WorldOK
  <2>3. e.expires_at >= tlas[t].expires_at
    BY <2>1, <2>2, RenewedIsLater DEF TypeInv
  <2>4. ~(now >= tlas[t].expires_at + Grace)
    BY <1>3, <2>2 DEF renew_tla
  <2> QED BY <1>1, <1>3, <2>1, <2>3, <2>4 DEF renew_tla
<1>4. ASSUME NEW caller \in Admins, NEW t \in Tlas, NEW tla_type \in TlaType,
             NEW premium \in PremiumCategory, NEW licensee \in Users \cup {None},
             register_tla(caller, t, tla_type, premium, licensee)
      PROVE  \A v \in Wallets : Kept(v)
  <2>1. tlas[t] = None /\ \E e \in TlaEntry : SetTla(caller, t, e)
    BY <1>4, RegisterEntry
  <2>2. PICK e \in TlaEntry : SetTla(caller, t, e)
    BY <2>1
  <2> QED BY <1>1, <2>1, <2>2 DEF SetTla, SetEntryOf
<1>5. ASSUME NEW caller \in Admins, NEW t \in Tlas,
             suspend_tla(caller, t) \/ unsuspend_tla(caller, t) \/ activate_open_tla(caller, t)
      PROVE  \A v \in Wallets : Kept(v)
  <2>1. tlas[t] # None
    BY <1>5 DEF suspend_tla, unsuspend_tla, activate_open_tla
  <2>2. PICK e \in TlaEntry :
          /\ SetTla(caller, t, e)
          /\ e.tla_type = tlas[t].tla_type /\ e.status # "Registered"
          /\ \/ e.expires_at = tlas[t].expires_at /\ tlas[t].status # "Registered"
             \/ e.expires_at = now + Year /\ tlas[t].status = "Registered"
    BY <1>5, <2>1, AdminTlaEntry
  <2>3. tlas[t].expires_at \in Nat
    BY <2>1, TlaFields DEF TypeInv
  <2>4. tlas[t].status # "Registered" =>
          /\ e.expires_at = tlas[t].expires_at
          /\ e.expires_at >= tlas[t].expires_at
    BY <2>2, <2>3
  <2> QED BY <1>1, <2>2, <2>4 DEF SetTla, SetEntryOf
<1> QED BY <1>2, <1>3, <1>4, <1>5 DEF RunTla, AdminTlas

-----------------------------------------------------------------------------
(* The invariant holds.                                                    *)

LEMMA TenancyInit == RegistryInit => TenancyInv
<1> SUFFICES ASSUME RegistryInit, NEW w \in Wallets PROVE WalletInv(w)
  BY DEF TenancyInv
<1>1. /\ \A c \in Slots : chains[c] = None
      /\ sub_accounts[w] = None /\ listings[w] = None /\ accepted_offers[w] = None
      /\ reclaim_pending = {} /\ parked_names = {} /\ signer_pending[w] = None /\ owner[w] = None
  BY DEF RegistryInit, EmptyBooks, OwnershipInit
<1>2. \A c \in Slots : \A kinds : ~On(c, w, kinds)
  BY <1>1 DEF On, InFlight
<1>3. SignerKnown(w) /\ SoldOrRetracted(w)
  BY <1>1, <1>2 DEF SignerKnown, SoldOrRetracted, Rented
<1>4. SaleLock(w) /\ ReclaimLock(w) /\ TooLateToSell(w)
  BY <1>1, <1>2 DEF SaleLock, ReclaimLock, TooLateToSell, SaleIdle
<1>5. RentalRuns(w) /\ RentalAlone(w) /\ SignerPlace(w) /\ MintFirst(w) /\ SignerAwaited(w)
  BY <1>1, <1>2 DEF RentalRuns, RentalAlone, SignerPlace, MintFirst, SignerAwaited, Rented
<1> QED BY <1>3, <1>4, <1>5 DEF WalletInv

LEMMA TenancyCallback ==
    ASSUME TypeInv, TenancyInv, NEW c \in Slots, RunCallback(c)
    PROVE  \A w \in Wallets : Kept(w)
BY VerifiedKeeps, BuyGateKeeps, SoldKeeps, CreatedKeeps, ReRentGateKeeps, ReRentedKeeps,
   RetrySettledKeeps, ReclaimGateKeeps, ReclaimedKeeps, ClaimKeeps DEF RunCallback

LEMMA TenancyExternal ==
    ASSUME TypeInv, TenancyInv, NEW c \in Slots, RunExternal(c)
    PROVE  \A w \in Wallets : Kept(w)
BY QueryKeeps, BalancesKeeps, TransferKeeps, ClaimKeeps, ManagerKeeps DEF RunExternal

LEMMA TenancyStep ==
    ASSUME TypeInv, TenancyInv, [RegistryNext]_registryVars
    PROVE  \A w \in Wallets : Kept(w)
<1>1. CASE Trade
  BY <1>1, AdvertiseKeeps, PurchaseKeeps DEF Trade
<1>2. CASE Withdrawal
  BY <1>2, WithdrawalKeeps DEF Withdrawal
<1>3. CASE RentName
  BY <1>3, RentKeeps DEF RentName
<1>4. CASE KeepName
  BY <1>4, RenewKeeps, MainWalletKeeps, RetryKeeps DEF KeepName
<1>5. CASE RunTla \/ AdminTlas
  BY <1>5, TlaStepKeeps
<1>6. CASE Retract
  BY <1>6, RetractKeeps DEF Retract
<1>7. CASE Reclaiming
  BY <1>7, ReclaimKeeps DEF Reclaiming
<1>8. CASE Claiming
  BY <1>8, ClaimKeeps DEF Claiming
<1>9. CASE Anchor \/ Sweeping \/ AdminRoles \/ AdminConfig \/ AdminMoney
  BY <1>9, BooksKeep
<1>10. CASE AdminOverrides
  BY <1>10, OverrideKeeps, BooksKeep DEF AdminOverrides
<1>11. CASE Receipts
  BY <1>11, TenancyExternal, TenancyCallback DEF Receipts, RunReceipt
<1>12. CASE RecoveryStep \/ HaltStep
  BY <1>12, CustodyKeeps
<1>13. CASE TokenStep
  BY <1>13, TokenKeeps
<1>14. CASE Tick
  BY <1>14, TickKeeps
<1>15. CASE UNCHANGED registryVars
  <2>1. UNCHANGED <<tlas, nameVars, saleVars, reclaim_pending, chains, now, overridden, owner>>
    BY <1>15 DEF registryVars, worldVars, ownershipVars
  <2> QED BY <2>1, StillChains, QuietStep DEF SameOwner
<1> QED BY <1>1, <1>2, <1>3, <1>4, <1>5, <1>6, <1>7, <1>8, <1>9, <1>10, <1>11, <1>12, <1>13,
           <1>14, <1>15 DEF RegistryNext

\* What is in flight on a name, the locks it holds, and where its signer is,
\* for every name in every reachable state.
THEOREM TenancyHolds == RegistrySpec => []TenancyInv
<1>1. TypeInv /\ TenancyInv /\ [RegistryNext]_registryVars => TenancyInv'
  BY TenancyStep DEF Kept, TenancyInv
<1> QED BY <1>1, TenancyInit, TypesHold, PTL DEF RegistrySpec

\* A name has one sale and one reclaim in flight at most, and each holds its
\* lock exactly that long, for any number of names and chains.
THEOREM LocksHold == RegistrySpec => []LocksHeldInFlight
<1>1. TenancyInv => LocksHeldInFlight
  <2> SUFFICES ASSUME TenancyInv, NEW w \in Wallets \ overridden
               PROVE  /\ SalesOf(w) # {} <=> ~SaleIdle(w)
                      /\ ReclaimsOf(w) # {} <=> w \in reclaim_pending
                      /\ \A c, d \in SalesOf(w) : c = d
                      /\ \A c, d \in ReclaimsOf(w) : c = d
    BY DEF LocksHeldInFlight
  <2>1. SaleLock(w) /\ ReclaimLock(w)
    BY DEF TenancyInv, WalletInv
  <2>2. \A c : /\ c \in SalesOf(w) <=> c \in Slots /\ On(c, w, SaleKinds)
               /\ c \in ReclaimsOf(w) <=> c \in Slots /\ On(c, w, {"reclaim"})
    BY DEF SalesOf, ReclaimsOf, ChainsOn, On, SaleKinds
  <2>3. /\ SalesOf(w) # {} <=> ~SaleIdle(w)
        /\ \A c, d \in SalesOf(w) : c = d
    BY <2>1, <2>2 DEF SaleLock
  <2>4. /\ ReclaimsOf(w) # {} <=> w \in reclaim_pending
        /\ \A c, d \in ReclaimsOf(w) : c = d
    BY <2>1, <2>2 DEF ReclaimLock
  <2> QED BY <2>3, <2>4
<1> QED BY <1>1, TenancyHolds, PTL

\* No sale of a name is in flight while a reclaim re-keys its wallet: what
\* passed the gate of a reclaim has expired, or is under a Business TLA, and
\* neither can be sold.
THEOREM SalesAndReclaimsApart == RegistrySpec => []SaleAndReclaimApart
<1>1. TenancyInv => SaleAndReclaimApart
  BY DEF TenancyInv, WalletInv, TooLateToSell, SaleAndReclaimApart, SalesOf, ReclaimsOf, ChainsOn,
     On, SaleKinds
<1> QED BY <1>1, TenancyHolds, PTL

\* The registered owner and the main wallet of a name stay while it is being
\* sold, whatever else happens to it.
THEOREM SellerStays == RegistrySpec => SellerStaysInSale
<1>1. TypeInv /\ TenancyInv /\ [RegistryNext]_registryVars => SellerStep
  <2> SUFFICES ASSUME TypeInv, TenancyInv, [RegistryNext]_registryVars,
                      NEW w \in Wallets \ (overridden \cup parked_names), NEW c \in SalesOf(w),
                      chains'[c] # None
               PROVE  /\ sub_accounts'[w] # None
                      /\ sub_accounts'[w].owner = sub_accounts[w].owner
                      /\ sub_accounts'[w].main_wallet = sub_accounts[w].main_wallet
    BY DEF SellerStep
  <2>1. SellerKept(w) /\ c \in Slots /\ On(c, w, SaleKinds)
    BY TenancyStep DEF Kept, SalesOf, ChainsOn, On, SaleKinds
  <2> QED BY <2>1 DEF SellerKept
<1> QED BY <1>1, TypesHold, TenancyHolds, PTL DEF RegistrySpec, SellerStaysInSale

\* With nothing in flight for a rented name, the registry waits for a signer
\* exactly where the active signer has none.  The notice of a retraction has
\* to be longer than a chain of receipts takes: with a shorter one a name
\* could be reclaimed while it is still being minted.
THEOREM SignersAgree ==
    ASSUME NoticeOutlastsChains
    PROVE  RegistrySpec => []SignerPendingAgrees
<1>1. TenancyInv => SignerPendingAgrees
  <2> SUFFICES ASSUME TenancyInv, NEW w \in Wallets \ overridden, Rented(w), ChainsOn(w, Kind) = {}
               PROVE  signer_pending[w] = None <=> owner[w] # None
    BY DEF SignerPendingAgrees
  <2>1. SignerAwaited(w)
    BY DEF TenancyInv, WalletInv, Covered
  <2>2. \A c \in Slots : ~On(c, w, MintKinds) /\ ~On(c, w, {"retry", "reclaim"})
    BY DEF ChainsOn, On, MintKinds, Kind
  <2> QED BY <2>1, <2>2 DEF SignerAwaited
<1> QED BY <1>1, TenancyHolds, PTL

-----------------------------------------------------------------------------
(* The counters.                                                           *)

\* The names entered under a TLA, and the names that were minted.
Entered(t) == {w \in Wallets : TlaOf[w] = t /\ Rented(w)}
Settled    == {w \in Wallets : Rented(w) /\ \A c \in Slots : ~On(c, w, RentalKinds)}

\* A Business TLA counts the names from the moment they are entered, the
\* registry from the moment they are minted.
CountInv ==
    overridden = {} =>
        /\ \A t \in Tlas : tlas[t] = None => business_sub_count[t] = 0
        /\ \A t \in Tlas :
             tlas[t] # None /\ IsBusiness(t) => business_sub_count[t] = Cardinality(Entered(t))
        /\ sub_account_count = Cardinality(Settled)

\* The names that are entered, and being minted, stay the same.
SameRented  == \A w \in Wallets : Rented(w)' <=> Rented(w)
SameRentals == \A c \in Slots, w \in Wallets : On(c, w, RentalKinds)' <=> On(c, w, RentalKinds)

LEMMA SameSets ==
    ASSUME SameRented
    PROVE  /\ \A t \in Tlas : Entered(t)' = Entered(t)
           /\ SameRentals => Settled' = Settled
<1>1. \A w \in Wallets : sub_accounts'[w] # None <=> sub_accounts[w] # None
  BY DEF SameRented, Rented
<1>2. ASSUME NEW t \in Tlas PROVE Entered(t)' = Entered(t)
  BY <1>1 DEF Entered, Rented
<1>3. ASSUME SameRentals PROVE Settled' = Settled
  <2>1. \A c \in Slots, w \in Wallets :
          chains'[c] # None /\ chains'[c].wallet = w /\ chains'[c].kind \in RentalKinds
          <=> chains[c] # None /\ chains[c].wallet = w /\ chains[c].kind \in RentalKinds
    BY <1>3 DEF SameRentals, On, InFlight
  <2> QED BY <1>1, <2>1 DEF Settled, Rented, On, InFlight
<1> QED BY <1>2, <1>3

\* Nothing that is counted changes; a TLA may.
CountQuiet ==
    /\ SameRented /\ SameRentals /\ UNCHANGED countVars
    /\ overridden \subseteq overridden'
    /\ \A t \in Tlas : tlas[t] # None => /\ tlas'[t] # None
                                         /\ tlas'[t].tla_type = tlas[t].tla_type

LEMMA CountQuietKeeps ==
    ASSUME IsFiniteSet(Wallets), TypeInv, CountInv, CountQuiet
    PROVE  CountInv'
<1>1. SUFFICES ASSUME overridden' = {}
               PROVE  /\ \A t \in Tlas : tlas'[t] = None => business_sub_count'[t] = 0
                      /\ \A t \in Tlas : tlas'[t] # None /\ IsBusiness(t)' =>
                           business_sub_count'[t] = Cardinality(Entered(t)')
                      /\ sub_account_count' = Cardinality(Settled')
  BY DEF CountInv
<1>2. /\ \A t \in Tlas : tlas[t] = None => business_sub_count[t] = 0
      /\ \A t \in Tlas :
           tlas[t] # None /\ IsBusiness(t) => business_sub_count[t] = Cardinality(Entered(t))
      /\ sub_account_count = Cardinality(Settled)
      /\ business_sub_count' = business_sub_count /\ sub_account_count' = sub_account_count
  BY <1>1 DEF CountInv, CountQuiet, countVars
<1>3. /\ \A t \in Tlas : Entered(t)' = Entered(t)
      /\ Settled' = Settled
  BY SameSets DEF CountQuiet
<1>4. \A t \in Tlas : tlas'[t] = None => tlas[t] = None
  BY DEF CountQuiet
<1>5. ASSUME NEW t \in Tlas, tlas[t] = None PROVE Cardinality(Entered(t)) = 0
  <2>1. Entered(t) = {}
    BY <1>5 DEF Entered, TypeInv, LinksOK, Tla
  <2> QED BY <2>1, FS_EmptySet
<1>6. ASSUME NEW t \in Tlas, tlas'[t] # None, IsBusiness(t)'
      PROVE  business_sub_count[t] = Cardinality(Entered(t))
  <2>1. CASE tlas[t] = None
    BY <1>2, <1>5, <2>1
  <2>2. CASE tlas[t] # None
    <3>1. IsBusiness(t)
      BY <1>6, <2>2 DEF CountQuiet, IsBusiness
    <3> QED BY <1>2, <2>2, <3>1
  <2> QED BY <2>1, <2>2
<1> QED BY <1>2, <1>3, <1>4, <1>6

\* A name is entered.
LEMMA EnteredSets ==
    ASSUME IsFiniteSet(Wallets), NEW w \in Wallets, ~Rented(w), Rented(w)',
           \A v \in Wallets \ {w} : Rented(v)' <=> Rented(v)
    PROVE  /\ \A t \in Tlas \ {TlaOf[w]} : Entered(t)' = Entered(t)
           /\ Cardinality(Entered(TlaOf[w])') = Cardinality(Entered(TlaOf[w])) + 1
<1>1. /\ sub_accounts[w] = None /\ sub_accounts'[w] # None
      /\ \A v \in Wallets \ {w} : sub_accounts'[v] # None <=> sub_accounts[v] # None
  BY DEF Rented
<1>2. ASSUME NEW t \in Tlas \ {TlaOf[w]} PROVE Entered(t)' = Entered(t)
  BY <1>1, <1>2 DEF Entered, Rented
<1>3. Entered(TlaOf[w])' = Entered(TlaOf[w]) \cup {w} /\ w \notin Entered(TlaOf[w])
  BY <1>1 DEF Entered, Rented
<1>4. IsFiniteSet(Entered(TlaOf[w]))
  BY FS_Subset DEF Entered
<1> QED BY <1>2, <1>3, <1>4, FS_AddElement

\* A name goes.
LEMMA LeftSets ==
    ASSUME IsFiniteSet(Wallets), NEW w \in Wallets, Rented(w), ~Rented(w)',
           \A v \in Wallets \ {w} : Rented(v)' <=> Rented(v)
    PROVE  /\ \A t \in Tlas \ {TlaOf[w]} : Entered(t)' = Entered(t)
           /\ Cardinality(Entered(TlaOf[w])') = Cardinality(Entered(TlaOf[w])) - 1
           /\ Cardinality(Entered(TlaOf[w])) \in Nat \ {0}
<1>1. /\ sub_accounts[w] # None /\ sub_accounts'[w] = None
      /\ \A v \in Wallets \ {w} : sub_accounts'[v] # None <=> sub_accounts[v] # None
  BY DEF Rented
<1>2. ASSUME NEW t \in Tlas \ {TlaOf[w]} PROVE Entered(t)' = Entered(t)
  BY <1>1, <1>2 DEF Entered, Rented
<1>3. Entered(TlaOf[w])' = Entered(TlaOf[w]) \ {w} /\ w \in Entered(TlaOf[w])
  BY <1>1 DEF Entered, Rented
<1>4. IsFiniteSet(Entered(TlaOf[w]))
  BY FS_Subset DEF Entered
<1>5. Cardinality(Entered(TlaOf[w])) \in Nat /\ Cardinality(Entered(TlaOf[w])) # 0
  BY <1>3, <1>4, FS_CardinalityType, FS_EmptySet
<1> QED BY <1>2, <1>3, <1>4, <1>5, FS_RemoveElement

\* The counter of the Business TLA follows.
LEMMA BusinessBump ==
    ASSUME IsFiniteSet(Wallets), TypeInv, CountInv, overridden = {}, UNCHANGED tlas,
           NEW w \in Wallets, Tla(w) # None, \A v \in Wallets \ {w} : Rented(v)' <=> Rented(v),
           \/ ~Rented(w) /\ Rented(w)' /\ business_count_check_and_bump(TlaOf[w])
           \/ Rented(w) /\ ~Rented(w)' /\ business_count_decrement_if_business(TlaOf[w])
    PROVE  /\ \A t \in Tlas : tlas'[t] = None => business_sub_count'[t] = 0
           /\ \A t \in Tlas : tlas'[t] # None /\ IsBusiness(t)' =>
                business_sub_count'[t] = Cardinality(Entered(t)')
<1> DEFINE s == TlaOf[w]
<1>1. /\ \A t \in Tlas : tlas[t] = None => business_sub_count[t] = 0
      /\ \A t \in Tlas :
           tlas[t] # None /\ IsBusiness(t) => business_sub_count[t] = Cardinality(Entered(t))
      /\ s \in Tlas /\ tlas[s] # None /\ business_sub_count \in [Tlas -> Nat]
      /\ tlas' = tlas /\ \A t \in Tlas : IsBusiness(t)' <=> IsBusiness(t)
  BY RegistryConstants DEF CountInv, Tla, TypeInv, CountsOK, IsBusiness
<1> HIDE DEF s
<1>2. /\ \A t \in Tlas \ {s} : Entered(t)' = Entered(t)
      /\ ~Rented(w) /\ Rented(w)' => Cardinality(Entered(s)') = Cardinality(Entered(s)) + 1
      /\ Rented(w) /\ ~Rented(w)' => /\ Cardinality(Entered(s)') = Cardinality(Entered(s)) - 1
                                     /\ Cardinality(Entered(s)) \in Nat \ {0}
  BY EnteredSets, LeftSets DEF s
<1>3. /\ \A t \in Tlas \ {s} : business_sub_count'[t] = business_sub_count[t]
      /\ ~Rented(w) /\ Rented(w)' /\ IsBusiness(s) =>
           business_sub_count'[s] = business_sub_count[s] + 1
      /\ Rented(w) /\ ~Rented(w)' /\ IsBusiness(s) =>
           business_sub_count'[s] = saturating_sub(business_sub_count[s], 1)
  BY <1>1 DEF business_count_check_and_bump, business_count_decrement_if_business, s
<1>4. ASSUME NEW t \in Tlas, tlas'[t] = None PROVE business_sub_count'[t] = 0
  BY <1>1, <1>3, <1>4
<1>5. ASSUME NEW t \in Tlas, tlas'[t] # None, IsBusiness(t)'
      PROVE  business_sub_count'[t] = Cardinality(Entered(t)')
  <2>1. business_sub_count[t] = Cardinality(Entered(t))
    BY <1>1, <1>5
  <2>2. CASE t # s
    BY <1>2, <1>3, <2>1, <2>2
  <2>3. CASE t = s
    <3>1. IsBusiness(s)
      BY <1>1, <1>5, <2>3
    <3>2. CASE ~Rented(w) /\ Rented(w)'
      BY <1>2, <1>3, <2>1, <2>3, <3>1, <3>2
    <3>3. CASE Rented(w) /\ ~Rented(w)'
      BY <1>2, <1>3, <2>1, <2>3, <3>1, <3>3 DEF saturating_sub
    <3> QED BY <3>2, <3>3
  <2> QED BY <2>2, <2>3
<1> QED BY <1>4, <1>5

\* While no lock was lifted, a name is minted once, on its entry, and not
\* reclaimed meanwhile.
LEMMA RentalFacts ==
    ASSUME NoticeOutlastsChains, TenancyInv, overridden = {}, NEW w \in Wallets
    PROVE  RentalRuns(w) /\ RentalAlone(w)
BY DEF TenancyInv, WalletInv, Covered

\* A step on one name counts for that name alone.
LEMMA SettledSets ==
    ASSUME IsFiniteSet(Wallets), NEW w \in Wallets, NEW c \in Slots, Alone(c, w),
           \A v \in Wallets \ {w} : Rented(v)' <=> Rented(v)
    PROVE  /\ Cardinality(Settled) \in Nat
           /\ (w \in Settled' <=> w \in Settled) => Settled' = Settled
           /\ w \in Settled' /\ w \notin Settled => Cardinality(Settled') = Cardinality(Settled) + 1
           /\ w \notin Settled' /\ w \in Settled =>
                /\ Cardinality(Settled') = Cardinality(Settled) - 1
                /\ Cardinality(Settled) # 0
<1>1. /\ \A v \in Wallets \ {w} : sub_accounts'[v] # None <=> sub_accounts[v] # None
      /\ \A d \in Slots, v \in Wallets \ {w} :
           chains'[d] # None /\ chains'[d].wallet = v /\ chains'[d].kind \in RentalKinds
           <=> chains[d] # None /\ chains[d].wallet = v /\ chains[d].kind \in RentalKinds
  BY DEF Rented, Alone, OnlyChain, InFlight
<1>2. ASSUME NEW v \in Wallets \ {w} PROVE v \in Settled' <=> v \in Settled
  BY <1>1, <1>2 DEF Settled, Rented, On, InFlight
<1>3. Settled \subseteq Wallets /\ Settled' \subseteq Wallets
  BY DEF Settled
<1>4. IsFiniteSet(Settled)
  BY <1>3, FS_Subset
<1>5. Cardinality(Settled) \in Nat
  BY <1>4, FS_CardinalityType
<1>6. CASE w \in Settled' <=> w \in Settled
  <2>1. Settled' = Settled
    BY <1>2, <1>3, <1>6
  <2> QED BY <1>5, <1>6, <2>1
<1>7. CASE w \in Settled' /\ w \notin Settled
  <2>1. Settled' = Settled \cup {w}
    BY <1>2, <1>3, <1>7
  <2> QED BY <1>4, <1>5, <1>7, <2>1, FS_AddElement
<1>8. CASE w \notin Settled' /\ w \in Settled
  <2>1. Settled' = Settled \ {w}
    BY <1>2, <1>3, <1>8
  <2>2. Cardinality(Settled) # 0
    BY <1>4, <1>8, FS_EmptySet
  <2> QED BY <1>4, <1>5, <1>8, <2>1, <2>2, FS_RemoveElement
<1> QED BY <1>6, <1>7, <1>8

LEMMA RentCounts ==
    ASSUME IsFiniteSet(Wallets), TypeInv, CountInv, NEW c \in Slots, NEW w \in Wallets,
           Renting(c, w), Calm, \A v \in Wallets \ {w} : Rented(v)' <=> Rented(v),
           business_count_check_and_bump(TlaOf[w]), UNCHANGED sub_account_count
    PROVE  CountInv'
<1>1. SUFFICES ASSUME overridden = {} PROVE CountInv'
  BY DEF CountInv, Calm
<1>2. ~Rented(w) /\ Rented(w)' /\ Tla(w) # None
  BY DEF Renting
<1>3. PICK kind \in RentalKinds, method \in Method : Fresh(c, kind, method, w)
  BY DEF Renting
<1>4. Alone(c, w)
  BY <1>3, ChainAlone DEF RentalKinds, Kind
<1>5. w \notin Settled /\ w \notin Settled'
  <2>1. On(c, w, RentalKinds)'
    BY <1>3 DEF Fresh, On
  <2> QED BY <1>2, <2>1 DEF Settled
<1>6. Settled' = Settled
  BY <1>4, <1>5, SettledSets
<1>7. sub_account_count' = Cardinality(Settled')
  BY <1>1, <1>6 DEF CountInv
<1> QED BY <1>1, <1>2, <1>7, BusinessBump DEF CountInv, Calm

LEMMA FailureCounts ==
    ASSUME IsFiniteSet(Wallets), NoticeOutlastsChains, TypeInv, TenancyInv, CountInv,
           NEW c \in Slots, NEW w \in Wallets,
           Ends(c), On(c, w, RentalKinds), SetEntry(w, None), Calm,
           business_count_decrement_if_business(TlaOf[w]), UNCHANGED sub_account_count
    PROVE  CountInv'
<1>1. SUFFICES ASSUME overridden = {} PROVE CountInv'
  BY DEF CountInv, Calm
<1>2. Rented(w) /\ Tla(w) # None
  BY <1>1, RentalFacts DEF RentalRuns, TypeInv, LinksOK
<1>3. ~Rented(w)' /\ \A v \in Wallets \ {w} : Rented(v)' <=> Rented(v)
  BY EntryChange DEF TypeInv
<1>4. Alone(c, w)
  BY ChainAlone DEF On
<1>5. Settled' = Settled
  BY <1>3, <1>4, SettledSets DEF Settled
<1>6. sub_account_count' = Cardinality(Settled')
  BY <1>1, <1>5 DEF CountInv
<1> QED BY <1>1, <1>2, <1>3, <1>6, BusinessBump DEF CountInv, Calm

LEMMA MintCounts ==
    ASSUME IsFiniteSet(Wallets), NoticeOutlastsChains, TypeInv, TenancyInv, CountInv,
           NEW c \in Slots, NEW w \in Wallets,
           Ends(c), On(c, w, RentalKinds), UNCHANGED <<sub_accounts, business_sub_count>>, Calm,
           sub_account_count' = sub_account_count + (IF Rented(w) THEN 1 ELSE 0)
    PROVE  CountInv'
<1>1. SUFFICES ASSUME overridden = {} PROVE CountInv'
  BY DEF CountInv, Calm
<1>2. Rented(w) /\ \A d \in Slots : On(d, w, RentalKinds) => d = c
  BY <1>1, RentalFacts DEF RentalRuns, RentalAlone
<1>3. SameRented
  BY DEF SameRented, Rented
<1>4. Alone(c, w)
  BY ChainAlone DEF On
<1>5. w \notin Settled
  BY DEF Settled
<1>6. w \in Settled'
  <2>1. \A d \in Slots : ~(chains'[d] # None /\ chains'[d].wallet = w /\ chains'[d].kind \in RentalKinds)
    BY <1>2 DEF Ends, OnlyChain, InFlight, On
  <2>2. Rented(w)'
    BY <1>2, <1>3 DEF SameRented
  <2> QED BY <2>1, <2>2 DEF Settled, On, InFlight
<1>7. Cardinality(Settled') = Cardinality(Settled) + 1
  BY <1>3, <1>4, <1>5, <1>6, SettledSets DEF SameRented
<1>8. sub_account_count' = Cardinality(Settled')
  BY <1>1, <1>2, <1>7 DEF CountInv
<1>9. \A t \in Tlas : Entered(t)' = Entered(t)
  BY <1>3, SameSets
<1>10. tlas' = tlas /\ \A t \in Tlas : IsBusiness(t)' <=> IsBusiness(t)
  BY DEF Calm, IsBusiness
<1> QED BY <1>1, <1>8, <1>9, <1>10 DEF CountInv

LEMMA ParkCounts ==
    ASSUME IsFiniteSet(Wallets), NoticeOutlastsChains, TypeInv, TenancyInv, CountInv,
           NEW c \in Slots, NEW w \in Wallets,
           Ends(c), On(c, w, {"reclaim"}), Rented(w), SetEntry(w, None), Calm,
           business_count_decrement_if_business(TlaOf[w]),
           sub_account_count' = saturating_sub(sub_account_count, 1)
    PROVE  CountInv'
<1>1. SUFFICES ASSUME overridden = {} PROVE CountInv'
  BY DEF CountInv, Calm
<1>2. Tla(w) # None /\ \A d \in Slots : ~On(d, w, RentalKinds)
  BY <1>1, RentalFacts DEF RentalAlone, TypeInv, LinksOK
<1>3. ~Rented(w)' /\ \A v \in Wallets \ {w} : Rented(v)' <=> Rented(v)
  BY EntryChange DEF TypeInv
<1>4. Alone(c, w)
  BY ChainAlone DEF On
<1>5. w \in Settled /\ w \notin Settled'
  BY <1>2, <1>3 DEF Settled
<1>6. /\ Cardinality(Settled') = Cardinality(Settled) - 1
      /\ Cardinality(Settled) # 0 /\ Cardinality(Settled) \in Nat
  BY <1>3, <1>4, <1>5, SettledSets
<1>7. sub_account_count' = Cardinality(Settled')
  BY <1>1, <1>6 DEF CountInv, saturating_sub
<1> QED BY <1>1, <1>2, <1>3, <1>7, BusinessBump DEF CountInv, Calm

\* Chains that neither begin nor end a mint or a re-rent.
LEMMA RentalsSame ==
    ASSUME \/ UNCHANGED chains
           \/ \E c \in Slots : GoesOn(c)
           \/ \E c \in Slots : Ends(c) /\ chains[c].kind \notin RentalKinds
           \/ \E c \in Slots, kind \in Kind \ RentalKinds, method \in Method,
                 w \in Wallets \cup {None} : Fresh(c, kind, method, w)
           \/ \A c \in Slots : (InFlight(c)' <=> InFlight(c)) /\ (InFlight(c) => Marked(c))
    PROVE  SameRentals
<1> SUFFICES ASSUME NEW d \in Slots, NEW w \in Wallets
             PROVE  chains'[d] # None /\ chains'[d].wallet = w /\ chains'[d].kind \in RentalKinds
                    <=> chains[d] # None /\ chains[d].wallet = w /\ chains[d].kind \in RentalKinds
  BY DEF SameRentals, On, InFlight
<1>1. CASE UNCHANGED chains
  BY <1>1
<1>2. ASSUME NEW c \in Slots, GoesOn(c)
      PROVE  chains'[d] # None /\ chains'[d].wallet = w /\ chains'[d].kind \in RentalKinds
             <=> chains[d] # None /\ chains[d].wallet = w /\ chains[d].kind \in RentalKinds
  BY <1>2 DEF GoesOn, OnlyChain, InFlight
<1>3. ASSUME NEW c \in Slots, Ends(c), chains[c].kind \notin RentalKinds
      PROVE  chains'[d] # None /\ chains'[d].wallet = w /\ chains'[d].kind \in RentalKinds
             <=> chains[d] # None /\ chains[d].wallet = w /\ chains[d].kind \in RentalKinds
  BY <1>3 DEF Ends, OnlyChain, InFlight
<1>4. ASSUME NEW c \in Slots, NEW kind \in Kind \ RentalKinds, NEW method \in Method,
             NEW v \in Wallets \cup {None}, Fresh(c, kind, method, v)
      PROVE  chains'[d] # None /\ chains'[d].wallet = w /\ chains'[d].kind \in RentalKinds
             <=> chains[d] # None /\ chains[d].wallet = w /\ chains[d].kind \in RentalKinds
  BY <1>4 DEF Fresh, OnlyChain, InFlight
<1>5. CASE \A c \in Slots : (InFlight(c)' <=> InFlight(c)) /\ (InFlight(c) => Marked(c))
  BY <1>5 DEF Marked, InFlight
<1> QED BY <1>1, <1>2, <1>3, <1>4, <1>5

\* No entry and no counter is written.
Uncounted == UNCHANGED <<tlas, sub_accounts, countVars>> /\ overridden \subseteq overridden'

LEMMA UncountedQuiet ==
    ASSUME Uncounted, SameRentals
    PROVE  CountQuiet
BY DEF Uncounted, CountQuiet, SameRented, Rented

\* An entry is edited.
LEMMA EditQuiet ==
    ASSUME TypeInv, NEW w \in Wallets, Rented(w), NEW e \in SubAccountEntry, SetEntry(w, e),
           UNCHANGED <<tlas, countVars, chains, overridden>>
    PROVE  CountQuiet
<1>1. SameRented
  BY EntryChange, RegistryNone DEF TypeInv, SameRented
<1>2. SameRentals
  BY RentalsSame
<1> QED BY <1>1, <1>2 DEF CountQuiet

LEMMA TradeQuiet ==
    ASSUME TypeInv, Trade
    PROVE  CountQuiet
<1>1. PICK c \in Slots, u \in Users, w \in Wallets, k \in Keys :
        Advertise(c, u, w, k) \/ Purchase(c, u, w, k)
  BY DEF Trade
<1>2. Uncounted
  <2>1. CASE Advertise(c, u, w, k)
    BY <2>1 DEF Advertise, list_sub_account, accept_offer, nameVars, worldVars, Uncounted
  <2>2. CASE Purchase(c, u, w, k)
    BY <2>2 DEF Purchase, buy_sub_account, buy_sub_account_paid, nameVars, worldVars, Uncounted
  <2> QED BY <1>1, <2>1, <2>2
<1>3. \E kind \in Kind \ RentalKinds, method \in Method : Fresh(c, kind, method, w)
  <2>1. {"query", "balances", "transfer"} \subseteq Method
        /\ {"list", "offer", "buy", "buy_paid"} \subseteq Kind \ RentalKinds
    BY DEF Method, Kind, RentalKinds
  <2>2. ASSUME NEW p \in Prices, list_sub_account(c, u, w, p, k) PROVE <1>3!:
    BY <2>1, <2>2, ListStarts
  <2>3. ASSUME NEW p \in Prices, NEW b \in Users, accept_offer(c, u, w, b, p, k) PROVE <1>3!:
    BY <2>1, <2>3, OfferStarts
  <2>4. ASSUME NEW d \in Payments, buy_sub_account(c, u, w, k, d) PROVE <1>3!:
    BY <2>1, <2>4, BuyStarts
  <2>5. ASSUME NEW b \in Users, buy_sub_account_paid(c, u, b, w, k) PROVE <1>3!:
    BY <2>1, <2>5, BuyPaidStarts
  <2> QED BY <1>1, <2>2, <2>3, <2>4, <2>5 DEF Advertise, Purchase
<1>4. SameRentals
  BY <1>3, RentalsSame
<1> QED BY <1>2, <1>4, UncountedQuiet

LEMMA KeepQuiet ==
    ASSUME TypeInv, KeepName \/ Retract
    PROVE  CountQuiet
<1>1. ASSUME NEW u \in Users, NEW w \in Wallets, NEW paid \in Payments,
             renew_sub_account(u, w, paid)
      PROVE  CountQuiet
  BY <1>1, RenewEntry, EditQuiet DEF renew_sub_account, worldVars
<1>2. ASSUME NEW u \in Users, NEW w \in Wallets, NEW m \in Accounts, set_main_wallet(u, w, m)
      PROVE  CountQuiet
  BY <1>2, MainWalletEntry, EditQuiet DEF set_main_wallet, worldVars
<1>3. ASSUME NEW u \in Users, NEW w \in Wallets, NEW c \in Slots, retry_signer_install(c, u, w)
      PROVE  CountQuiet
  <2>1. Uncounted
    BY <1>3 DEF retry_signer_install, nameVars, worldVars, Uncounted
  <2>2. Fresh(c, "retry", "retry_install", w) /\ "retry" \in Kind \ RentalKinds
        /\ "retry_install" \in Method
    BY <1>3, RetryStarts DEF Kind, RentalKinds, Method
  <2> QED BY <2>1, <2>2, RentalsSame, UncountedQuiet
<1>4. ASSUME NEW u \in Users, NEW w \in Wallets,
             schedule_retraction(u, w) \/ cancel_retraction(u, w)
      PROVE  CountQuiet
  <2>1. \E at \in Nat \cup {None} : Rented(w) /\ SetRetraction(w, at)
    BY <1>4 DEF schedule_retraction, cancel_retraction, TypeInv, WorldOK
  <2>2. UNCHANGED <<tlas, countVars, chains, overridden>>
    BY <2>1 DEF SetRetraction, worldVars
  <2> QED BY <2>1, <2>2, RetractionEntry, EditQuiet
<1> QED BY <1>1, <1>2, <1>3, <1>4 DEF KeepName, Retract

\* A TLA is registered, or changes what is not its type.
LEMMA TlaQuiet ==
    ASSUME TypeInv, LeaseStep, RunTla \/ AdminTlas
    PROVE  CountQuiet
<1>1. \A t \in Tlas : tlas[t] # None => tlas'[t] # None /\ tlas'[t].tla_type = tlas[t].tla_type
  BY DEF LeaseStep
<1>2. UNCHANGED chains
  BY QuietChains
<1>3. UNCHANGED <<sub_accounts, countVars, overridden>>
  <2>1. CASE RunTla
    <3>1. PICK u \in Users, t \in Tlas, paid \in Payments :
            activate_tla(u, t, paid) \/ renew_tla(u, t, paid)
      BY <2>1 DEF RunTla
    <3>2. CASE activate_tla(u, t, paid)
      BY <3>2 DEF activate_tla, nameVars, worldVars
    <3>3. CASE renew_tla(u, t, paid)
      BY <3>3 DEF renew_tla, nameVars, worldVars
    <3> QED BY <3>1, <3>2, <3>3
  <2>2. CASE AdminTlas
    BY <2>2 DEF AdminTlas, register_tla, suspend_tla, unsuspend_tla, activate_open_tla, SetTla,
       nameVars, worldVars
  <2> QED BY <2>1, <2>2
<1>4. SameRentals
  BY <1>2, RentalsSame
<1> QED BY <1>1, <1>3, <1>4 DEF CountQuiet, SameRented, Rented

LEMMA OverridesGrow ==
    ASSUME AdminOverrides
    PROVE  UNCHANGED countVars /\ overridden \subseteq overridden'
<1>1. ASSUME NEW caller \in Admins, NEW w \in Wallets,
             admin_clear_settling(caller, w) \/ admin_clear_reclaim_pending(caller, w)
      PROVE  UNCHANGED countVars /\ overridden \subseteq overridden'
  <2>1. UNCHANGED countVars /\ overridden' = Overridden(w)
    BY <1>1 DEF admin_clear_settling, admin_clear_reclaim_pending
  <2> QED BY <2>1 DEF Overridden
<1>2. ASSUME NEW caller \in Admins, NEW u \in Users, admin_clear_mother(caller, u)
      PROVE  UNCHANGED <<countVars, overridden>>
  BY <1>2 DEF admin_clear_mother, worldVars
<1> QED BY <1>1, <1>2 DEF AdminOverrides

LEMMA OthersQuiet ==
    ASSUME TypeInv,
           \/ Withdrawal \/ Anchor \/ Reclaiming \/ Sweeping \/ Claiming
           \/ AdminRoles \/ AdminConfig \/ AdminOverrides \/ AdminMoney
           \/ RecoveryStep \/ HaltStep \/ TokenStep \/ Tick
    PROVE  CountQuiet
<1>1. Uncounted
  <2>1. UNCHANGED <<tlas, sub_accounts>>
    BY NoLeaseTouched
  <2>2. UNCHANGED countVars /\ overridden \subseteq overridden'
    <3>1. CASE Withdrawal \/ Anchor
      BY <3>1 DEF Withdrawal, unlist_sub_account, revoke_offer, Anchor, set_mother, worldVars
    <3>2. CASE Reclaiming \/ Sweeping \/ Claiming
      BY <3>2 DEF Reclaiming, reclaim_finalize, Sweeping, reclaim_sweep_ft, RunSweep,
         Claiming, claim_refund, worldVars
    <3>3. CASE AdminRoles
      BY <3>3 DEF AdminRoles, pause, unpause, add_admin, remove_admin, add_payment_authority,
         remove_payment_authority, SetRoles, worldVars
    <3>4. CASE AdminConfig
      BY <3>4 DEF AdminConfig, update_fee_config, set_parked_signer_pubkey, add_ft_allowlist,
         remove_ft_allowlist, set_business_sub_cap, Configure, worldVars
    <3>5. CASE AdminOverrides
      BY <3>5, OverridesGrow
    <3>6. CASE AdminMoney
      BY <3>6 DEF AdminMoney, withdraw, worldVars
    <3>7. CASE RecoveryStep \/ HaltStep \/ TokenStep \/ Tick
      BY <3>7 DEF RecoveryStep, HaltStep, unchangedByOthers, TokenStep, TokenArrives,
         TokenLeaves, Tick
    <3> QED BY <3>1, <3>2, <3>3, <3>4, <3>5, <3>6, <3>7
  <2> QED BY <2>1, <2>2 DEF Uncounted
<1>2. SameRentals
  <2>1. CASE Reclaiming
    <3>1. {"balances"} \cup Rekeying \subseteq Method /\ "reclaim" \in Kind \ RentalKinds
      BY DEF Method, Rekeying, Kind, RentalKinds
    <3>2. PICK c \in Slots, w \in Wallets : reclaim_finalize(c, w)
      BY <2>1 DEF Reclaiming
    <3>3. \E method \in Method : Fresh(c, "reclaim", method, w)
      BY <3>1, <3>2, ReclaimStarts
    <3> QED BY <3>1, <3>3, RentalsSame
  <2>2. CASE Claiming
    <3>1. "pay" \in Method /\ "claim" \in Kind \ RentalKinds
      BY DEF Method, Kind, RentalKinds
    <3>2. PICK c \in Slots, u \in Users : claim_refund(c, u)
      BY <2>2 DEF Claiming
    <3>3. Fresh(c, "claim", "pay", None)
      BY <3>2, ClaimStarts
    <3> QED BY <3>1, <3>3, RentalsSame
  <2>3. CASE TokenStep
    <3>1. ASSUME NEW w \in Wallets, NEW token \in Tokens, TokenArrives(w, token)
          PROVE  SameRentals
      BY <3>1, RentalsSame DEF TokenArrives
    <3>2. ASSUME NEW w \in Wallets, NEW token \in Tokens, TokenLeaves(w, token)
          PROVE  SameRentals
      BY <3>2, LeavesMarks, RentalsSame
    <3> QED BY <2>3, <3>1, <3>2 DEF TokenStep
  <2>4. CASE Tick
    BY <2>4, TickMarks, RentalsSame
  <2>5. CASE \/ Withdrawal \/ Anchor \/ Sweeping \/ AdminRoles \/ AdminConfig \/ AdminOverrides
             \/ AdminMoney \/ RecoveryStep \/ HaltStep
    BY <2>5, QuietChains, RentalsSame
  <2> QED BY <2>1, <2>2, <2>3, <2>4, <2>5
<1> QED BY <1>1, <1>2, UncountedQuiet

\* A call that is answered elsewhere.
LEMMA ExternalQuiet ==
    ASSUME TypeInv, NEW c \in Slots, RunExternal(c)
    PROVE  CountQuiet
<1>1. Uncounted
  <2>1. CASE RunQuery(c) \/ RunBalances(c) \/ RunForceTransfer(c) \/ RunPayment(c)
    BY <2>1 DEF RunQuery, RunBalances, RunForceTransfer, RunPayment, unchangedByOthers, nameVars,
       Uncounted
  <2>2. CASE ManagerStep(c)
    BY <2>2 DEF ManagerStep, create_sub_account, on_key_derived, on_wallet_created,
       on_signer_settled, on_creation_failed, retry_install, on_retry_key_derived,
       unchangedByManager, nameVars, Uncounted
  <2> QED BY <2>1, <2>2 DEF RunExternal
<1>2. GoesOn(c)
  BY ExternalChain, BalancesAnswer DEF MovesOn
<1> QED BY <1>1, <1>2, RentalsSame, UncountedQuiet

\* A callback that settles something else than a mint, a re-rent or a reclaim.
LEMMA CallbackQuiet ==
    ASSUME TypeInv, NEW c \in Slots,
           \/ on_listing_verified(c) \/ on_offer_verified(c)
           \/ on_buy_balances_checked(c) \/ on_buy_paid_balances_checked(c)
           \/ on_sub_account_sold(c) \/ on_sub_account_sold_paid(c)
           \/ on_retry_signer_settled(c) \/ on_balances_checked(c) \/ on_claim_refund_settled(c)
    PROVE  CountQuiet
<1>1. UNCHANGED <<tlas, countVars, overridden>> /\ chains[c].kind \notin RentalKinds
  <2>1. CASE on_listing_verified(c) \/ on_offer_verified(c)
    BY <2>1 DEF on_listing_verified, on_offer_verified, CallbackDue, RentalKinds, worldVars
  <2>2. CASE on_buy_balances_checked(c) \/ on_buy_paid_balances_checked(c)
    BY <2>2 DEF on_buy_balances_checked, on_buy_paid_balances_checked, CallbackDue, RentalKinds,
       worldVars
  <2>3. CASE on_sub_account_sold(c) \/ on_sub_account_sold_paid(c)
    BY <2>3 DEF on_sub_account_sold, on_sub_account_sold_paid, CallbackDue, RentalKinds, worldVars
  <2>4. CASE on_retry_signer_settled(c) \/ on_claim_refund_settled(c)
    BY <2>4 DEF on_retry_signer_settled, on_claim_refund_settled, CallbackDue, RentalKinds, worldVars
  <2>5. CASE on_balances_checked(c)
    BY <2>5 DEF on_balances_checked, CallbackDue, RentalKinds, worldVars
  <2> QED BY <2>1, <2>2, <2>3, <2>4, <2>5
<1>2. SameRentals
  <2>1. Ends(c) \/ GoesOn(c)
    BY CallbackChain DEF RunCallback, Passes
  <2> QED BY <1>1, <2>1, RentalsSame
<1>3. CASE UNCHANGED sub_accounts
  BY <1>1, <1>2, <1>3, UncountedQuiet DEF Uncounted
<1>4. ASSUME NEW w \in Wallets, Rented(w), NEW o \in Users, NEW m \in Accounts,
             sub_accounts' = NewTenant(w, o, m)
      PROVE  CountQuiet
  <2>1. SameRented
    BY <1>4, TenantChange DEF TypeInv, SameRented
  <2> QED BY <1>1, <1>2, <2>1 DEF CountQuiet
<1>5. CASE on_sub_account_sold(c)
  <2>1. /\ InFlight(c) /\ chains[c].wallet \in Wallets /\ chains[c].user \in Users
    BY <1>5, CallbackTyped DEF on_sub_account_sold, TypeInv, GoodChain
  <2> QED BY <1>3, <1>4, <1>5, <2>1 DEF on_sub_account_sold, Sold, Accounts
<1>6. CASE on_sub_account_sold_paid(c)
  <2>1. /\ InFlight(c) /\ chains[c].wallet \in Wallets /\ chains[c].user \in Users
        /\ chains[c].other \in Users
    BY <1>6, CallbackTyped DEF on_sub_account_sold_paid, TypeInv, GoodChain
  <2> QED BY <1>3, <1>4, <1>6, <2>1 DEF on_sub_account_sold_paid, Sold, Accounts
<1>7. CASE \/ on_listing_verified(c) \/ on_offer_verified(c) \/ on_retry_signer_settled(c)
           \/ on_balances_checked(c) \/ on_claim_refund_settled(c)
           \/ on_buy_balances_checked(c) \/ on_buy_paid_balances_checked(c)
  <2>1. UNCHANGED sub_accounts
    BY <1>7 DEF on_listing_verified, on_offer_verified, on_buy_balances_checked,
       on_buy_paid_balances_checked, on_retry_signer_settled, on_balances_checked,
       on_claim_refund_settled, nameVars
  <2> QED BY <1>3, <2>1
<1> QED BY <1>5, <1>6, <1>7

LEMMA FailedCounts ==
    ASSUME IsFiniteSet(Wallets), NoticeOutlastsChains, TypeInv, TenancyInv, CountInv,
           NEW c \in Slots, NEW w \in Wallets, On(c, w, RentalKinds),
           settle_failed_mint(c), End(c), UNCHANGED <<tlas, worldVars>>
    PROVE  CountInv'
<1>1. Ends(c)
  BY ChainEnds DEF On, Ends, TypeInv
<1>2. /\ SetEntry(w, None) /\ business_count_decrement_if_business(TlaOf[w])
      /\ UNCHANGED sub_account_count
  BY DEF settle_failed_mint, SetEntry, On
<1> QED BY <1>1, <1>2, FailureCounts DEF Calm, worldVars

LEMMA RentalCounts ==
    ASSUME IsFiniteSet(Wallets), NoticeOutlastsChains, TypeInv, TenancyInv, CountInv,
           NEW c \in Slots,
           \/ on_sub_account_created(c) \/ on_sub_account_created_paid(c)
           \/ on_re_rent_balances_checked(c) \/ on_sub_account_re_rented(c)
    PROVE  CountInv'
<1>1. UNCHANGED <<tlas, worldVars>> /\ \E methods : CallbackDue(c, RentalKinds, methods)
  <2>1. CASE on_sub_account_created(c) \/ on_sub_account_created_paid(c)
    BY <2>1 DEF on_sub_account_created, on_sub_account_created_paid, Created, CallbackDue, RentalKinds
  <2>2. CASE on_re_rent_balances_checked(c) \/ on_sub_account_re_rented(c)
    BY <2>2 DEF on_re_rent_balances_checked, on_sub_account_re_rented, CallbackDue, RentalKinds
  <2> QED BY <2>1, <2>2
<1>2. PICK w \in Wallets : chains[c].wallet = w /\ On(c, w, RentalKinds)
  BY <1>1, CallbackName DEF RentalKinds
<1>3. CASE settle_failed_mint(c) /\ End(c)
  BY <1>1, <1>2, <1>3, FailedCounts
<1>4. CASE /\ End(c) /\ UNCHANGED <<sub_accounts, business_sub_count>>
           /\ sub_account_count' = sub_account_count + (IF Rented(w) THEN 1 ELSE 0)
  <2>1. Ends(c)
    BY <1>2, <1>4, ChainEnds DEF On, Ends, TypeInv
  <2> QED BY <1>1, <1>2, <1>4, <2>1, MintCounts DEF Calm, worldVars
<1>5. CASE on_sub_account_created(c) \/ on_sub_account_created_paid(c)
  BY <1>2, <1>3, <1>4, <1>5 DEF on_sub_account_created, on_sub_account_created_paid, Created, RecordRental
<1>6. CASE on_re_rent_balances_checked(c)
  <2>1. CASE chains[c].result = "blocked"
    BY <1>3, <1>6, <2>1 DEF on_re_rent_balances_checked
  <2>2. CASE chains[c].result # "blocked"
    <3>1. Uncounted
      BY <1>1, <1>6, <2>2 DEF on_re_rent_balances_checked, nameVars, worldVars, Uncounted
    <3>2. /\ Proceed(c, "transfer") /\ InFlight(c) /\ "transfer" \in MethodsOf(chains[c].kind)
          /\ chains[c].kind = "rerent"
      BY <1>6, <2>2, MethodFacts DEF on_re_rent_balances_checked, CallbackDue
    <3>3. GoesOn(c)
      BY <3>2, ChainProceeds DEF TypeInv
    <3> QED BY <3>1, <3>3, RentalsSame, UncountedQuiet, CountQuietKeeps
  <2> QED BY <2>1, <2>2
<1>7. CASE on_sub_account_re_rented(c)
  <2>1. CASE chains[c].result = "err"
    BY <1>3, <1>7, <2>1 DEF on_sub_account_re_rented
  <2>2. CASE chains[c].result # "err"
    <3>1. overridden = {} => Rented(w)
      BY <1>2, RentalFacts DEF RentalRuns
    <3>2. CASE overridden # {}
      BY <1>1, <3>2 DEF CountInv, worldVars
    <3>3. CASE overridden = {}
      BY <1>4, <1>7, <2>2, <3>1, <3>3 DEF on_sub_account_re_rented
    <3> QED BY <3>2, <3>3
  <2> QED BY <2>1, <2>2
<1> QED BY <1>5, <1>6, <1>7

LEMMA ReclaimCounts ==
    ASSUME IsFiniteSet(Wallets), NoticeOutlastsChains, TypeInv, TenancyInv, CountInv,
           NEW c \in Slots, on_reclaim_finalized(c)
    PROVE  CountInv'
<1>1. CallbackDue(c, {"reclaim"}, Rekeying) /\ End(c) /\ UNCHANGED <<tlas, worldVars>>
  BY DEF on_reclaim_finalized
<1>2. PICK w \in Wallets : chains[c].wallet = w /\ On(c, w, {"reclaim"})
  BY <1>1, CallbackName
<1>3. Ends(c) /\ chains[c].kind \notin RentalKinds
  BY <1>1, <1>2, ChainEnds DEF On, Ends, TypeInv, RentalKinds
<1>4. CASE ~(chains[c].result # "err" /\ Rented(w))
  <2>1. Uncounted
    BY <1>1, <1>2, <1>4 DEF on_reclaim_finalized, nameVars, worldVars, Uncounted
  <2> QED BY <1>3, <2>1, RentalsSame, UncountedQuiet, CountQuietKeeps
<1>5. CASE chains[c].result # "err" /\ Rented(w)
  <2>1. /\ SetEntry(w, None) /\ business_count_decrement_if_business(TlaOf[w])
        /\ sub_account_count' = saturating_sub(sub_account_count, 1)
    BY <1>2, <1>5 DEF on_reclaim_finalized, SetEntry
  <2> QED BY <1>1, <1>2, <1>3, <1>5, <2>1, ParkCounts DEF Calm, worldVars
<1> QED BY <1>4, <1>5

LEMMA RentNameCounts ==
    ASSUME IsFiniteSet(Wallets), TypeInv, CountInv, RentName
    PROVE  CountInv'
<1>1. PICK c \in Slots, u \in Users, w \in Wallets, k \in Keys, m \in Accounts, paid \in Payments :
        rent_sub_account(c, u, w, k, m, paid) \/ rent_sub_account_paid(c, u, w, k, m, paid)
  BY DEF RentName
<1>2. business_count_check_and_bump(TlaOf[w]) /\ UNCHANGED sub_account_count
  BY <1>1 DEF rent_sub_account, rent_sub_account_paid, Enter
<1>3. /\ Renting(c, w) /\ Calm
      /\ \A v \in Wallets \ {w} : Rented(v)' <=> Rented(v)
  BY <1>1, RentRenting DEF Rented
<1> QED BY <1>2, <1>3, RentCounts

LEMMA CountStep ==
    ASSUME IsFiniteSet(Wallets), NoticeOutlastsChains, TypeInv, TenancyInv, CountInv,
           [RegistryNext]_registryVars, [LeaseStep]_registryVars
    PROVE  CountInv'
<1>1. SUFFICES ASSUME ~RentName, ~Receipts PROVE CountQuiet
  <2>1. ASSUME NEW c \in Slots, RunCallback(c) PROVE CountInv'
    BY <2>1, CallbackQuiet, CountQuietKeeps, RentalCounts, ReclaimCounts DEF RunCallback
  <2> QED BY <2>1, RentNameCounts, ExternalQuiet, CountQuietKeeps DEF Receipts, RunReceipt
<1>2. CASE UNCHANGED registryVars
  <2>1. Uncounted /\ UNCHANGED chains
    BY <1>2 DEF registryVars, nameVars, worldVars, Uncounted
  <2> QED BY <2>1, RentalsSame, UncountedQuiet
<1>3. CASE LeaseStep /\ (RunTla \/ AdminTlas)
  BY <1>3, TlaQuiet
<1> QED BY <1>1, <1>2, <1>3, TradeQuiet, KeepQuiet, OthersQuiet DEF RegistryNext

LEMMA CountInit == RegistryInit => CountInv
<1> SUFFICES ASSUME RegistryInit PROVE CountInv
  OBVIOUS
<1>1. /\ \A t \in Tlas : tlas[t] = None /\ business_sub_count[t] = 0
      /\ sub_account_count = 0 /\ Settled = {}
  BY DEF RegistryInit, Settled, Rented
<1> QED BY <1>1, FS_EmptySet DEF CountInv

\* Every mint or re-rent in flight is of one name that is entered and not yet
\* counted.
LEMMA RentalsOfNames ==
    ASSUME IsFiniteSet(Wallets), IsFiniteSet(Slots), NoticeOutlastsChains, TypeInv, TenancyInv,
           overridden = {}
    PROVE  Cardinality({c \in Slots : InFlight(c) /\ chains[c].kind \in RentalKinds})
             + Cardinality(Settled)
           = Cardinality({w \in Wallets : Rented(w)})
<1>1. PICK A, B, R : /\ A = {c \in Slots : InFlight(c) /\ chains[c].kind \in RentalKinds}
                     /\ R = {w \in Wallets : Rented(w)}
                     /\ B = R \ Settled
  OBVIOUS
<1>2. \A c \in A : chains[c].wallet \in Wallets /\ On(c, chains[c].wallet, RentalKinds)
  <2> SUFFICES ASSUME NEW c \in A
               PROVE  chains[c].wallet \in Wallets /\ On(c, chains[c].wallet, RentalKinds)
    OBVIOUS
  <2>1. c \in Slots /\ InFlight(c) /\ chains[c].kind \in RentalKinds
    BY <1>1
  <2>2. chains[c].wallet \in Wallets
    BY <2>1, ChainTyped DEF TypeInv, GoodChain, RentalKinds
  <2> QED BY <2>1, <2>2 DEF On
<1>3. \A c \in A : chains[c].wallet \in B
  <2> SUFFICES ASSUME NEW c \in A PROVE chains[c].wallet \in B
    OBVIOUS
  <2>1. PICK w \in Wallets : chains[c].wallet = w /\ On(c, w, RentalKinds)
    BY <1>2
  <2>2. Rented(w) /\ w \notin Settled
    BY <1>1, <2>1, RentalFacts DEF RentalRuns, Settled
  <2> QED BY <1>1, <2>1, <2>2
<1>4. \A c, d \in A : chains[c].wallet = chains[d].wallet => c = d
  <2> SUFFICES ASSUME NEW c \in A, NEW d \in A, chains[c].wallet = chains[d].wallet
               PROVE  c = d
    OBVIOUS
  <2>1. PICK w \in Wallets : On(c, w, RentalKinds) /\ On(d, w, RentalKinds)
    BY <1>2
  <2> QED BY <1>1, <2>1, RentalFacts DEF RentalAlone
<1>5. \A w \in B : \E c \in A : chains[c].wallet = w
  BY <1>1 DEF Settled, On
<1>6. PICK f : f = [c \in A |-> chains[c].wallet]
  OBVIOUS
<1>7. f \in Bijection(A, B)
  <2>1. f \in [A -> B] /\ DOMAIN f = A /\ \A c \in A : f[c] = chains[c].wallet
    BY <1>3, <1>6
  <2>2. f \in Injection(A, B)
    BY <1>4, <2>1 DEF Injection, IsInjective
  <2>3. f \in Surjection(A, B)
    BY <1>5, <2>1 DEF Surjection
  <2> QED BY <2>2, <2>3 DEF Bijection
<1>8. IsFiniteSet(A) /\ Cardinality(B) = Cardinality(A) /\ Cardinality(A) \in Nat
  <2>1. IsFiniteSet(A)
    BY <1>1, FS_Subset
  <2> QED BY <1>7, <2>1, FS_Bijection, FS_CardinalityType DEF ExistsBijection
<1>9. IsFiniteSet(R) /\ Settled \subseteq R
  BY <1>1, FS_Subset DEF Settled
<1>10. R \cap Settled = Settled /\ IsFiniteSet(Settled)
  BY <1>9, FS_Subset
<1>11. Cardinality(B) = Cardinality(R) - Cardinality(Settled)
  <2>1. Cardinality(R \ Settled) = Cardinality(R) - Cardinality(R \cap Settled)
    BY <1>9, FS_Difference
  <2> QED BY <1>1, <1>10, <2>1
<1>12. Cardinality(R) \in Nat /\ Cardinality(Settled) \in Nat
  BY <1>9, <1>10, FS_CardinalityType
<1> QED BY <1>1, <1>8, <1>11, <1>12

\* The counters agree with the names however mints, failures, re-rents and
\* reclaims interleave, for any number of names and chains, provided the
\* notice of a retraction is longer than a chain of receipts takes.
THEOREM CountersAgree ==
    ASSUME NoticeOutlastsChains, IsFiniteSet(Wallets), IsFiniteSet(Slots)
    PROVE  RegistrySpec => []CountsAgree
<1>1. TypeInv /\ TenancyInv /\ CountInv => CountsAgree
  <2> SUFFICES ASSUME TypeInv, TenancyInv, CountInv, overridden = {}
               PROVE  /\ \A t \in Tlas :
                           tlas[t] # None /\ IsBusiness(t) =>
                             business_sub_count[t]
                               = Cardinality({w \in Wallets : TlaOf[w] = t /\ Rented(w)})
                      /\ sub_account_count
                           + Cardinality({c \in Slots : InFlight(c)
                               /\ chains[c].kind \in {"mint", "mint_paid", "rerent"}})
                         = Cardinality({w \in Wallets : Rented(w)})
    BY DEF CountsAgree
  <2>1. Cardinality({c \in Slots : InFlight(c) /\ chains[c].kind \in RentalKinds})
          + Cardinality(Settled)
        = Cardinality({w \in Wallets : Rented(w)})
    BY RentalsOfNames
  <2>2. /\ Cardinality(Settled) \in Nat
        /\ Cardinality({c \in Slots : InFlight(c) /\ chains[c].kind \in RentalKinds}) \in Nat
    <3>1. /\ IsFiniteSet(Settled)
          /\ IsFiniteSet({c \in Slots : InFlight(c) /\ chains[c].kind \in RentalKinds})
      BY FS_Subset DEF Settled
    <3> QED BY <3>1, FS_CardinalityType
  <2>3. sub_account_count = Cardinality(Settled)
    BY DEF CountInv
  <2>4. sub_account_count
          + Cardinality({c \in Slots : InFlight(c) /\ chains[c].kind \in RentalKinds})
        = Cardinality({w \in Wallets : Rented(w)})
    BY <2>1, <2>2, <2>3
  <2> QED BY <2>4 DEF CountInv, Entered, RentalKinds
<1>2. TypeInv /\ TenancyInv /\ CountInv /\ [RegistryNext]_registryVars /\ [LeaseStep]_registryVars
      => CountInv'
  BY CountStep
<1> QED BY <1>1, <1>2, CountInit, TypesHold, TenancyHolds, LeasesKept, PTL
        DEF RegistrySpec, LeasesNeverShrink

-----------------------------------------------------------------------------
(* Mothers.                                                                *)

\* Those who anchor to a wallet.
Anchored(w) == {u \in Users : mothers[u] = w}

\* A wallet is counted as a mother at least as often as it is one, whether
\* its name is rented or not: a reference that is dropped while the name is
\* not rented leaves the count as it is.
AnchorInv == \A w \in Wallets : mother_use_count[w] >= Cardinality(Anchored(w))

LEMMA AnchoredCount ==
    ASSUME IsFiniteSet(Users), NEW w
    PROVE  IsFiniteSet(Anchored(w)) /\ Cardinality(Anchored(w)) \in Nat
<1>1. Anchored(w) \subseteq Users
  BY DEF Anchored
<1>2. IsFiniteSet(Anchored(w))
  BY <1>1, FS_Subset
<1> QED BY <1>2, FS_CardinalityType

\* One reference, if it is to the wallet.
Ref(a, w) == IF a = w THEN 1 ELSE 0

\* One user anchors elsewhere.
LEMMA AnchorMoves ==
    ASSUME IsFiniteSet(Users), AnchorsOK, NEW u \in Users, NEW x, NEW w,
           mothers' = [mothers EXCEPT ![u] = x]
    PROVE  Cardinality(Anchored(w)') + Ref(mothers[u], w) = Cardinality(Anchored(w)) + Ref(x, w)
<1>1. \A v \in Users : mothers'[v] = IF v = u THEN x ELSE mothers[v]
  BY DEF AnchorsOK, Accounts
<1>2. PICK A, B : A = Anchored(w) /\ B = Anchored(w)'
  OBVIOUS
<1>3. IsFiniteSet(A) /\ Cardinality(A) \in Nat
  BY <1>2, AnchoredCount
<1>4. CASE mothers[u] = w /\ x # w
  <2>1. u \in A /\ B = A \ {u}
    BY <1>1, <1>2, <1>4 DEF Anchored
  <2>2. Cardinality(B) = Cardinality(A) - 1
    BY <1>3, <2>1, FS_RemoveElement
  <2>3. Cardinality(B) + 1 = Cardinality(A) + 0
    BY <1>3, <2>2
  <2> QED BY <1>2, <1>4, <2>3 DEF Ref
<1>5. CASE mothers[u] # w /\ x = w
  <2>1. u \notin A /\ B = A \cup {u}
    BY <1>1, <1>2, <1>5 DEF Anchored
  <2>2. Cardinality(B) = Cardinality(A) + 1
    BY <1>3, <2>1, FS_AddElement
  <2>3. Cardinality(B) + 0 = Cardinality(A) + 1
    BY <1>3, <2>2
  <2> QED BY <1>2, <1>5, <2>3 DEF Ref
<1>6. CASE (mothers[u] # w /\ x # w) \/ (mothers[u] = w /\ x = w)
  <2>1. B = A
    BY <1>1, <1>2, <1>6 DEF Anchored
  <2>2. Ref(mothers[u], w) = Ref(x, w)
    BY <1>6 DEF Ref
  <2> QED BY <1>2, <2>1, <2>2
<1> QED BY <1>4, <1>5, <1>6

\* The counts follow: what is left is counted once less at most, what is
\* taken up once more at least.
LEMMA AnchorsFollow ==
    ASSUME IsFiniteSet(Users), TypeInv, TypeInv', AnchorInv, NEW u \in Users, NEW x,
           mothers' = [mothers EXCEPT ![u] = x],
           \A w \in Wallets : mother_use_count'[w] + Ref(mothers[u], w)
                                >= mother_use_count[w] + Ref(x, w)
    PROVE  AnchorInv'
<1> SUFFICES ASSUME NEW w \in Wallets
             PROVE  mother_use_count'[w] >= Cardinality(Anchored(w)')
  BY DEF AnchorInv
<1>1. PICK n, m, a, b, r, s :
        /\ n = mother_use_count[w] /\ m = mother_use_count'[w]
        /\ a = Cardinality(Anchored(w)) /\ b = Cardinality(Anchored(w)')
        /\ r = Ref(mothers[u], w) /\ s = Ref(x, w)
  OBVIOUS
<1>2. n \in Nat /\ m \in Nat /\ AnchorsOK
  BY <1>1 DEF TypeInv, AnchorsOK, Accounts
<1>3. r \in Nat /\ s \in Nat
  BY <1>1 DEF Ref
<1>4. a \in Nat /\ n >= a
  BY <1>1, AnchoredCount DEF AnchorInv
<1>5. b \in Nat
  <2>1. IsFiniteSet(Anchored(w)')
    <3>1. Anchored(w)' \subseteq Users
      BY DEF Anchored
    <3> QED BY <3>1, FS_Subset
  <2> QED BY <1>1, <2>1, FS_CardinalityType
<1>6. b + r = a + s
  BY <1>1, <1>2, AnchorMoves
<1>7. m + r >= n + s
  BY <1>1
<1> QED BY <1>1, <1>2, <1>3, <1>4, <1>5, <1>6, <1>7

LEMMA AnchorsSame ==
    ASSUME AnchorInv, UNCHANGED anchorVars
    PROVE  AnchorInv'
BY DEF AnchorInv, Anchored, anchorVars

LEMMA UseCounts ==
    ASSUME NEW count \in [Accounts -> Nat], NEW a \in Accounts
    PROVE  /\ increment_mother_use(count, a)[a] = count[a] + 1
           /\ decrement_mother_use(count, a)[a] >= count[a] - 1
           /\ increment_mother_use(count, a) \in [Accounts -> Nat]
           /\ decrement_mother_use(count, a) \in [Accounts -> Nat]
           /\ \A b \in Accounts \ {a} :
                /\ increment_mother_use(count, a)[b] = count[b]
                /\ decrement_mother_use(count, a)[b] = count[b]
BY DEF increment_mother_use, decrement_mother_use, saturating_sub

\* No wallet takes itself for its mother while nobody rents its name: whoever
\* holds the key of a parked wallet does not rent with it.
OnlyTenantsAnchor ==
    \A u \in Users \cap Wallets : mothers[u] # u /\ mothers'[u] = u => Rented(u)

LEMMA DefaultAnchors ==
    ASSUME IsFiniteSet(Users), TypeInv, TypeInv', AnchorInv, OnlyTenantsAnchor, NEW u \in Users,
           ensure_mother_default(u)
    PROVE  AnchorInv'
<1>1. CASE mothers[u] # None
  BY <1>1, AnchorsSame DEF ensure_mother_default
<1>2. CASE mothers[u] = None
  <2>1. /\ u \in Accounts /\ mothers' = [mothers EXCEPT ![u] = u]
        /\ mother_use_count \in [Accounts -> Nat] /\ mothers'[u] = u
    BY <1>2 DEF ensure_mother_default, Accounts, TypeInv, AnchorsOK
  <2>2. \A w \in Wallets : w \in Accounts /\ mothers[u] # w
    BY <1>2, RegistryConstants DEF Accounts
  <2>3. \A w \in Wallets : Ref(mothers[u], w) = 0 /\ mother_use_count[w] \in Nat
    BY <2>1, <2>2 DEF Ref
  <2>4. ASSUME NEW w \in Wallets
        PROVE  mother_use_count'[w] = mother_use_count[w] + Ref(u, w)
    <3>1. CASE Managed(u)
      <4>1. mother_use_count' = increment_mother_use(mother_use_count, u)
        BY <1>2, <3>1 DEF ensure_mother_default
      <4> QED BY <2>1, <2>2, <2>3, <4>1, UseCounts DEF Ref
    <3>2. CASE ~Managed(u)
      <4>1. UNCHANGED mother_use_count
        BY <1>2, <3>2 DEF ensure_mother_default
      <4>2. u # w
        BY <2>1, <2>2, <3>2 DEF OnlyTenantsAnchor, Managed
      <4> QED BY <2>3, <4>1, <4>2 DEF Ref
    <3> QED BY <3>1, <3>2
  <2>5. \A w \in Wallets : mother_use_count'[w] + Ref(mothers[u], w)
                             >= mother_use_count[w] + Ref(u, w)
    BY <2>3, <2>4 DEF Ref
  <2> QED BY <2>1, <2>5, AnchorsFollow
<1> QED BY <1>1, <1>2

LEMMA SetMotherAnchors ==
    ASSUME IsFiniteSet(Users), TypeInv, TypeInv', AnchorInv, NEW u \in Users,
           NEW new \in Wallets, set_mother(u, new)
    PROVE  AnchorInv'
<1>1. PICK old, count : /\ old = mothers[u]
                        /\ count = IF old # None /\ Managed(old)
                                     THEN decrement_mother_use(mother_use_count, old)
                                     ELSE mother_use_count
  OBVIOUS
<1>2. /\ old # new /\ mothers' = [mothers EXCEPT ![u] = new]
      /\ mother_use_count' = increment_mother_use(count, new)
  BY <1>1 DEF set_mother
<1>3. old \in Accounts \cup {None} /\ mother_use_count \in [Accounts -> Nat]
      /\ Wallets \subseteq Accounts
  BY <1>1 DEF TypeInv, AnchorsOK, Accounts
<1>4. /\ count \in [Accounts -> Nat]
      /\ \A w \in Wallets : count[w] + Ref(old, w) >= mother_use_count[w]
  <2>1. CASE old # None /\ Managed(old)
    BY <1>1, <1>3, <2>1, UseCounts DEF Ref
  <2>2. CASE ~(old # None /\ Managed(old))
    BY <1>1, <1>3, <2>2 DEF Ref
  <2> QED BY <2>1, <2>2
<1>5. \A w \in Wallets : mother_use_count'[w] = count[w] + Ref(new, w)
  BY <1>2, <1>3, <1>4, UseCounts DEF Ref
<1>6. \A w \in Wallets : /\ mother_use_count[w] \in Nat /\ count[w] \in Nat
                         /\ Ref(old, w) \in Nat /\ Ref(new, w) \in Nat
  BY <1>3, <1>4 DEF Ref
<1>7. \A w \in Wallets : mother_use_count'[w] + Ref(old, w)
                           >= mother_use_count[w] + Ref(new, w)
  BY <1>4, <1>5, <1>6
<1> QED BY <1>1, <1>2, <1>7, AnchorsFollow

\* An anchor is given up.
LEMMA AnchorDropped ==
    ASSUME IsFiniteSet(Users), TypeInv, TypeInv', AnchorInv, NEW u \in Users, mothers[u] # None,
           mothers' = [mothers EXCEPT ![u] = None],
           \/ UNCHANGED mother_use_count
           \/ mother_use_count' = decrement_mother_use(mother_use_count, mothers[u])
    PROVE  AnchorInv'
<1>1. PICK old : old = mothers[u]
  OBVIOUS
<1>2. /\ old \in Accounts /\ mother_use_count \in [Accounts -> Nat]
      /\ \A w \in Wallets : w \in Accounts /\ w # None
  BY <1>1, RegistryConstants DEF TypeInv, AnchorsOK, Accounts
<1>3. \A w \in Wallets : mother_use_count'[w] + Ref(old, w) >= mother_use_count[w]
  BY <1>1, <1>2, UseCounts DEF Ref
<1>4. \A w \in Wallets : Ref(None, w) = 0 /\ mother_use_count[w] \in Nat
  BY <1>2 DEF Ref
<1>5. \A w \in Wallets : mother_use_count'[w] + Ref(old, w) >= mother_use_count[w] + Ref(None, w)
  BY <1>3, <1>4
<1> QED BY <1>1, <1>5, AnchorsFollow

LEMMA ReclaimAnchors ==
    ASSUME IsFiniteSet(Users), TypeInv, TypeInv', AnchorInv, NEW c \in Slots,
           on_reclaim_finalized(c)
    PROVE  AnchorInv'
<1>1. PICK w, u : w = chains[c].wallet /\ u = sub_accounts[w].owner
  OBVIOUS
<1>2. \/ UNCHANGED anchorVars
      \/ /\ Rented(w) /\ mothers[u] = w /\ mothers' = [mothers EXCEPT ![u] = None]
         /\ mother_use_count' = decrement_mother_use(mother_use_count, w)
  BY <1>1 DEF on_reclaim_finalized
<1>3. w \in Wallets
  BY <1>1, CallbackTyped DEF TypeInv, on_reclaim_finalized, GoodChain
<1>4. w # None
  BY <1>3, RegistryConstants DEF Accounts
<1>5. Rented(w) => u \in Users
  BY <1>1, <1>3 DEF TypeInv, NamesOK, Rented, SubAccountEntry
<1> QED BY <1>2, <1>4, <1>5, AnchorsSame, AnchorDropped

\* The steps that have nothing to do with mothers.
LEMMA AnchorsQuiet ==
    ASSUME \/ Trade \/ Withdrawal \/ KeepName \/ RunTla \/ Retract \/ Reclaiming \/ Sweeping
           \/ Claiming \/ AdminRoles \/ AdminConfig \/ AdminTlas \/ AdminMoney
           \/ \E caller \in Admins, w \in Wallets :
                 admin_clear_settling(caller, w) \/ admin_clear_reclaim_pending(caller, w)
           \/ RecoveryStep \/ HaltStep \/ TokenStep \/ Tick \/ UNCHANGED registryVars
    PROVE  UNCHANGED anchorVars
<1>1. CASE Trade
  <2>1. ASSUME NEW c \in Slots, NEW u \in Users, NEW w \in Wallets, NEW k \in Keys
        PROVE  /\ Advertise(c, u, w, k) => UNCHANGED anchorVars
               /\ Purchase(c, u, w, k) => UNCHANGED anchorVars
    <3>1. Advertise(c, u, w, k) => UNCHANGED anchorVars
      BY DEF Advertise, list_sub_account, accept_offer
    <3>2. Purchase(c, u, w, k) => UNCHANGED anchorVars
      BY DEF Purchase, buy_sub_account, buy_sub_account_paid
    <3> QED BY <3>1, <3>2
  <2> QED BY <1>1, <2>1 DEF Trade
<1>2. CASE Withdrawal \/ Retract
  BY <1>2 DEF Withdrawal, unlist_sub_account, revoke_offer, Retract, schedule_retraction,
     cancel_retraction, SetRetraction
<1>3. CASE KeepName
  <2>1. ASSUME NEW u \in Users, NEW w \in Wallets
        PROVE  /\ \A paid \in Payments : renew_sub_account(u, w, paid) => UNCHANGED anchorVars
               /\ \A m \in Accounts : set_main_wallet(u, w, m) => UNCHANGED anchorVars
               /\ \A c \in Slots : retry_signer_install(c, u, w) => UNCHANGED anchorVars
    BY DEF renew_sub_account, set_main_wallet, retry_signer_install
  <2> QED BY <1>3, <2>1 DEF KeepName
<1>4. CASE RunTla
  BY <1>4 DEF RunTla, activate_tla, renew_tla
<1>5. CASE Reclaiming \/ Sweeping \/ Claiming
  BY <1>5 DEF Reclaiming, reclaim_finalize, Sweeping, reclaim_sweep_ft, RunSweep, Claiming,
     claim_refund
<1>6. CASE AdminRoles \/ AdminMoney
  BY <1>6 DEF AdminRoles, pause, unpause, add_admin, remove_admin, add_payment_authority,
     remove_payment_authority, SetRoles, AdminMoney, withdraw
<1>7. CASE AdminConfig
  BY <1>7 DEF AdminConfig, update_fee_config, set_parked_signer_pubkey, add_ft_allowlist,
     remove_ft_allowlist, set_business_sub_cap, Configure
<1>8. CASE AdminTlas
  BY <1>8 DEF AdminTlas, register_tla, suspend_tla, unsuspend_tla, activate_open_tla, SetTla
<1>9. CASE \E caller \in Admins, w \in Wallets :
              admin_clear_settling(caller, w) \/ admin_clear_reclaim_pending(caller, w)
  BY <1>9 DEF admin_clear_settling, admin_clear_reclaim_pending
<1>10. CASE RecoveryStep \/ HaltStep \/ TokenStep \/ Tick \/ UNCHANGED registryVars
  BY <1>10 DEF RecoveryStep, HaltStep, unchangedByOthers, TokenStep, TokenArrives, TokenLeaves,
     Tick, registryVars
<1> QED BY <1>1, <1>2, <1>3, <1>4, <1>5, <1>6, <1>7, <1>8, <1>9, <1>10

LEMMA ReceiptAnchors ==
    ASSUME NEW c \in Slots, RunReceipt(c), ~on_reclaim_finalized(c)
    PROVE  UNCHANGED anchorVars
<1>1. CASE RunExternal(c)
  BY <1>1 DEF RunExternal, RunQuery, RunBalances, RunForceTransfer, RunPayment, ManagerStep,
     create_sub_account, on_key_derived, on_wallet_created, on_signer_settled,
     on_creation_failed, retry_install, on_retry_key_derived, unchangedByOthers,
     unchangedByManager
<1>2. CASE RunCallback(c)
  BY <1>2 DEF RunCallback, on_listing_verified, on_offer_verified, on_buy_balances_checked,
     on_buy_paid_balances_checked, on_sub_account_sold, on_sub_account_sold_paid,
     on_sub_account_created, on_sub_account_created_paid, Created, on_re_rent_balances_checked,
     on_sub_account_re_rented, on_retry_signer_settled, on_balances_checked,
     on_claim_refund_settled
<1> QED BY <1>1, <1>2 DEF RunReceipt

LEMMA AnchorStep ==
    ASSUME IsFiniteSet(Users), TypeInv, TypeInv', AnchorInv, [RegistryNext]_registryVars,
           OnlyTenantsAnchor
    PROVE  AnchorInv'
<1>1. CASE RentName
  <2>1. PICK u \in Users, w \in Wallets, m \in Accounts : Enter(w, u, m)
    BY <1>1 DEF RentName, rent_sub_account, rent_sub_account_paid
  <2> QED BY <2>1, DefaultAnchors DEF Enter
<1>2. CASE Anchor
  BY <1>2, SetMotherAnchors DEF Anchor
<1>3. CASE Receipts
  BY <1>3, ReceiptAnchors, ReclaimAnchors, AnchorsSame DEF Receipts
<1>4. ASSUME NEW caller \in Admins, NEW u \in Users, admin_clear_mother(caller, u)
      PROVE  AnchorInv'
  BY <1>4, AnchorDropped DEF admin_clear_mother
<1>5. CASE AdminOverrides
  BY <1>4, <1>5, AnchorsQuiet, AnchorsSame DEF AdminOverrides
<1>6. CASE \/ Trade \/ Withdrawal \/ KeepName \/ RunTla \/ Retract \/ Reclaiming \/ Sweeping
           \/ Claiming \/ AdminRoles \/ AdminConfig \/ AdminTlas \/ AdminMoney
           \/ RecoveryStep \/ HaltStep \/ TokenStep \/ Tick \/ UNCHANGED registryVars
  BY <1>6, AnchorsQuiet, AnchorsSame
<1> QED BY <1>1, <1>2, <1>3, <1>5, <1>6 DEF RegistryNext

\* A rented name is counted as a mother at least as often as somebody anchors
\* to it, however rentals, re-anchorings, clearings and reclaims interleave,
\* for any number of users and names, provided no wallet rents names while
\* its own name is not rented: ensure_mother_default anchors the renter to
\* itself and counts it only if its name is.
THEOREM MothersCounted ==
    ASSUME IsFiniteSet(Users)
    PROVE  RegistrySpec /\ [][OnlyTenantsAnchor]_registryVars => []AnchorsAreCounted
<1>1. RegistryInit => AnchorInv
  <2> SUFFICES ASSUME RegistryInit, NEW w \in Wallets
               PROVE  mother_use_count[w] >= Cardinality(Anchored(w))
    BY DEF AnchorInv
  <2>1. mother_use_count[w] = 0 /\ \A u \in Users : mothers[u] = None
    BY DEF RegistryInit, EmptyBooks, Accounts
  <2>2. w # None
    BY RegistryConstants DEF Accounts
  <2>3. Anchored(w) = {}
    BY <2>1, <2>2 DEF Anchored
  <2>4. Cardinality({}) = 0
    BY FS_EmptySet
  <2> QED BY <2>1, <2>3, <2>4
<1>2. /\ TypeInv /\ TypeInv' /\ AnchorInv /\ [RegistryNext]_registryVars
      /\ [OnlyTenantsAnchor]_registryVars
      => AnchorInv'
  <2> SUFFICES ASSUME TypeInv, TypeInv', AnchorInv, [RegistryNext]_registryVars,
                      [OnlyTenantsAnchor]_registryVars
               PROVE  AnchorInv'
    OBVIOUS
  <2>1. CASE OnlyTenantsAnchor
    BY <2>1, AnchorStep
  <2>2. CASE UNCHANGED registryVars
    BY <2>2, AnchorsQuiet, AnchorsSame
  <2> QED BY <2>1, <2>2
<1>3. AnchorInv => AnchorsAreCounted
  BY DEF AnchorInv, Anchored, AnchorsAreCounted
<1> QED BY <1>1, <1>2, <1>3, TypesHold, PTL DEF RegistrySpec

=============================================================================
