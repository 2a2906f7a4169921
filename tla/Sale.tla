-------------------------------- MODULE Sale --------------------------------
(***************************************************************************)
(* Owned cars and their sale from one account to another, beside the       *)
(* trades of module Trade: /sellcar, /buycar, /declinecar and /givecar,    *)
(* ChatSystem::m_pendingSales and VehicleStore.  A sale moves money of the *)
(* very records a trade holds promises against, so the two share record,   *)
(* and a restart of the server ends both.                                  *)
(***************************************************************************)
EXTENDS Trade, Sequences

CONSTANTS
  Cars,         \* vehicle instance ids
  NoCar,        \* what no vehicle has for an id
  Nobody,       \* the owner of a car that has not been created yet
  Tokens,       \* transaction tokens (GenerateCharacterId)
  NoToken,      \* an empty LockedBy
  Prices        \* asking prices

ASSUME SaleAssumption ==
  Nobody \notin Accounts /\ NoCar \notin Cars /\ NoToken \notin Tokens /\ Prices \subseteq Nat

VARIABLES
  garage,     \* VehicleStore::m_vehicles: per car, its OwnerId and LockedBy
  offers      \* ChatSystem::m_pendingSales, oldest first

saleVars == <<garage, offers>>
allVars == <<vars, saleVars>>

SaleOffers == [token : Tokens, car : Cars \cup {NoCar}, seller : Accounts, buyer : Accounts,
               price : Prices]

SaleInit ==
  /\ Init
  /\ garage = [v \in Cars |-> [owner |-> Nobody, lock |-> NoToken]]
  /\ offers = <<>>

-----------------------------------------------------------------------------
(* VehicleStore *)

Exists(v) == garage[v].owner # Nobody

CanLock(v, t) == Exists(v) /\ garage[v].lock \in {NoToken, t}

\* Wrong on purpose: the lock is cleared whoever holds it.
FreesAnybodys(v, t) ==
  [w \in Cars |-> [owner |-> garage[w].owner,
                   lock |-> IF w = v THEN NoToken ELSE garage[w].lock]]

\* Only the holder releases a lock.
Unlocked(v, t) ==
  [w \in Cars |-> [owner |-> garage[w].owner,
                   lock |-> IF w = v /\ garage[w].lock = t THEN NoToken ELSE garage[w].lock]]

Transferred(v, acct) == [garage EXCEPT ![v] = [owner |-> acct, lock |-> NoToken]]

-----------------------------------------------------------------------------
(* The commands. *)

\* /givecar
GiveCar(acct, v) ==
  /\ acct \in online
  /\ garage[v].owner = Nobody
  /\ garage' = [garage EXCEPT ![v] = [owner |-> acct, lock |-> NoToken]]
  /\ UNCHANGED <<vars, offers>>

\* GenerateCharacterId: nobody holds the token yet.
IsFresh(t) ==
  /\ \A i \in DOMAIN offers : offers[i].token # t
  /\ \A v \in Cars : garage[v].lock # t

\* /sellcar: a car is locked before the buyer hears of it.  pMatch is read after
\* the list OwnedBy returned is gone, once for Lock and again, when Lock has
\* saved, for the offer: either read may give any car's id, or no car's.  Lock
\* refuses an id no car has, and then nothing is offered.
SellCar(acct, other, price) ==
  /\ acct \in online /\ other \in online /\ other # acct
  /\ \E own \in Cars : garage[own].owner = acct
  /\ \E t \in Tokens, locked \in Cars, named \in {v \in Cars : Exists(v)} \cup {NoCar} :
       /\ IsFresh(t) /\ CanLock(locked, t)
       /\ garage' = [garage EXCEPT ![locked].lock = t]
       /\ offers' = Append(offers, [token |-> t, car |-> named, seller |-> acct,
                                    buyer |-> other, price |-> price])
  /\ UNCHANGED vars

\* The first pending sale that concerns the account in the way asked.
FirstOffer(i, Concerns(_)) ==
  /\ i \in DOMAIN offers /\ Concerns(offers[i])
  /\ \A j \in 1 .. i - 1 : ~Concerns(offers[j])

Without(i) == SubSeq(offers, 1, i - 1) \o SubSeq(offers, i + 1, Len(offers))

\* Wrong on purpose: who owns the car now is not asked again.
SellsWhatHasGone(o) ==
  /\ o.car \in Cars
  /\ HasCharacter(o.buyer) /\ HasCharacter(o.seller)
  /\ record[slot[o.buyer]].money >= o.price
  /\ CanAdvanceRevision(record[slot[o.buyer]])
  /\ CanAdvanceRevision(record[slot[o.seller]])
  /\ o.price > 0
  /\ record[slot[o.seller]].money + o.price <= MaxMoney

\* Wrong on purpose: the balance is believed to be what it was at the offer.
TrustsTheOffer(o) ==
  /\ o.car \in Cars /\ garage[o.car].owner = o.seller
  /\ HasCharacter(o.buyer) /\ HasCharacter(o.seller)
  /\ CanAdvanceRevision(record[slot[o.buyer]])
  /\ CanAdvanceRevision(record[slot[o.seller]])
  /\ o.price > 0
  /\ record[slot[o.seller]].money + o.price <= MaxMoney

\* Everything CompleteSale asks again before it charges anybody: the characters
\* in the two slots now, the whole balance, and room and revisions to spare.
SaleGoesThrough(o) ==
  /\ o.car \in Cars /\ garage[o.car].owner = o.seller
  /\ HasCharacter(o.buyer) /\ HasCharacter(o.seller)
  /\ record[slot[o.buyer]].money >= o.price
  /\ CanAdvanceRevision(record[slot[o.buyer]])
  /\ CanAdvanceRevision(record[slot[o.seller]])
  /\ o.price > 0
  /\ record[slot[o.seller]].money + o.price <= MaxMoney

\* Wrong on purpose: the seller is paid and the buyer's record is not written.
PaysFromNothing(o) ==
  record' = [record EXCEPT ![slot[o.seller]] = AdvanceRevision(Credit(@, o.price))]

Charge(o) ==
  record' = [record EXCEPT
    ![slot[o.buyer]] = AdvanceRevision(Debit(@, o.price)),
    ![slot[o.seller]] = AdvanceRevision(Credit(@, o.price))]

\* The car is not the offer's to give: the money goes back, and both revisions count that as well.
ChargeAndRefund(o) ==
  record' = [record EXCEPT
    ![slot[o.buyer]] = AdvanceRevision(AdvanceRevision(@)),
    ![slot[o.seller]] = AdvanceRevision(AdvanceRevision(@))]

\* ChatSystem::CompleteSale.  The lock that is freed is the one of the car the
\* offer names, if that is the offer's; a car that was locked by mistake stays so.
CompleteSale(o) ==
  \/ /\ SaleGoesThrough(o)
     /\ IF garage[o.car].lock \in {NoToken, o.token}
          THEN Charge(o) /\ garage' = Transferred(o.car, o.buyer)
          ELSE ChargeAndRefund(o) /\ UNCHANGED garage
  \/ /\ ~SaleGoesThrough(o)
     /\ garage' = Unlocked(o.car, o.token)
     /\ UNCHANGED record

\* /buycar: whatever comes of it, the offer is gone.
BuyCar(acct) ==
  /\ acct \in online
  /\ \E i \in DOMAIN offers :
       /\ FirstOffer(i, LAMBDA o : o.buyer = acct)
       /\ CompleteSale(offers[i])
       /\ offers' = Without(i)
  /\ UNCHANGED <<people, sessions>>

\* /declinecar, by either of the two.
DeclineCar(acct) ==
  /\ acct \in online
  /\ \E i \in DOMAIN offers :
       /\ FirstOffer(i, LAMBDA o : acct \in {o.buyer, o.seller})
       /\ garage' = Unlocked(offers[i].car, offers[i].token)
       /\ offers' = Without(i)
  /\ UNCHANGED <<vars>>

\* The server stops and starts again: what is written through is read back, and
\* VehicleStore::Load clears every lock.
Restart ==
  /\ online' = {} /\ sessions' = {} /\ offers' = <<>>
  /\ place' = [acct \in Accounts |-> Nowhere]
  /\ garage' = [v \in Cars |-> [owner |-> garage[v].owner, lock |-> NoToken]]
  /\ UNCHANGED <<slot, live, record>>

SaleCommand(acct) ==
  \/ \E v \in Cars : GiveCar(acct, v)
  \/ \E other \in Accounts, price \in Prices : SellCar(acct, other, price)
  \/ BuyCar(acct)
  \/ DeclineCar(acct)

SaleNext ==
  \/ Next /\ UNCHANGED saleVars
  \/ \E acct \in Accounts : SaleCommand(acct)
  \/ Restart

SaleSpec == SaleInit /\ [][SaleNext]_allVars /\ WF_allVars(TickTrades /\ UNCHANGED saleVars)

-----------------------------------------------------------------------------
SaleTypeOK ==
  /\ TypeOK
  /\ garage \in [Cars -> [owner : Accounts \cup {Nobody}, lock : Tokens \cup {NoToken}]]
  /\ offers \in Seq(SaleOffers)

\* A token is one offer's and holds one car at most, and only cars that exist are
\* locked (VehicleStore::Lock), so that ending one sale never reaches another's.
TokensAreOwn ==
  /\ \A i, j \in DOMAIN offers : offers[i].token = offers[j].token => i = j
  /\ \A v \in Cars : garage[v].lock # NoToken =>
       Exists(v) /\ \A w \in Cars : garage[w].lock = garage[v].lock => w = v

\* Whoever sells a car does not buy it (/sellcar turns the own account down): the
\* debit and the credit of CompleteSale fall on two records.
TwoToASale == \A i \in DOMAIN offers : offers[i].seller # offers[i].buyer

\* Everything sales keep, and what trading keeps beside them: balances stay in
\* range too when a sale and a trade draw on one record (CompleteSale,
\* VehicleStore::Lock).
SaleIInv == IInv /\ SaleTypeOK /\ TokensAreOwn /\ TwoToASale

\* A car passes from one account to another only by an offer of its owner's, while
\* no other offer holds it, and against its whole price, from the one account's
\* character to the other's and from nobody else's; and a sale that hands no car
\* over leaves everybody's money and things as they were, the refunded one too
\* (CompleteSale: "nothing is half-done"; /sellcar: "otherwise two people can
\* accept and the second transfer silently wins").
PaidFor(v) ==
  \E o \in {offers[i] : i \in DOMAIN offers} :
    /\ o.car = v /\ o.seller = garage[v].owner /\ o.buyer = garage'[v].owner
    /\ garage[v].lock \in {NoToken, o.token}
    /\ record'[slot[o.buyer]].money = record[slot[o.buyer]].money - o.price
    /\ record'[slot[o.seller]].money = record[slot[o.seller]].money + o.price
    /\ \A c \in Chars \ {slot[o.buyer], slot[o.seller]} : record'[c] = record[c]

PassedOnlyPaidFor ==
  /\ \A v \in Cars :
       garage'[v].owner # garage[v].owner => ~Exists(v) \/ PaidFor(v)
  /\ Len(offers') < Len(offers) /\ Wealth' # Wealth =>
       \E v \in Cars : garage'[v].owner # garage[v].owner

CarsArePaidFor == [][PassedOnlyPaidFor]_allVars

\* A car that an offer holds stays held while the offer stands, whatever other
\* offers, declines and gifts do meanwhile, and once the offer is gone, however
\* it went, it no longer holds the car it named (VehicleStore::Unlock: "Only the
\* holder releases it"; VehicleRecord.h: "Cleared when the sale completes, is
\* declined").
HeldByTheOffer ==
  \A i \in DOMAIN offers, v \in Cars : garage[v].lock = offers[i].token =>
    \/ /\ \E j \in DOMAIN offers' : offers'[j] = offers[i]
       /\ garage'[v] = garage[v]
    \/ /\ \A j \in DOMAIN offers' : offers'[j].token # offers[i].token
       /\ offers[i].car = v => garage'[v].lock = NoToken

LocksLiveWithTheirOffers == [][HeldByTheOffer]_allVars

\* A promise made in a trade is left uncovered by its owner alone, who saved or
\* bought a car: CompleteSale reads the whole balance where every other spender
\* reads what is left of it, and a seller is only ever credited.
KeptButForOwnDeals ==
  (\A s \in sessions : Covered(s)) =>
    \A s \in sessions', x \in Sides :
      \/ Covers(record'[s.party[x]], s.offer[x])
      \/ BuyCar(Owner[s.party[x]])
      \/ \E claim \in SaveClaims : SaveCharacter(Owner[s.party[x]], claim)

PromisesKeptBesideSales == [][KeptButForOwnDeals]_allVars

\* The money gate beside sales: a handler counts one movement of money between two
\* characters, or the two of a payment that was refunded, and nothing else moves
\* a revision (CompleteSale: "A revision counts committed changes to
\* authoritative state, not net outcomes").
Refunded(a, b) ==
  /\ \A c \in {a, b} : record'[c] = AdvanceRevision(AdvanceRevision(record[c]))
  /\ \A c \in Chars \ {a, b} : record'[c] = record[c]

MovementsCountedBesideSales ==
  MovementsCounted \/ \E a \in Chars : \E b \in Chars \ {a} : Refunded(a, b)

RevisionPerMovementBesideSales == [][MovementsCountedBesideSales]_allVars
=============================================================================
