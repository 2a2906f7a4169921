---------------------------- MODULE TradeProofs ----------------------------
(***************************************************************************)
(* Theorems about trading, and about trading with the sale of cars beside  *)
(* it, for any accounts, characters, items, cars and limits.  The theorems *)
(* of Spec come first; those of SaleSpec use that each handler of Trade    *)
(* keeps and implements the same things when a sale changes its records.   *)
(***************************************************************************)
EXTENDS Sale, SequenceTheorems, TLAPS

-----------------------------------------------------------------------------
(* What moving possessions does to one record. *)

\* A record stays a record when its revision has headroom, and only the
\* revision moves (EconomyMutator.h CanAdvanceRevision, AdvanceRevision).
LEMMA AdvanceKeepsHoldings ==
  ASSUME NEW r \in Holdings, CanAdvanceRevision(r)
  PROVE  /\ AdvanceRevision(r) \in Holdings
         /\ AdvanceRevision(r).money = r.money
         /\ AdvanceRevision(r).items = r.items
         /\ IsMigrated(r) => AdvanceRevision(r).revision = r.revision + 1
         /\ ~IsMigrated(r) => AdvanceRevision(r).revision = r.revision
<1>1. MaxRevision \in Nat
  BY ConstantsAssumption
<1>2. QED
  BY <1>1 DEF AdvanceRevision, CanAdvanceRevision, IsMigrated, Holdings

\* At its last value a revision stays where it is (EconomyMutator.h
\* AdvanceRevision), so that a record is a record however often it is counted.
LEMMA AdvanceStays ==
  ASSUME NEW r \in Holdings
  PROVE  /\ AdvanceRevision(r) \in Holdings
         /\ AdvanceRevision(r).money = r.money
         /\ AdvanceRevision(r).items = r.items
<1>1. MaxRevision \in Nat
  BY ConstantsAssumption
<1>2. QED
  BY <1>1 DEF AdvanceRevision, CanAdvanceRevision, IsMigrated, Holdings

\* Giving one bundle and getting another leaves a record, with exactly the
\* difference moved, when both directions were accepted (MoveAssets).
LEMMA SettledHoldings ==
  ASSUME NEW r \in Holdings, NEW gives \in Offers, NEW gets \in Offers,
         NEW advance \in BOOLEAN,
         advance => CanAdvanceRevision(r),
         (r.money - gives.money) + gets.money \in 0 .. MaxMoney,
         \A i \in Items :
           (r.items[i] - gives.items[i]) + gets.items[i] \in 0 .. MaxQuantity
  PROVE  LET t == Settled(r, gives, gets, advance)
         IN  /\ t \in Holdings
             /\ t.money = (r.money - gives.money) + gets.money
             /\ t.items = [i \in Items |-> (r.items[i] - gives.items[i]) + gets.items[i]]
             /\ t.revision = IF advance /\ IsMigrated(r) THEN r.revision + 1 ELSE r.revision
<1> DEFINE m == Plus(Less(r, gives), gets)
<1>1. /\ m.money = (r.money - gives.money) + gets.money
      /\ m.items = [i \in Items |-> (r.items[i] - gives.items[i]) + gets.items[i]]
      /\ m.revision = r.revision
  <2>1. \A i \in Items : Less(r, gives).items[i] = r.items[i] - gives.items[i]
    BY DEF Less
  <2>2. m.items = [i \in Items |-> (r.items[i] - gives.items[i]) + gets.items[i]]
    <3>1. m.items = [i \in Items |-> Less(r, gives).items[i] + gets.items[i]]
      BY Zenon DEF Plus
    <3>2. QED
      BY <2>1, <3>1
  <2>3. QED
    BY <2>2 DEF Plus, Less
<1>2. m = [money |-> m.money, items |-> m.items, revision |-> m.revision]
  BY DEF Plus
<1>3. m \in Holdings
  BY <1>1, <1>2 DEF Holdings
<1>4. CanAdvanceRevision(r) => CanAdvanceRevision(m)
  BY <1>1 DEF CanAdvanceRevision, IsMigrated
<1>5. CASE advance
  <2>1. Settled(r, gives, gets, advance) = AdvanceRevision(m)
    BY <1>5 DEF Settled
  <2>2. IsMigrated(m) <=> IsMigrated(r)
    BY <1>1 DEF IsMigrated
  <2>3. CanAdvanceRevision(m)
    BY <1>4, <1>5
  <2> HIDE DEF m
  <2>4. /\ AdvanceRevision(m) \in Holdings
        /\ AdvanceRevision(m).money = m.money
        /\ AdvanceRevision(m).items = m.items
        /\ IsMigrated(m) => AdvanceRevision(m).revision = m.revision + 1
        /\ ~IsMigrated(m) => AdvanceRevision(m).revision = m.revision
    BY <1>3, <2>3, AdvanceKeepsHoldings
  <2>5. QED
    BY <1>1, <1>5, <2>1, <2>2, <2>4
<1>6. CASE ~advance
  BY <1>1, <1>3, <1>6 DEF Settled
<1>7. QED
  BY <1>5, <1>6

\* Only a settlement that moves money advances the revision (the MONEY GATE).
LEMMA SettledRevision ==
  ASSUME NEW r \in Holdings, NEW gives \in Offers, NEW gets \in Offers
  PROVE  /\ CanAdvanceRevision(r) => Settled(r, gives, gets, TRUE).revision =
              IF IsMigrated(r) THEN r.revision + 1 ELSE r.revision
         /\ Settled(r, gives, gets, FALSE).revision = r.revision
         /\ Settled(r, gives, gets, FALSE).money = (r.money - gives.money) + gets.money
  BY DEF Settled, AdvanceRevision, CanAdvanceRevision, IsMigrated, Plus, Less

-----------------------------------------------------------------------------
(* What the handlers that change possessions leave in the records. *)

\* A trade that goes through leaves both balances and both inventories within
\* their limits: the bounds ApplyTrade checks on the copies are the right ones.
LEMMA TradeKeepsBounds ==
  ASSUME NEW left \in Holdings, NEW right \in Holdings,
         NEW gives \in Offers, NEW returns \in Offers,
         TradeApplies(left, right, gives, returns)
  PROVE  /\ (left.money - gives.money) + returns.money \in 0 .. MaxMoney
         /\ (right.money - returns.money) + gives.money \in 0 .. MaxMoney
         /\ \A i \in Items :
              /\ (left.items[i] - gives.items[i]) + returns.items[i] \in 0 .. MaxQuantity
              /\ (right.items[i] - returns.items[i]) + gives.items[i] \in 0 .. MaxQuantity
<1>1. MaxMoney \in Nat /\ MaxQuantity \in Nat
  BY ConstantsAssumption
<1>2. /\ {left.money, right.money, gives.money, returns.money} \subseteq 0 .. MaxMoney
      /\ \A i \in Items :
           /\ left.items[i] \in 0 .. MaxQuantity
           /\ right.items[i] \in 0 .. MaxQuantity
           /\ gives.items[i] \in 0 .. MaxQuantity
           /\ returns.items[i] \in 0 .. MaxQuantity
  BY DEF Holdings, Offers
<1>3. /\ Plus(right, gives).money = right.money + gives.money
      /\ Less(left, gives).money = left.money - gives.money
      /\ \A i \in Items :
           /\ Plus(right, gives).items[i] = right.items[i] + gives.items[i]
           /\ Less(left, gives).items[i] = left.items[i] - gives.items[i]
  BY DEF Plus, Less
<1>4. /\ gives.money <= left.money
      /\ gives.money > 0 => right.money + gives.money <= MaxMoney
      /\ returns.money <= right.money + gives.money
      /\ returns.money > 0 => (left.money - gives.money) + returns.money <= MaxMoney
  BY <1>3 DEF TradeApplies, Covers, Fits
<1>5. \A i \in Items :
        /\ gives.items[i] <= left.items[i]
        /\ gives.items[i] > 0 => right.items[i] + gives.items[i] <= MaxQuantity
        /\ returns.items[i] <= right.items[i] + gives.items[i]
        /\ returns.items[i] > 0
             => (left.items[i] - gives.items[i]) + returns.items[i] <= MaxQuantity
  BY <1>3 DEF TradeApplies, Covers, Fits
<1>6. /\ (left.money - gives.money) + returns.money \in 0 .. MaxMoney
      /\ (right.money - returns.money) + gives.money \in 0 .. MaxMoney
  BY <1>1, <1>2, <1>4
<1>7. ASSUME NEW i \in Items
      PROVE  /\ (left.items[i] - gives.items[i]) + returns.items[i] \in 0 .. MaxQuantity
             /\ (right.items[i] - returns.items[i]) + gives.items[i] \in 0 .. MaxQuantity
  BY <1>1, <1>2, <1>5
<1>8. QED
  BY <1>6, <1>7

\* A commit changes the two records of the trade and no other, by the offers
\* and by one money revision each when money moved (PlayerStore::ApplyTrade).
LEMMA CommitEffect ==
  ASSUME TypeOK, NEW s \in sessions, TradeGoesThrough(s), ApplyTrade(s)
  PROVE  LET a == s.party["A"]
             b == s.party["B"]
             advance == MoneyMoves(s.offer["A"], s.offer["B"])
         IN  /\ a \in Chars /\ b \in Chars /\ a # b
             /\ s.offer["A"] \in Offers /\ s.offer["B"] \in Offers
             /\ record'[a] = Settled(record[a], s.offer["A"], s.offer["B"], advance)
             /\ record'[b] = Settled(record[b], s.offer["B"], s.offer["A"], advance)
             /\ record'[a] \in Holdings /\ record'[b] \in Holdings
             /\ \A c \in Chars \ {a, b} : record'[c] = record[c]
             /\ record' \in [Chars -> Holdings]
<1> DEFINE a == s.party["A"]
           b == s.party["B"]
           advance == MoneyMoves(s.offer["A"], s.offer["B"])
<1>1. /\ a \in Chars /\ b \in Chars /\ a # b
      /\ s.offer["A"] \in Offers /\ s.offer["B"] \in Offers
      /\ record \in [Chars -> Holdings]
  BY DEF TypeOK, Sessions, Sides, TradeGoesThrough
<1>2. /\ advance \in BOOLEAN
      /\ advance => CanAdvanceRevision(record[a]) /\ CanAdvanceRevision(record[b])
      /\ TradeApplies(record[a], record[b], s.offer["A"], s.offer["B"])
  BY DEF TradeGoesThrough, MoneyMoves
<1>3. /\ record'[a] = Settled(record[a], s.offer["A"], s.offer["B"], advance)
      /\ record'[b] = Settled(record[b], s.offer["B"], s.offer["A"], advance)
      /\ \A c \in Chars \ {a, b} : record'[c] = record[c]
      /\ record' = [c \in Chars |-> record'[c]]
  BY <1>1 DEF ApplyTrade
<1>4. record'[a] \in Holdings /\ record'[b] \in Holdings
  <2>1. record[a] \in Holdings /\ record[b] \in Holdings
    BY <1>1
  <2> HIDE DEF a, b, advance
  <2>2. /\ (record[a].money - s.offer["A"].money) + s.offer["B"].money \in 0 .. MaxMoney
        /\ (record[b].money - s.offer["B"].money) + s.offer["A"].money \in 0 .. MaxMoney
        /\ \A i \in Items :
             /\ (record[a].items[i] - s.offer["A"].items[i]) + s.offer["B"].items[i]
                  \in 0 .. MaxQuantity
             /\ (record[b].items[i] - s.offer["B"].items[i]) + s.offer["A"].items[i]
                  \in 0 .. MaxQuantity
    BY <1>1, <1>2, <2>1, TradeKeepsBounds
  <2>3. Settled(record[a], s.offer["A"], s.offer["B"], advance) \in Holdings
    BY <1>1, <1>2, <2>1, <2>2, SettledHoldings
  <2>4. Settled(record[b], s.offer["B"], s.offer["A"], advance) \in Holdings
    BY <1>1, <1>2, <2>1, <2>2, SettledHoldings
  <2>5. QED
    BY <1>3, <2>3, <2>4
<1>5. record' \in [Chars -> Holdings]
  BY <1>1, <1>3, <1>4
<1>6. QED
  BY <1>1, <1>3, <1>4, <1>5

\* /pay moves one amount between two different characters, advances each money
\* revision at most once, and changes nothing else (ChatSystem.cpp /pay).
LEMMA PayEffect ==
  ASSUME TypeOK, SlotsOwned, NEW acct \in Accounts, NEW to \in Chars,
         NEW amount \in 1 .. MaxMoney, Pay(acct, to, amount)
  PROVE  LET me == slot[acct]
         IN  /\ me \in Chars /\ me # to
             /\ amount <= record[me].money
             /\ amount <= AvailableMoney(me, Promised(me).money)
             /\ record'[me] = AdvanceRevision(Debit(record[me], amount))
             /\ record'[to] = AdvanceRevision(Credit(record[to], amount))
             /\ record'[me] \in Holdings /\ record'[me].money = record[me].money - amount
             /\ record'[to] \in Holdings /\ record'[to].money = record[to].money + amount
             /\ record'[me].items = record[me].items /\ record'[to].items = record[to].items
             /\ \A c \in {me, to} : record'[c].revision =
                  IF IsMigrated(record[c]) THEN record[c].revision + 1 ELSE record[c].revision
             /\ \A c \in Chars \ {me, to} : record'[c] = record[c]
             /\ record' \in [Chars -> Holdings]
<1> DEFINE me == slot[acct]
           paid == Debit(record[me], amount)
           got == Credit(record[to], amount)
<1>1. MaxMoney \in Nat
  BY ConstantsAssumption
<1>2. /\ me \in Chars /\ me # to
      /\ record \in [Chars -> Holdings]
  BY DEF TypeOK, SlotsOwned, Pay, Sender, HasCharacter
<1>3. /\ amount <= AvailableMoney(me, Promised(me).money)
      /\ amount > 0
      /\ CanAdvanceRevision(record[me]) /\ CanAdvanceRevision(record[to])
      /\ record[to].money + amount <= MaxMoney
  BY DEF Pay
<1>4. record[me].money \in 0 .. MaxMoney /\ record[to].money \in 0 .. MaxMoney
  BY <1>2 DEF Holdings
<1>5. amount <= record[me].money
  <2>1. CASE record[me].money > Promised(me).money
    <3>1. amount <= record[me].money - Promised(me).money
      BY <1>3, <2>1 DEF AvailableMoney
    <3>2. Promised(me).money \in Nat
      <4>1. \A s \in Active(me) : OfferFor(s, me) \in Offers
        BY DEF TypeOK, Sessions, Active, OfferFor, SideOf, Sides
      <4>2. NoOffer \in Offers
        BY <1>1, ConstantsAssumption DEF NoOffer, Offers
      <4>3. Promised(me) \in Offers
        BY <4>1, <4>2 DEF Promised
      <4>4. QED
        BY <1>1, <4>3 DEF Offers
    <3>3. QED
      BY <1>1, <1>4, <3>1, <3>2
  <2>2. CASE ~(record[me].money > Promised(me).money)
    BY <1>3, <2>2 DEF AvailableMoney
  <2>3. QED
    BY <2>1, <2>2
<1>6. /\ paid \in Holdings /\ paid.money = record[me].money - amount
      /\ paid.items = record[me].items /\ paid.revision = record[me].revision
      /\ got \in Holdings /\ got.money = record[to].money + amount
      /\ got.items = record[to].items /\ got.revision = record[to].revision
  BY <1>1, <1>2, <1>3, <1>4, <1>5 DEF Holdings, Debit, Credit
<1>7. /\ record'[me] = AdvanceRevision(paid)
      /\ record'[to] = AdvanceRevision(got)
      /\ \A c \in Chars \ {me, to} : record'[c] = record[c]
      /\ record' = [c \in Chars |-> record'[c]]
  BY <1>2 DEF Pay
<1>8. CanAdvanceRevision(paid) /\ CanAdvanceRevision(got)
  BY <1>3, <1>6 DEF CanAdvanceRevision, IsMigrated
<1>9. /\ IsMigrated(paid) <=> IsMigrated(record[me])
      /\ IsMigrated(got) <=> IsMigrated(record[to])
  BY <1>6 DEF IsMigrated
<1>10. /\ record'[me] \in Holdings /\ record'[me].money = paid.money
       /\ record'[me].items = paid.items
       /\ record'[me].revision =
            IF IsMigrated(paid) THEN paid.revision + 1 ELSE paid.revision
  <2> HIDE DEF paid
  <2>1. QED
    BY <1>6, <1>7, <1>8, AdvanceKeepsHoldings
<1>11. /\ record'[to] \in Holdings /\ record'[to].money = got.money
       /\ record'[to].items = got.items
       /\ record'[to].revision =
            IF IsMigrated(got) THEN got.revision + 1 ELSE got.revision
  <2> HIDE DEF got
  <2>1. QED
    BY <1>6, <1>7, <1>8, AdvanceKeepsHoldings
<1>12. record' \in [Chars -> Holdings]
  <2> HIDE DEF paid, got
  <2>1. QED
    BY <1>2, <1>7, <1>10, <1>11
<1>13. \A c \in {me, to} : record'[c].revision =
         IF IsMigrated(record[c]) THEN record[c].revision + 1 ELSE record[c].revision
  BY <1>6, <1>9, <1>10, <1>11
<1>14. QED
  BY <1>2, <1>3, <1>5, <1>6, <1>7, <1>10, <1>11, <1>12, <1>13

-----------------------------------------------------------------------------
(* The inductive invariant. *)

\* The state the server starts in (PlayerStore::Load, no sessions) satisfies the
\* inductive invariant.
THEOREM InitEstablishes == Init => IInv
<1>1. ASSUME Init PROVE TypeOK
  BY <1>1, ConstantsAssumption DEF Init, TypeOK
<1>2. ASSUME Init PROVE OneTradeEach /\ SomethingLeftToAgree /\ SlotsOwned
  BY <1>2 DEF Init, OneTradeEach, SomethingLeftToAgree
<1>3. QED
  BY <1>1, <1>2 DEF IInv

\* Replacing a session by one with the same two people keeps trades disjoint.
LEMMA EditKeepsOneTradeEach ==
  ASSUME OneTradeEach, NEW s \in sessions, NEW t, t.party = s.party,
         sessions' = (sessions \ {s}) \cup {t}
  PROVE  OneTradeEach'
  BY DEF OneTradeEach, Parties

\* Ending trades can neither put a character in two nor leave one half agreed.
LEMMA EndingKeepsTrades ==
  ASSUME IInv, sessions' \subseteq sessions
  PROVE  /\ sessions' \subseteq Sessions
         /\ OneTradeEach'
         /\ SomethingLeftToAgree'
  BY DEF IInv, TypeOK, OneTradeEach, SomethingLeftToAgree, Parties

\* An edit of a live trade by one of its people, with the records untouched.
LEMMA EditKeepsInvariant ==
  ASSUME IInv, NEW s \in sessions, NEW t \in Sessions, t.party = s.party,
         t.confirmed # Sides, t.state = "open",
         sessions' = (sessions \ {s}) \cup {t},
         UNCHANGED <<people, record>>
  PROVE  IInv'
<1>1. TypeOK' /\ SlotsOwned'
  BY DEF IInv, TypeOK, SlotsOwned, people
<1>2. OneTradeEach'
  BY EditKeepsOneTradeEach DEF IInv
<1>3. SomethingLeftToAgree'
  BY DEF IInv, SomethingLeftToAgree
<1>4. QED
  BY <1>1, <1>2, <1>3 DEF IInv

\* The sender's character is a party of any trade it is active in.
LEMMA ActiveSession ==
  ASSUME IInv, NEW acct \in Accounts, NEW s \in Active(slot[acct])
  PROVE  /\ s \in sessions /\ s \in Sessions
         /\ SideOf(s, slot[acct]) \in Sides
         /\ s.party[SideOf(s, slot[acct])] = slot[acct]
         /\ OfferFor(s, slot[acct]) \in Offers
         /\ s.party["A"] \in Chars /\ s.party["B"] \in Chars
  BY DEF IInv, TypeOK, Active, Sessions, SideOf, OfferFor, Parties, Sides

\* /trade <player> asks both people for other trades first, so the new session is
\* the only one of either.
LEMMA InviteKeeps ==
  ASSUME IInv, NEW acct \in Accounts, NEW other \in Accounts, Invite(acct, other)
  PROVE  IInv'
<1> DEFINE party == [x \in Sides |-> IF x = "A" THEN slot[acct] ELSE slot[other]]
           t == [party |-> party, state |-> "requested",
                 offer |-> [x \in Sides |-> NoOffer], confirmed |-> {}, age |-> 0]
<1>1. /\ slot[acct] \in Chars /\ slot[other] \in Chars /\ slot[other] # slot[acct]
      /\ party["A"] = slot[acct] /\ party["B"] = slot[other]
  BY DEF IInv, TypeOK, Invite, Sender, HasCharacter, Sides
<1>2. sessions' = sessions \cup {t}
  BY DEF Invite
<1>3. t \in Sessions
  <2>1. NoOffer \in Offers
    BY ConstantsAssumption DEF NoOffer, Offers
  <2>2. party \in [Sides -> Chars]
    BY <1>1
  <2>3. QED
    BY <2>1, <2>2 DEF Sessions
<1>4. TypeOK' /\ SlotsOwned'
  BY <1>2, <1>3 DEF IInv, TypeOK, SlotsOwned, Invite, people
<1>5. OneTradeEach'
  <2>1. \A s \in sessions : slot[acct] \notin Parties(s) /\ slot[other] \notin Parties(s)
    BY DEF Invite, Active
  <2>2. Parties(t) = {slot[acct], slot[other]}
    BY <1>1 DEF Parties
  <2>3. t.party["A"] # t.party["B"]
    BY <1>1
  <2> HIDE DEF t
  <2>4. QED
    BY <1>2, <2>1, <2>2, <2>3 DEF IInv, OneTradeEach
<1>6. SomethingLeftToAgree'
  <2>1. t.confirmed # Sides /\ t.confirmed = {} /\ t.offer["A"] = NoOffer /\ t.offer["B"] = NoOffer
    BY DEF Sides
  <2> HIDE DEF t
  <2>2. QED
    BY <1>2, <2>1 DEF IInv, SomethingLeftToAgree
<1>7. QED
  BY <1>4, <1>5, <1>6 DEF IInv

\* /trade accept opens an empty trade of the same two people.
LEMMA AcceptKeeps ==
  ASSUME IInv, NEW acct \in Accounts, Accept(acct)
  PROVE  IInv'
<1>1. PICK s \in Active(slot[acct]) :
        sessions' = (sessions \ {s}) \cup {[s EXCEPT !.state = "open", !.age = 0]}
  BY DEF Accept
<1> DEFINE t == [s EXCEPT !.state = "open", !.age = 0]
<1>2. s \in sessions /\ s \in Sessions
  BY ActiveSession
<1>3. t \in Sessions /\ t.party = s.party /\ t.state = "open" /\ t.confirmed = s.confirmed
  BY <1>2 DEF Sessions
<1>4. t.confirmed # Sides
  BY <1>2, <1>3 DEF IInv, SomethingLeftToAgree
<1>5. UNCHANGED <<people, record>>
  BY DEF Accept
<1> HIDE DEF t
<1>6. sessions' = (sessions \ {s}) \cup {t}
  BY <1>1 DEF t
<1>7. QED
  BY <1>2, <1>3, <1>4, <1>5, <1>6, EditKeepsInvariant

\* An edited offer is a session with the same people and no confirmation.
LEMMA TouchedSession ==
  ASSUME NEW s \in Sessions, NEW x \in Sides, NEW o \in Offers
  PROVE  /\ Touched(s, x, o) \in Sessions
         /\ Touched(s, x, o).party = s.party
         /\ Touched(s, x, o).state = s.state
         /\ Touched(s, x, o).confirmed = {}
  BY DEF Touched, Sessions

\* /trade money is an edit of an open trade within the offers' ranges.
LEMMA OfferMoneyKeeps ==
  ASSUME IInv, NEW acct \in Accounts, NEW amount \in 0 .. MaxMoney, OfferMoney(acct, amount)
  PROVE  IInv'
<1> DEFINE me == slot[acct]
<1>1. PICK s \in Active(me) :
        /\ s.state = "open"
        /\ sessions' = (sessions \ {s}) \cup
             {Touched(s, SideOf(s, me), [OfferFor(s, me) EXCEPT !.money = amount])}
  BY DEF OfferMoney
<1>2. /\ s \in sessions /\ s \in Sessions /\ SideOf(s, me) \in Sides
      /\ OfferFor(s, me) \in Offers
  BY ActiveSession
<1>3. [OfferFor(s, me) EXCEPT !.money = amount] \in Offers
  BY <1>2 DEF Offers
<1>4. UNCHANGED <<people, record>>
  BY DEF OfferMoney
<1>5. {} # Sides
  BY DEF Sides
<1>6. QED
  BY <1>1, <1>2, <1>3, <1>4, <1>5, TouchedSession, EditKeepsInvariant

\* /trade item is an edit of an open trade within the offers' ranges.
LEMMA OfferItemKeeps ==
  ASSUME IInv, NEW acct \in Accounts, NEW item \in Items,
         NEW quantity \in 0 .. MaxQuantity, OfferItem(acct, item, quantity)
  PROVE  IInv'
<1> DEFINE me == slot[acct]
<1>1. PICK s \in Active(me) :
        /\ s.state = "open"
        /\ sessions' = (sessions \ {s}) \cup
             {Touched(s, SideOf(s, me), [OfferFor(s, me) EXCEPT !.items[item] = quantity])}
  BY DEF OfferItem
<1>2. /\ s \in sessions /\ s \in Sessions /\ SideOf(s, me) \in Sides
      /\ OfferFor(s, me) \in Offers
  BY ActiveSession
<1>3. [OfferFor(s, me) EXCEPT !.items[item] = quantity] \in Offers
  BY <1>2 DEF Offers
<1>4. UNCHANGED <<people, record>>
  BY DEF OfferItem
<1>5. {} # Sides
  BY DEF Sides
<1>6. QED
  BY <1>1, <1>2, <1>3, <1>4, <1>5, TouchedSession, EditKeepsInvariant

\* The first /trade confirm leaves the other side still to confirm.
LEMMA ConfirmFirstKeeps ==
  ASSUME IInv, NEW acct \in Accounts, ConfirmFirst(acct)
  PROVE  IInv'
<1> DEFINE me == slot[acct]
<1>1. PICK s \in Active(me) :
        /\ s.state = "open"
        /\ OtherSide(SideOf(s, me)) \notin s.confirmed
        /\ sessions' = (sessions \ {s}) \cup
             {[s EXCEPT !.confirmed = @ \cup {SideOf(s, me)}, !.age = 0]}
  BY DEF ConfirmFirst
<1> DEFINE t == [s EXCEPT !.confirmed = @ \cup {SideOf(s, me)}, !.age = 0]
<1>2. s \in sessions /\ s \in Sessions /\ SideOf(s, me) \in Sides
  BY ActiveSession
<1>3. /\ t \in Sessions /\ t.party = s.party /\ t.state = "open"
      /\ t.confirmed = s.confirmed \cup {SideOf(s, me)}
  BY <1>1, <1>2 DEF Sessions
<1>4. t.confirmed # Sides
  BY <1>1, <1>2, <1>3 DEF OtherSide, Sides
<1>5. UNCHANGED <<people, record>>
  BY DEF ConfirmFirst
<1> HIDE DEF t
<1>6. sessions' = (sessions \ {s}) \cup {t}
  BY <1>1 DEF t
<1>7. QED
  BY <1>2, <1>3, <1>4, <1>5, <1>6, EditKeepsInvariant

\* Ending trades while the records stay within their types.
LEMMA EndingKeepsInvariant ==
  ASSUME IInv, sessions' \subseteq sessions, record' \in [Chars -> Holdings],
         UNCHANGED people
  PROVE  IInv'
<1>1. sessions' \subseteq Sessions /\ OneTradeEach' /\ SomethingLeftToAgree'
  BY EndingKeepsTrades
<1>2. TypeOK' /\ SlotsOwned'
  BY <1>1 DEF IInv, TypeOK, SlotsOwned, people
<1>3. QED
  BY <1>1, <1>2 DEF IInv

\* The second /trade confirm ends its trade and leaves two records in bounds,
\* whether ApplyTrade accepted the deal or not.
LEMMA ConfirmSecondKeeps ==
  ASSUME IInv, NEW acct \in Accounts, ConfirmSecond(acct)
  PROVE  IInv'
<1>1. PICK s \in Active(slot[acct]) :
        /\ sessions' = sessions \ {s}
        /\ \/ TradeGoesThrough(s) /\ ApplyTrade(s)
           \/ UNCHANGED record
  BY DEF ConfirmSecond
<1>2. TypeOK /\ s \in sessions
  BY ActiveSession DEF IInv
<1>3. record' \in [Chars -> Holdings]
  <2>1. CASE TradeGoesThrough(s) /\ ApplyTrade(s)
    BY <1>2, <2>1, CommitEffect
  <2>2. CASE UNCHANGED record
    BY <1>2, <2>2 DEF TypeOK
  <2>3. QED
    BY <1>1, <2>1, <2>2
<1>4. UNCHANGED people
  BY DEF ConfirmSecond
<1>5. QED
  BY <1>1, <1>3, <1>4, EndingKeepsInvariant

\* TickTrades ends trades or ages them; it changes nobody's offer.
LEMMA TickTradesKeeps ==
  ASSUME IInv, TickTrades
  PROVE  IInv'
<1> DEFINE older(s) == [s EXCEPT !.age = @ + 1]
           kept == {t \in sessions : ~Expired(t) /\ ~TooFar(t)}
<1>1. sessions' = {older(s) : s \in kept} /\ UNCHANGED <<people, record>>
  BY DEF TickTrades
<1>2. \A s \in sessions :
        /\ older(s) \in Sessions
        /\ older(s).party = s.party /\ older(s).state = s.state
        /\ older(s).offer = s.offer /\ older(s).confirmed = s.confirmed
  BY DEF IInv, TypeOK, Sessions
<1> HIDE DEF older
<1>3. TypeOK' /\ SlotsOwned'
  BY <1>1, <1>2 DEF IInv, TypeOK, SlotsOwned, people
<1>4. OneTradeEach'
  BY <1>1, <1>2 DEF IInv, OneTradeEach, Parties
<1>5. SomethingLeftToAgree'
  BY <1>1, <1>2 DEF IInv, SomethingLeftToAgree
<1>6. QED
  BY <1>3, <1>4, <1>5 DEF IInv

\* A client's save leaves the balance and the inventory within their types.
LEMMA SaveEffect ==
  ASSUME TypeOK, NEW acct \in Accounts, NEW claim \in SaveClaims,
         SaveCharacter(acct, claim)
  PROVE  /\ slot[acct] \in Chars
         /\ record' \in [Chars -> Holdings]
         /\ record'[slot[acct]] = Declared(record[slot[acct]], claim)
         /\ \A c \in Chars \ {slot[acct]} : record'[c] = record[c]
<1> DEFINE me == slot[acct]
<1>1. me \in Chars /\ record \in [Chars -> Holdings]
  BY DEF TypeOK, SaveCharacter, Sender, HasCharacter
<1>2. /\ record'[me] = Declared(record[me], claim)
      /\ \A c \in Chars \ {me} : record'[c] = record[c]
      /\ record' = [c \in Chars |-> record'[c]]
  BY <1>1 DEF SaveCharacter
<1>3. claim \in [money : Nat, items : [Items -> 0 .. MaxQuantity]] /\ MaxMoney \in Nat
  BY ConstantsAssumption
<1>4. Declared(record[me], claim) \in Holdings
  BY <1>1, <1>3 DEF Declared, Holdings
<1>5. QED
  BY <1>1, <1>2, <1>4

\* Connecting, spawning, moving, leaving, dying and changing characters touch no
\* record and at most end trades.
LEMMA LifecycleKeeps ==
  ASSUME IInv, NEW acct \in Accounts, Lifecycle(acct)
  PROVE  IInv'
<1>1. /\ online' \subseteq Accounts
      /\ slot' \in [Accounts -> Chars \cup {NoChar}]
      /\ live' \subseteq Chars
      /\ place' \in [Accounts -> Places \cup {Nowhere}]
      /\ record' = record
      /\ sessions' \subseteq sessions
  BY DEF Lifecycle, Connect, Disconnect, LeaveWorld, BleedOut, NewCharacter, Spawn, Move,
         SelectCharacter, DeleteCharacter, EndTradeFor, people, IInv, TypeOK
<1>2. SlotsOwned'
  BY ConstantsAssumption
     DEF Lifecycle, Connect, Disconnect, LeaveWorld, BleedOut, NewCharacter, Spawn, Move,
         SelectCharacter, DeleteCharacter, people, IInv, TypeOK, SlotsOwned
<1>3. sessions' \subseteq Sessions /\ OneTradeEach' /\ SomethingLeftToAgree'
  BY <1>1, EndingKeepsTrades
<1>4. TypeOK'
  BY <1>1, <1>3 DEF IInv, TypeOK
<1>5. QED
  BY <1>2, <1>3, <1>4 DEF IInv

\* Every handler keeps the invariant.
THEOREM NextKeeps == IInv /\ [Next]_vars => IInv'
<1> SUFFICES ASSUME IInv, [Next]_vars PROVE IInv'
  OBVIOUS
<1>1. ASSUME NEW acct \in Accounts, TradeCommand(acct) PROVE IInv'
  <2>1. CASE Cancel(acct)
    BY <2>1, EndingKeepsInvariant DEF Cancel, EndTradeFor, IInv, TypeOK
  <2>2. QED
    BY <1>1, <2>1, InviteKeeps, AcceptKeeps, OfferMoneyKeeps, OfferItemKeeps,
       ConfirmFirstKeeps, ConfirmSecondKeeps DEF TradeCommand
<1>2. ASSUME NEW acct \in Accounts, Lifecycle(acct) PROVE IInv'
  BY <1>2, LifecycleKeeps
<1>3. ASSUME NEW acct \in Accounts, Bookkeeping(acct) PROVE IInv'
  <2>1. ASSUME NEW to \in Chars, NEW amount \in 1 .. MaxMoney, Pay(acct, to, amount)
        PROVE  IInv'
    <3>1. record' \in [Chars -> Holdings]
      BY <2>1, PayEffect DEF IInv
    <3>2. UNCHANGED <<people, sessions>>
      BY <2>1 DEF Pay
    <3>3. QED
      BY <3>1, <3>2, EndingKeepsInvariant
  <2>2. ASSUME NEW claim \in SaveClaims, SaveCharacter(acct, claim)
        PROVE  IInv'
    <3>1. record' \in [Chars -> Holdings]
      BY <2>2, SaveEffect DEF IInv
    <3>2. UNCHANGED <<people, sessions>>
      BY <2>2 DEF SaveCharacter
    <3>3. QED
      BY <3>1, <3>2, EndingKeepsInvariant
  <2>3. QED
    BY <1>3, <2>1, <2>2 DEF Bookkeeping
<1>4. CASE TickTrades
  BY <1>4, TickTradesKeeps
<1>5. CASE UNCHANGED vars
  BY <1>5 DEF vars, IInv, TypeOK, SlotsOwned, OneTradeEach, SomethingLeftToAgree
<1>6. QED
  BY <1>1, <1>2, <1>3, <1>4, <1>5 DEF Next

\* The inductive invariant holds in every reachable state of the server.
THEOREM Invariance == Spec => []IInv
  BY InitEstablishes, NextKeeps, PTL DEF Spec

\* Every variable keeps its type; in particular no balance, stack or revision
\* ever leaves the range the code's ceilings promise.
THEOREM TypeCorrect == Spec => []TypeOK
<1>1. IInv => TypeOK
  BY DEF IInv
<1>2. QED
  BY <1>1, Invariance, PTL

\* Nobody is ever in two live trades (TradeStore::Active).
THEOREM TradesAreDisjoint == Spec => []OneTradeEach
<1>1. IInv => OneTradeEach
  BY DEF IInv
<1>2. QED
  BY <1>1, Invariance, PTL

\* No invitation carries anything, and no agreed trade is left unsettled.
THEOREM NothingHalfAgreed == Spec => []SomethingLeftToAgree
<1>1. IInv => SomethingLeftToAgree
  BY DEF IInv
<1>2. QED
  BY <1>1, Invariance, PTL

-----------------------------------------------------------------------------
(* Trading implements the exchange of agreed deals. *)

\* Handlers that leave the records alone and add no confirmation can at most
\* release people from what they agreed to.
LEMMA ReleasingWithdraws ==
  ASSUME UNCHANGED record,
         \A t \in sessions' : t.confirmed # {} =>
           \E s \in sessions : /\ t.party = s.party /\ t.offer = s.offer
                               /\ t.confirmed \subseteq s.confirmed
  PROVE  Promise!Withdraw
<1>1. Wealth' = Wealth
  BY DEF Wealth
<1>2. \A t \in sessions' : \A y \in AgreedIn(t) : y \in Agreed
  <2>1. TAKE t \in sessions'
  <2>2. TAKE y \in AgreedIn(t)
  <2>3. PICK x \in t.confirmed :
          y = [who |-> t.party[x], deal |-> [party |-> t.party, offer |-> t.offer]]
    BY DEF AgreedIn
  <2>4. PICK s \in sessions : /\ t.party = s.party /\ t.offer = s.offer
                              /\ t.confirmed \subseteq s.confirmed
    BY <2>3
  <2>5. y \in AgreedIn(s)
    BY <2>3, <2>4 DEF AgreedIn
  <2>6. QED
    BY <2>5 DEF Agreed
<1>3. Agreed' = UNION {AgreedIn(t) : t \in sessions'}
  BY DEF Agreed, AgreedIn
<1>4. Agreed' \subseteq Agreed
  BY <1>2, <1>3
<1>5. QED
  BY <1>1, <1>4 DEF Promise!Withdraw

\* What one person agreed to is what its one session says.
LEMMA AgreementOfParty ==
  ASSUME IInv, NEW s \in sessions, NEW x \in Sides, NEW y \in Agreed,
         y.who = s.party[x]
  PROVE  /\ x \in s.confirmed
         /\ y = [who |-> s.party[x], deal |-> [party |-> s.party, offer |-> s.offer]]
<1>1. PICK u \in sessions : y \in AgreedIn(u)
  BY DEF Agreed
<1>2. PICK z \in u.confirmed :
        y = [who |-> u.party[z], deal |-> [party |-> u.party, offer |-> u.offer]]
  BY <1>1 DEF AgreedIn
<1>3. z \in Sides /\ u \in Sessions /\ s \in Sessions
  BY <1>2 DEF IInv, TypeOK, Sessions
<1>4. y.who = u.party[z]
  BY <1>2
<1>5. y.who \in Parties(u) /\ y.who \in Parties(s)
  BY <1>3, <1>4 DEF Parties, Sides
<1>6. u = s
  BY <1>5 DEF IInv, OneTradeEach
<1>7. z = x
  <2>1. s.party["A"] # s.party["B"]
    BY DEF IInv, OneTradeEach
  <2>2. s.party[x] = s.party[z]
    BY <1>4, <1>6
  <2>3. QED
    BY <1>3, <2>1, <2>2 DEF Sides
<1>8. QED
  BY <1>2, <1>6, <1>7

\* The first /trade confirm is the abstract agreement to the deal as it stands.
LEMMA ConfirmFirstAgrees ==
  ASSUME IInv, NEW acct \in Accounts, ConfirmFirst(acct)
  PROVE  Promise!Agree \/ Promise!Withdraw
<1> DEFINE me == slot[acct]
<1>1. PICK s \in Active(me) :
        /\ s.state = "open"
        /\ sessions' = (sessions \ {s}) \cup
             {[s EXCEPT !.confirmed = @ \cup {SideOf(s, me)}, !.age = 0]}
  BY DEF ConfirmFirst
<1> DEFINE x == SideOf(s, me)
           t == [s EXCEPT !.confirmed = @ \cup {SideOf(s, me)}, !.age = 0]
           deal == [party |-> s.party, offer |-> s.offer]
           new == [who |-> s.party[x], deal |-> deal]
<1>2. /\ s \in sessions /\ s \in Sessions /\ x \in Sides
      /\ s.party[x] = me /\ s.party["A"] \in Chars /\ s.party["B"] \in Chars
  BY ActiveSession
<1>3. t.party = s.party /\ t.offer = s.offer /\ t.confirmed = s.confirmed \cup {x}
  BY <1>2 DEF Sessions
<1>4. UNCHANGED record
  BY DEF ConfirmFirst
<1>5. sessions' = (sessions \ {s}) \cup {t}
  BY <1>1
<1> HIDE DEF t
<1>6. AgreedIn(t) = AgreedIn(s) \cup {new}
  BY <1>3 DEF AgreedIn
<1>7. Agreed' = Agreed \cup {new}
  <2>1. Agreed' = UNION {AgreedIn(u) : u \in sessions'}
    BY DEF Agreed, AgreedIn
  <2>2. \A y : y \in Agreed' <=> \E u \in sessions' : y \in AgreedIn(u)
    BY <2>1
  <2>3. \A y : y \in Agreed <=> \E u \in sessions : y \in AgreedIn(u)
    BY DEF Agreed
  <2> HIDE DEF new
  <2>4. QED
    BY <1>2, <1>5, <1>6, <2>2, <2>3
<1>8. Wealth' = Wealth
  BY <1>4 DEF Wealth
<1>9. CASE new \in Agreed
  <2>1. Agreed' \subseteq Agreed
    BY <1>7, <1>9
  <2>2. QED
    BY <1>8, <2>1 DEF Promise!Withdraw
<1>10. CASE new \notin Agreed
  <2>1. new \in Agreed' \ Agreed
    BY <1>7, <1>10
  <2>2. new \in Promise!Agreements
    BY <1>2 DEF Promise!Agreements, Promise!Deals, Promise!Bundles, Promise!Sides,
         Sessions, Offers, Sides
  <2>3. new.who \in {new.deal.party["A"], new.deal.party["B"]}
    BY <1>2 DEF Sides
  <2>4. \A y \in Agreed : y.who # new.who
    <3>1. SUFFICES ASSUME NEW y \in Agreed, y.who = s.party[x] PROVE FALSE
      OBVIOUS
    <3>2. y = new
      BY <1>2, <3>1, AgreementOfParty
    <3>3. QED
      BY <1>10, <3>2
  <2> HIDE DEF new
  <2>5. QED
    BY <1>7, <1>8, <2>1, <2>2, <2>3, <2>4 DEF Promise!Agree
<1>11. QED
  BY <1>9, <1>10

\* What one session's agreements are about.
LEMMA AgreedInParties ==
  ASSUME IInv, NEW s \in sessions, NEW y \in AgreedIn(s)
  PROVE  y.who \in Parties(s)
  BY DEF AgreedIn, Parties, IInv, TypeOK, Sessions, Sides

\* A commit is the abstract settlement of the deal the first person agreed to.
LEMMA CommitSettles ==
  ASSUME IInv, NEW s \in sessions, NEW x \in Sides,
         OtherSide(x) \in s.confirmed, TradeGoesThrough(s), ApplyTrade(s),
         sessions' = sessions \ {s}
  PROVE  \E y \in Agreed, c \in Chars : Promise!Settle(y, c)
<1> DEFINE a == s.party["A"]
           b == s.party["B"]
           gives == s.offer["A"]
           returns == s.offer["B"]
           advance == MoneyMoves(gives, returns)
           y == [who |-> s.party[OtherSide(x)], deal |-> [party |-> s.party, offer |-> s.offer]]
<1>1. /\ a \in Chars /\ b \in Chars /\ a # b
      /\ gives \in Offers /\ returns \in Offers
      /\ record'[a] = Settled(record[a], gives, returns, advance)
      /\ record'[b] = Settled(record[b], returns, gives, advance)
      /\ \A c \in Chars \ {a, b} : record'[c] = record[c]
      /\ record' \in [Chars -> Holdings]
  BY CommitEffect DEF IInv
<1>2. y \in Agreed
  BY DEF Agreed, AgreedIn
<1>3. /\ s.party[x] \in Chars
      /\ {y.who, s.party[x]} = {a, b}
  BY <1>1 DEF Sides, OtherSide
<1>4. /\ record \in [Chars -> Holdings]
      /\ record[a] \in Holdings /\ record[b] \in Holdings
  BY <1>1 DEF IInv, TypeOK
<1>5. /\ Wealth'[a] = Promise!After(a, gives, returns)
      /\ Wealth'[b] = Promise!After(b, returns, gives)
  <2>1. /\ advance \in BOOLEAN
        /\ advance => CanAdvanceRevision(record[a]) /\ CanAdvanceRevision(record[b])
        /\ TradeApplies(record[a], record[b], gives, returns)
    BY DEF TradeGoesThrough, MoneyMoves
  <2> HIDE DEF a, b, gives, returns, advance
  <2>2. /\ (record[a].money - gives.money) + returns.money \in 0 .. MaxMoney
        /\ (record[b].money - returns.money) + gives.money \in 0 .. MaxMoney
        /\ \A i \in Items :
             /\ (record[a].items[i] - gives.items[i]) + returns.items[i] \in 0 .. MaxQuantity
             /\ (record[b].items[i] - returns.items[i]) + gives.items[i] \in 0 .. MaxQuantity
    BY <1>1, <1>4, <2>1, TradeKeepsBounds
  <2>3. /\ record'[a].money = (record[a].money - gives.money) + returns.money
        /\ record'[a].items =
             [i \in Items |-> (record[a].items[i] - gives.items[i]) + returns.items[i]]
    BY <1>1, <1>4, <2>1, <2>2, SettledHoldings
  <2>4. /\ record'[b].money = (record[b].money - returns.money) + gives.money
        /\ record'[b].items =
             [i \in Items |-> (record[b].items[i] - returns.items[i]) + gives.items[i]]
    BY <1>1, <1>4, <2>1, <2>2, SettledHoldings
  <2>5. /\ Wealth'[a] = [money |-> record'[a].money, items |-> record'[a].items]
        /\ Wealth'[b] = [money |-> record'[b].money, items |-> record'[b].items]
        /\ Wealth[a] = [money |-> record[a].money, items |-> record[a].items]
        /\ Wealth[b] = [money |-> record[b].money, items |-> record[b].items]
    BY <1>1 DEF Wealth
  <2>6. /\ {record[a].money, record[b].money, gives.money, returns.money} \subseteq Nat
        /\ \A i \in Items : /\ record[a].items[i] \in Nat /\ record[b].items[i] \in Nat
                            /\ gives.items[i] \in Nat /\ returns.items[i] \in Nat
    BY <1>1, <1>4, ConstantsAssumption DEF Holdings, Offers
  <2>7. \A i \in Items :
          /\ (record[a].items[i] - gives.items[i]) + returns.items[i]
               = (record[a].items[i] + returns.items[i]) - gives.items[i]
          /\ (record[b].items[i] - returns.items[i]) + gives.items[i]
               = (record[b].items[i] + gives.items[i]) - returns.items[i]
    BY <2>6
  <2>8. /\ record'[a].items =
             [i \in Items |-> (record[a].items[i] + returns.items[i]) - gives.items[i]]
        /\ record'[b].items =
             [i \in Items |-> (record[b].items[i] + gives.items[i]) - returns.items[i]]
    BY <2>3, <2>4, <2>7
  <2>9. /\ record'[a].money = (record[a].money + returns.money) - gives.money
        /\ record'[b].money = (record[b].money + gives.money) - returns.money
    BY <2>3, <2>4, <2>6
  <2>10. QED
    BY <2>5, <2>8, <2>9 DEF Promise!After
<1>6. Wealth' = [Wealth EXCEPT ![a] = Promise!After(a, gives, returns),
                               ![b] = Promise!After(b, returns, gives)]
  <2>1. \A c \in Chars \ {a, b} : Wealth'[c] = Wealth[c]
    BY <1>1 DEF Wealth
  <2>2. Wealth = [c \in Chars |-> Wealth[c]] /\ Wealth' = [c \in Chars |-> Wealth'[c]]
    BY DEF Wealth
  <2> HIDE DEF a, b, gives, returns
  <2>3. QED
    BY <1>1, <1>5, <2>1, <2>2
<1>7. Wealth' \in [Chars -> Promise!Bundles]
  BY <1>1 DEF Wealth, Holdings, Promise!Bundles
<1>8. Agreed' = {z \in Agreed : z.who \notin {a, b}}
  <2>1. Agreed' = UNION {AgreedIn(u) : u \in sessions \ {s}}
    BY DEF Agreed, AgreedIn
  <2>2. ASSUME NEW u \in sessions \ {s}, NEW z \in AgreedIn(u)
        PROVE  z \in Agreed /\ z.who \notin {a, b}
    BY <2>2, AgreedInParties DEF Agreed, IInv, OneTradeEach, Parties
  <2>3. ASSUME NEW z \in Agreed, z.who \notin {a, b}
        PROVE  z \in Agreed'
    BY <2>1, <2>3, AgreedInParties DEF Agreed, Parties
  <2>4. QED
    BY <2>1, <2>2, <2>3
<1>9. Promise!Settle(y, s.party[x])
  <2>1. y.deal.party = s.party /\ y.deal.offer = s.offer
    OBVIOUS
  <2> HIDE DEF y
  <2>2. QED
    BY <1>1, <1>3, <1>6, <1>7, <1>8, <2>1 DEF Promise!Settle
<1>10. QED
  BY <1>2, <1>3, <1>9

\* Money that passes from one record to another is the abstract payment.
LEMMA PaymentSends ==
  ASSUME NEW from \in Chars, NEW to \in Chars, NEW amount \in 1 .. MaxMoney,
         from # to, amount <= record[from].money,
         record'[from].money = record[from].money - amount,
         record'[to].money = record[to].money + amount,
         record'[from].items = record[from].items, record'[to].items = record[to].items,
         \A c \in Chars \ {from, to} : record'[c] = record[c],
         record' \in [Chars -> Holdings], UNCHANGED sessions
  PROVE  Promise!Send(from, to, amount)
<1>1. Agreed' = Agreed
  BY DEF Agreed, AgreedIn
<1>2. /\ \A c \in Chars : Wealth[c] = [money |-> record[c].money, items |-> record[c].items]
      /\ \A c \in Chars : Wealth'[c] = [money |-> record'[c].money, items |-> record'[c].items]
      /\ Wealth = [c \in Chars |-> Wealth[c]]
      /\ Wealth' = [c \in Chars |-> Wealth'[c]]
  BY DEF Wealth
<1>3. Wealth' = [Wealth EXCEPT ![from].money = @ - amount, ![to].money = @ + amount]
  <2>1. /\ Wealth'[from] = [Wealth[from] EXCEPT !.money = @ - amount]
        /\ Wealth'[to] = [Wealth[to] EXCEPT !.money = @ + amount]
    BY <1>2
  <2>2. \A c \in Chars \ {from, to} : Wealth'[c] = Wealth[c]
    BY <1>2
  <2>3. QED
    BY <1>2, <2>1, <2>2
<1>4. Wealth' \in [Chars -> Promise!Bundles]
  BY <1>2 DEF Holdings, Promise!Bundles
<1>5. amount <= Wealth[from].money
  BY <1>2
<1>6. QED
  BY <1>1, <1>3, <1>4, <1>5 DEF Promise!Send

\* /pay is the abstract payment.
LEMMA PaySends ==
  ASSUME IInv, NEW acct \in Accounts, NEW to \in Chars,
         NEW amount \in 1 .. MaxMoney, Pay(acct, to, amount)
  PROVE  Promise!Send(slot[acct], to, amount) /\ slot[acct] \in Chars
<1> DEFINE me == slot[acct]
<1>1. /\ me \in Chars /\ me # to
      /\ amount <= record[me].money
      /\ record'[me].money = record[me].money - amount
      /\ record'[to].money = record[to].money + amount
      /\ record'[me].items = record[me].items /\ record'[to].items = record[to].items
      /\ \A c \in Chars \ {me, to} : record'[c] = record[c]
      /\ record' \in [Chars -> Holdings]
  BY PayEffect DEF IInv
<1>2. UNCHANGED sessions
  BY DEF Pay
<1> HIDE DEF me
<1>3. Promise!Send(me, to, amount)
  BY <1>1, <1>2, PaymentSends
<1>4. QED
  BY <1>1, <1>3 DEF me

\* A client's save is the abstract declaration: one character, and a balance
\* beyond the ceiling is not believed.
LEMMA SaveDeclares ==
  ASSUME IInv, NEW acct \in Accounts, NEW claim \in SaveClaims, SaveCharacter(acct, claim)
  PROVE  Promise!Declare(slot[acct], claim) /\ slot[acct] \in Chars
<1> DEFINE me == slot[acct]
<1>1. /\ me \in Chars
      /\ record'[me] = Declared(record[me], claim)
      /\ \A c \in Chars \ {me} : record'[c] = record[c]
  BY SaveEffect DEF IInv
<1>2. Agreed' = Agreed
  BY DEF SaveCharacter, Agreed, AgreedIn
<1>3. /\ \A c \in Chars : Wealth[c] = [money |-> record[c].money, items |-> record[c].items]
      /\ \A c \in Chars : Wealth'[c] = [money |-> record'[c].money, items |-> record'[c].items]
      /\ Wealth = [c \in Chars |-> Wealth[c]]
      /\ Wealth' = [c \in Chars |-> Wealth'[c]]
  BY DEF Wealth
<1> HIDE DEF me
<1>4. Wealth'[me] =
        [money |-> IF claim.money <= MaxMoney THEN claim.money ELSE Wealth[me].money,
         items |-> claim.items]
  BY <1>1, <1>3 DEF Declared
<1>5. Wealth' = [Wealth EXCEPT ![me] =
        [money |-> IF claim.money <= MaxMoney THEN claim.money ELSE Wealth[me].money,
         items |-> claim.items]]
  BY <1>1, <1>3, <1>4
<1>6. QED
  BY <1>1, <1>2, <1>5 DEF Promise!Declare, me

\* Handlers that only edit, age or end sessions release agreements at most.
LEMMA SessionHandlersWithdraw ==
  ASSUME IInv, NEW acct \in Accounts,
         \/ \E other \in Accounts : Invite(acct, other)
         \/ Accept(acct)
         \/ \E amount \in 0 .. MaxMoney : OfferMoney(acct, amount)
         \/ \E item \in Items, quantity \in 0 .. MaxQuantity : OfferItem(acct, item, quantity)
         \/ Cancel(acct)
         \/ Lifecycle(acct)
         \/ TickTrades
  PROVE  Promise!Withdraw
<1>1. CASE \E other \in Accounts : Invite(acct, other)
  BY <1>1, ReleasingWithdraws DEF Invite
<1>2. CASE Accept(acct)
  <2>1. PICK s \in Active(slot[acct]) :
          sessions' = (sessions \ {s}) \cup {[s EXCEPT !.state = "open", !.age = 0]}
    BY <1>2 DEF Accept
  <2> DEFINE t == [s EXCEPT !.state = "open", !.age = 0]
  <2>2. /\ s \in sessions
        /\ t.party = s.party /\ t.offer = s.offer /\ t.confirmed = s.confirmed
    BY ActiveSession DEF Sessions
  <2>3. UNCHANGED record
    BY <1>2 DEF Accept
  <2> HIDE DEF t
  <2>4. sessions' = (sessions \ {s}) \cup {t}
    BY <2>1 DEF t
  <2>5. QED
    BY <2>2, <2>3, <2>4, ReleasingWithdraws
<1>3. ASSUME NEW s \in Active(slot[acct]), NEW x \in Sides, NEW o \in Offers,
             sessions' = (sessions \ {s}) \cup {Touched(s, x, o)}, UNCHANGED record
      PROVE  Promise!Withdraw
  <2>1. Touched(s, x, o).confirmed = {}
    BY ActiveSession, TouchedSession
  <2>2. QED
    BY <1>3, <2>1, ReleasingWithdraws
<1>4. CASE \E amount \in 0 .. MaxMoney : OfferMoney(acct, amount)
  <2>1. PICK amount \in 0 .. MaxMoney : OfferMoney(acct, amount)
    BY <1>4
  <2>2. PICK s \in Active(slot[acct]) :
          sessions' = (sessions \ {s}) \cup {Touched(s, SideOf(s, slot[acct]),
                         [OfferFor(s, slot[acct]) EXCEPT !.money = amount])}
    BY <2>1 DEF OfferMoney
  <2>3. SideOf(s, slot[acct]) \in Sides /\ OfferFor(s, slot[acct]) \in Offers
    BY ActiveSession
  <2>4. [OfferFor(s, slot[acct]) EXCEPT !.money = amount] \in Offers
    BY <2>3 DEF Offers
  <2>5. UNCHANGED record
    BY <2>1 DEF OfferMoney
  <2>6. QED
    BY <1>3, <2>2, <2>3, <2>4, <2>5
<1>5. CASE \E item \in Items, quantity \in 0 .. MaxQuantity : OfferItem(acct, item, quantity)
  <2>1. PICK item \in Items, quantity \in 0 .. MaxQuantity : OfferItem(acct, item, quantity)
    BY <1>5
  <2>2. PICK s \in Active(slot[acct]) :
          sessions' = (sessions \ {s}) \cup {Touched(s, SideOf(s, slot[acct]),
                         [OfferFor(s, slot[acct]) EXCEPT !.items[item] = quantity])}
    BY <2>1 DEF OfferItem
  <2>3. SideOf(s, slot[acct]) \in Sides /\ OfferFor(s, slot[acct]) \in Offers
    BY ActiveSession
  <2>4. [OfferFor(s, slot[acct]) EXCEPT !.items[item] = quantity] \in Offers
    BY <2>3 DEF Offers
  <2>5. UNCHANGED record
    BY <2>1 DEF OfferItem
  <2>6. QED
    BY <1>3, <2>2, <2>3, <2>4, <2>5
<1>6. CASE Cancel(acct) \/ Lifecycle(acct)
  <2>1. UNCHANGED record /\ sessions' \subseteq sessions
    BY <1>6 DEF Cancel, Lifecycle, Connect, Disconnect, LeaveWorld, BleedOut, NewCharacter,
         Spawn, Move, SelectCharacter, DeleteCharacter, EndTradeFor
  <2>2. QED
    BY <2>1, ReleasingWithdraws
<1>7. CASE TickTrades
  <2> DEFINE older(s) == [s EXCEPT !.age = @ + 1]
             kept == {t \in sessions : ~Expired(t) /\ ~TooFar(t)}
  <2>1. sessions' = {older(s) : s \in kept} /\ UNCHANGED record
    BY <1>7 DEF TickTrades
  <2>2. \A s \in sessions : /\ older(s).party = s.party /\ older(s).offer = s.offer
                            /\ older(s).confirmed = s.confirmed
    BY DEF IInv, TypeOK, Sessions
  <2> HIDE DEF older
  <2>3. QED
    BY <2>1, <2>2, ReleasingWithdraws
<1>8. QED
  BY <1>1, <1>2, <1>4, <1>5, <1>6, <1>7

\* Every handler is a step of the exchange, or none: edits, expiry, cancelling and
\* leaving release people, the first confirmation agrees, the second settles,
\* /pay pays and a save declares.
LEMMA NextExchanges ==
  IInv /\ [Next]_vars => [Promise!Next]_<<Wealth, Agreed>>
<1> SUFFICES ASSUME IInv, [Next]_vars
             PROVE  Promise!Next \/ UNCHANGED <<Wealth, Agreed>>
  OBVIOUS
<1>1. ASSUME NEW acct \in Accounts, TradeCommand(acct) PROVE Promise!Next
  <2>1. CASE ConfirmFirst(acct)
    BY <2>1, ConfirmFirstAgrees DEF Promise!Next
  <2>2. CASE ConfirmSecond(acct)
    <3>1. PICK s \in Active(slot[acct]) :
            /\ OtherSide(SideOf(s, slot[acct])) \in s.confirmed
            /\ sessions' = sessions \ {s}
            /\ \/ TradeGoesThrough(s) /\ ApplyTrade(s)
               \/ UNCHANGED record
      BY <2>2 DEF ConfirmSecond
    <3>2. s \in sessions /\ SideOf(s, slot[acct]) \in Sides
      BY ActiveSession
    <3>3. CASE TradeGoesThrough(s) /\ ApplyTrade(s)
      BY <3>1, <3>2, <3>3, CommitSettles DEF Promise!Next
    <3>4. CASE UNCHANGED record
      BY <3>1, <3>4, ReleasingWithdraws DEF Promise!Next
    <3>5. QED
      BY <3>1, <3>3, <3>4
  <2>3. QED
    BY <1>1, <2>1, <2>2, SessionHandlersWithdraw DEF TradeCommand, Promise!Next
<1>2. ASSUME NEW acct \in Accounts, Lifecycle(acct) PROVE Promise!Next
  BY <1>2, SessionHandlersWithdraw DEF Promise!Next
<1>3. ASSUME NEW acct \in Accounts, Bookkeeping(acct) PROVE Promise!Next
  BY <1>3, PaySends, SaveDeclares DEF Bookkeeping, Promise!Next
<1>4. CASE TickTrades
  <2>1. CASE Accounts # {}
    BY <1>4, <2>1, SessionHandlersWithdraw DEF Promise!Next
  <2>2. CASE Accounts = {}
    <3>1. Chars = {}
      BY <2>2, ConstantsAssumption
    <3>2. sessions = {}
      BY <3>1 DEF IInv, TypeOK, Sessions, Sides
    <3>3. QED
      BY <1>4, <3>2, ReleasingWithdraws DEF TickTrades, Promise!Next
  <2>3. QED
    BY <2>1, <2>2
<1>5. CASE UNCHANGED vars
  BY <1>5 DEF vars, Wealth, Agreed, AgreedIn
<1>6. QED
  BY <1>1, <1>2, <1>3, <1>4, <1>5 DEF Next

\* At server start nobody has agreed to anything.
LEMMA InitExchanges == Init => Promise!Init
<1>1. SUFFICES ASSUME Init PROVE Promise!Init
  OBVIOUS
<1>2. Agreed = {}
  BY <1>1 DEF Init, Agreed
<1>3. Wealth \in [Chars -> Promise!Bundles]
  BY <1>1, ConstantsAssumption DEF Init, Wealth, Holdings, Promise!Bundles
<1>4. QED
  BY <1>2, <1>3 DEF Promise!Init

\* Trading is an exchange of agreed deals: an edited offer is never still
\* agreed to, and possessions move whole, at once, to whom both agreed.
THEOREM TradeImplementsExchange == Spec => ImplementsExchange
  BY InitExchanges, NextExchanges, Invariance, PTL DEF Spec, ImplementsExchange, Promise!Spec

-----------------------------------------------------------------------------
(* What a live trade has promised stays covered. *)

\* With one trade each, what a character promised is its offer in that trade.
LEMMA PromisedIsTheOffer ==
  ASSUME IInv, NEW c, NEW s \in Active(c)
  PROVE  Promised(c) = OfferFor(s, c)
<1>1. Active(c) = {s}
  BY DEF IInv, OneTradeEach, Active, Parties
<1>2. QED
  BY <1>1 DEF Promised

\* Sessions that keep their offers stay covered while the records stay.
LEMMA SameOffersStayCovered ==
  ASSUME \A s \in sessions : Covered(s), UNCHANGED record,
         \A t \in sessions' : \E s \in sessions : t.party = s.party /\ t.offer = s.offer
  PROVE  (\A s \in sessions : Covered(s))'
<1> SUFFICES ASSUME NEW t \in sessions' PROVE Covered(t)'
  OBVIOUS
<1>1. PICK s \in sessions : t.party = s.party /\ t.offer = s.offer
  OBVIOUS
<1>2. QED
  BY <1>1 DEF Covered, Covers

\* An offer is edited only within what its owner holds.
LEMMA TouchedStaysCovered ==
  ASSUME IInv, \A s \in sessions : Covered(s), UNCHANGED record,
         NEW s \in sessions, NEW x \in Sides, NEW o \in Offers,
         Covers(record[s.party[x]], o),
         sessions' = (sessions \ {s}) \cup {Touched(s, x, o)}
  PROVE  (\A u \in sessions : Covered(u))'
<1> DEFINE t == Touched(s, x, o)
<1>1. s \in Sessions
  BY DEF IInv, TypeOK
<1>2. /\ t.party = s.party /\ t.offer[x] = o
      /\ \A z \in Sides \ {x} : t.offer[z] = s.offer[z]
  BY <1>1 DEF Touched, Sessions
<1> HIDE DEF t
<1>3. Covered(t)'
  BY <1>2 DEF Covered, Covers
<1>4. sessions' = (sessions \ {s}) \cup {t}
  BY DEF t
<1>5. QED
  BY <1>3, <1>4 DEF Covered, Covers

\* /trade money offers no more than its owner holds (AvailableMoney).
LEMMA OfferMoneyCovered ==
  ASSUME IInv, \A s \in sessions : Covered(s), NEW acct \in Accounts,
         NEW amount \in 0 .. MaxMoney, OfferMoney(acct, amount)
  PROVE  (\A s \in sessions : Covered(s))'
<1> DEFINE me == slot[acct]
<1>1. PICK s \in Active(me) :
        /\ amount <= AvailableMoney(me, Promised(me).money - OfferFor(s, me).money)
        /\ sessions' = (sessions \ {s}) \cup
             {Touched(s, SideOf(s, me), [OfferFor(s, me) EXCEPT !.money = amount])}
  BY DEF OfferMoney
<1>2. /\ s \in sessions /\ s \in Sessions /\ SideOf(s, me) \in Sides
      /\ s.party[SideOf(s, me)] = me /\ OfferFor(s, me) \in Offers
      /\ me \in Chars
  BY ActiveSession DEF Sessions
<1>3. record[me] \in Holdings
  BY <1>2 DEF IInv, TypeOK
<1>4. amount <= record[me].money
  <2>1. Promised(me).money - OfferFor(s, me).money = 0
    BY <1>2, PromisedIsTheOffer, ConstantsAssumption DEF Offers
  <2>2. AvailableMoney(me, 0) = record[me].money
    BY <1>3, ConstantsAssumption DEF AvailableMoney, Holdings
  <2>3. QED
    BY <1>1, <2>1, <2>2
<1> DEFINE o == [OfferFor(s, me) EXCEPT !.money = amount]
<1>5. o \in Offers
  BY <1>2 DEF Offers
<1>6. Covers(record[me], OfferFor(s, me))
  BY <1>2 DEF Covered, OfferFor
<1>7. Covers(record[me], o)
  BY <1>2, <1>4, <1>6 DEF Covers, Offers
<1>8. UNCHANGED record
  BY DEF OfferMoney
<1> HIDE DEF o
<1>9. sessions' = (sessions \ {s}) \cup {Touched(s, SideOf(s, me), o)}
  BY <1>1 DEF o
<1>10. QED
  BY <1>2, <1>5, <1>7, <1>8, <1>9, TouchedStaysCovered

\* /trade item offers no more than its owner holds (HeldQuantity).
LEMMA OfferItemCovered ==
  ASSUME IInv, \A s \in sessions : Covered(s), NEW acct \in Accounts,
         NEW item \in Items, NEW quantity \in 0 .. MaxQuantity,
         OfferItem(acct, item, quantity)
  PROVE  (\A s \in sessions : Covered(s))'
<1> DEFINE me == slot[acct]
<1>1. PICK s \in Active(me) :
        /\ quantity <= record[me].items[item]
        /\ sessions' = (sessions \ {s}) \cup
             {Touched(s, SideOf(s, me), [OfferFor(s, me) EXCEPT !.items[item] = quantity])}
  BY DEF OfferItem
<1>2. /\ s \in sessions /\ s \in Sessions /\ SideOf(s, me) \in Sides
      /\ s.party[SideOf(s, me)] = me /\ OfferFor(s, me) \in Offers
  BY ActiveSession DEF Sessions
<1> DEFINE o == [OfferFor(s, me) EXCEPT !.items[item] = quantity]
<1>3. /\ o \in Offers /\ o.money = OfferFor(s, me).money
      /\ \A i \in Items : o.items[i] = IF i = item THEN quantity ELSE OfferFor(s, me).items[i]
  BY <1>2 DEF Offers
<1>4. Covers(record[me], OfferFor(s, me))
  BY <1>2 DEF Covered, OfferFor
<1>5. UNCHANGED record
  BY DEF OfferItem
<1> HIDE DEF o
<1>6. Covers(record[me], o)
  BY <1>1, <1>3, <1>4 DEF Covers
<1>7. sessions' = (sessions \ {s}) \cup {Touched(s, SideOf(s, me), o)}
  BY <1>1 DEF o
<1>8. QED
  BY <1>2, <1>3, <1>5, <1>6, <1>7, TouchedStaysCovered

\* /pay leaves what the payer promised in its trade.
LEMMA PayCovered ==
  ASSUME IInv, \A s \in sessions : Covered(s), NEW acct \in Accounts,
         NEW to \in Chars, NEW amount \in 1 .. MaxMoney, Pay(acct, to, amount)
  PROVE  (\A s \in sessions : Covered(s))'
<1> DEFINE me == slot[acct]
<1>1. /\ me \in Chars /\ me # to
      /\ amount <= AvailableMoney(me, Promised(me).money)
      /\ record'[me].money = record[me].money - amount
      /\ record'[to].money = record[to].money + amount
      /\ record'[me].items = record[me].items /\ record'[to].items = record[to].items
      /\ \A c \in Chars \ {me, to} : record'[c] = record[c]
  BY PayEffect DEF IInv
<1>2. sessions' = sessions
  BY DEF Pay
<1>3. SUFFICES ASSUME NEW s \in sessions, NEW x \in Sides
               PROVE  Covers(record'[s.party[x]], s.offer[x])
  BY <1>2 DEF Covered, Covers
<1>4. /\ s.party[x] \in Chars /\ s.offer[x] \in Offers
      /\ Covers(record[s.party[x]], s.offer[x])
      /\ record[s.party[x]] \in Holdings
  BY DEF IInv, TypeOK, Sessions, Covered
<1>5. CASE s.party[x] = me
  <2>1. s \in Active(me) /\ OfferFor(s, me) = s.offer[x]
    BY <1>5 DEF Active, Parties, OfferFor, SideOf, Sides, IInv, OneTradeEach
  <2>2. Promised(me).money = s.offer[x].money
    BY <2>1, PromisedIsTheOffer
  <2>3. s.offer[x].money <= record[me].money - amount
    BY <1>1, <1>4, <1>5, <2>2, ConstantsAssumption DEF AvailableMoney, Offers, Holdings
  <2>4. QED
    BY <1>1, <1>4, <1>5, <2>3 DEF Covers
<1>6. CASE s.party[x] = to
  <2>1. s.offer[x].money <= record[to].money + amount
    BY <1>4, <1>6, ConstantsAssumption DEF Covers, Offers, Holdings
  <2>2. QED
    BY <1>1, <1>4, <1>6, <2>1 DEF Covers
<1>7. CASE s.party[x] \notin {me, to}
  BY <1>1, <1>4, <1>7
<1>8. QED
  BY <1>5, <1>6, <1>7

\* A commit touches nobody who is in another trade.
LEMMA ConfirmSecondCovered ==
  ASSUME IInv, \A s \in sessions : Covered(s), NEW acct \in Accounts, ConfirmSecond(acct)
  PROVE  (\A s \in sessions : Covered(s))'
<1>1. PICK s \in Active(slot[acct]) :
        /\ sessions' = sessions \ {s}
        /\ \/ TradeGoesThrough(s) /\ ApplyTrade(s)
           \/ UNCHANGED record
  BY DEF ConfirmSecond
<1>2. s \in sessions /\ TypeOK
  BY ActiveSession DEF IInv
<1>3. CASE TradeGoesThrough(s) /\ ApplyTrade(s)
  <2>1. \A c \in Chars \ {s.party["A"], s.party["B"]} : record'[c] = record[c]
    BY <1>2, <1>3, CommitEffect
  <2>2. SUFFICES ASSUME NEW t \in sessions \ {s}, NEW x \in Sides
                 PROVE  Covers(record'[t.party[x]], t.offer[x])
    BY <1>1 DEF Covered, Covers
  <2>3. t.party[x] \in Chars /\ t.party[x] \in Parties(t)
    BY <1>2 DEF TypeOK, Sessions, Parties, Sides
  <2>4. t.party[x] \notin Parties(s)
    BY <1>2, <2>3 DEF IInv, OneTradeEach
  <2>5. record'[t.party[x]] = record[t.party[x]]
    BY <2>1, <2>3, <2>4 DEF Parties
  <2>6. QED
    BY <2>5 DEF Covered
<1>4. CASE UNCHANGED record
  BY <1>1, <1>4, SameOffersStayCovered
<1>5. QED
  BY <1>1, <1>3, <1>4

\* Every handler but a client's save leaves covered what was covered.
LEMMA NextKeepsPromises ==
  IInv /\ [Next]_vars /\ (\A s \in sessions : Covered(s)) =>
    \/ (\A s \in sessions : Covered(s))'
    \/ \E acct \in Accounts, claim \in SaveClaims : SaveCharacter(acct, claim)
<1> DEFINE Saves == \E acct \in Accounts, claim \in SaveClaims : SaveCharacter(acct, claim)
           AllCovered == \A s \in sessions : Covered(s)
<1> SUFFICES ASSUME IInv, [Next]_vars, AllCovered PROVE AllCovered' \/ Saves
  OBVIOUS
<1>1. ASSUME NEW acct \in Accounts, TradeCommand(acct) PROVE AllCovered'
  <2>1. CASE \E other \in Accounts : Invite(acct, other)
    <3>1. PICK other \in Accounts : Invite(acct, other)
      BY <2>1
    <3> DEFINE t == [party |-> [x \in Sides |-> IF x = "A" THEN slot[acct] ELSE slot[other]],
                     state |-> "requested", offer |-> [x \in Sides |-> NoOffer],
                     confirmed |-> {}, age |-> 0]
    <3>2. sessions' = sessions \cup {t} /\ UNCHANGED record
      BY <3>1 DEF Invite
    <3>3. \A x \in Sides : t.party[x] \in Chars /\ t.offer[x] = NoOffer
      BY <3>1 DEF Invite, Sender, HasCharacter, IInv, TypeOK
    <3> HIDE DEF t
    <3>4. \A c \in Chars : Covers(record[c], NoOffer)
      BY ConstantsAssumption DEF IInv, TypeOK, Holdings, Covers, NoOffer
    <3>5. QED
      BY <3>2, <3>3, <3>4 DEF Covered, Covers
  <2>2. CASE Accept(acct)
    <3>1. PICK s \in Active(slot[acct]) :
            sessions' = (sessions \ {s}) \cup {[s EXCEPT !.state = "open", !.age = 0]}
      BY <2>2 DEF Accept
    <3> DEFINE t == [s EXCEPT !.state = "open", !.age = 0]
    <3>2. s \in sessions /\ t.party = s.party /\ t.offer = s.offer
      BY ActiveSession DEF Sessions
    <3>3. UNCHANGED record
      BY <2>2 DEF Accept
    <3> HIDE DEF t
    <3>4. sessions' = (sessions \ {s}) \cup {t}
      BY <3>1 DEF t
    <3>5. QED
      BY <3>2, <3>3, <3>4, SameOffersStayCovered
  <2>3. CASE ConfirmFirst(acct)
    <3>1. PICK s \in Active(slot[acct]) :
            sessions' = (sessions \ {s}) \cup
              {[s EXCEPT !.confirmed = @ \cup {SideOf(s, slot[acct])}, !.age = 0]}
      BY <2>3 DEF ConfirmFirst
    <3> DEFINE t == [s EXCEPT !.confirmed = @ \cup {SideOf(s, slot[acct])}, !.age = 0]
    <3>2. s \in sessions /\ t.party = s.party /\ t.offer = s.offer
      BY ActiveSession DEF Sessions
    <3>3. UNCHANGED record
      BY <2>3 DEF ConfirmFirst
    <3> HIDE DEF t
    <3>4. sessions' = (sessions \ {s}) \cup {t}
      BY <3>1 DEF t
    <3>5. QED
      BY <3>2, <3>3, <3>4, SameOffersStayCovered
  <2>4. CASE Cancel(acct)
    BY <2>4, SameOffersStayCovered DEF Cancel, EndTradeFor
  <2>5. QED
    BY <1>1, <2>1, <2>2, <2>3, <2>4, OfferMoneyCovered, OfferItemCovered,
       ConfirmSecondCovered DEF TradeCommand
<1>2. ASSUME NEW acct \in Accounts, Lifecycle(acct) PROVE AllCovered'
  <2>1. UNCHANGED record /\ sessions' \subseteq sessions
    BY <1>2 DEF Lifecycle, Connect, Disconnect, LeaveWorld, BleedOut, NewCharacter,
         Spawn, Move, SelectCharacter, DeleteCharacter, EndTradeFor
  <2>2. QED
    BY <2>1, SameOffersStayCovered
<1>3. ASSUME NEW acct \in Accounts, Bookkeeping(acct) PROVE AllCovered' \/ Saves
  BY <1>3, PayCovered DEF Bookkeeping
<1>4. CASE TickTrades
  <2> DEFINE older(s) == [s EXCEPT !.age = @ + 1]
             kept == {t \in sessions : ~Expired(t) /\ ~TooFar(t)}
  <2>1. sessions' = {older(s) : s \in kept} /\ UNCHANGED record
    BY <1>4 DEF TickTrades
  <2>2. \A s \in sessions : older(s).party = s.party /\ older(s).offer = s.offer
    BY DEF IInv, TypeOK, Sessions
  <2> HIDE DEF older
  <2>3. QED
    BY <2>1, <2>2, SameOffersStayCovered
<1>5. CASE UNCHANGED vars
  BY <1>5, SameOffersStayCovered DEF vars
<1>6. QED
  BY <1>1, <1>2, <1>3, <1>4, <1>5 DEF Next

\* Promises of everybody whose record only grows, in money, stay covered.
LEMMA OthersStayCovered ==
  ASSUME IInv, IInv', \A u \in sessions : Covered(u), UNCHANGED <<slot, sessions>>,
         NEW acct \in Accounts, slot[acct] \in Chars,
         \A d \in Chars \ {slot[acct]} :
           record'[d].money >= record[d].money /\ record'[d].items = record[d].items,
         NEW s \in sessions', NEW x \in Sides
  PROVE  Covers(record'[s.party[x]], s.offer[x]) \/ Owner[s.party[x]] = acct
<1> DEFINE c == s.party[x]
<1>1. /\ c \in Chars /\ s.offer[x] \in Offers
      /\ Covers(record[c], s.offer[x])
      /\ record[c] \in Holdings /\ record'[c] \in Holdings
  BY DEF IInv, TypeOK, Sessions, Covered
<1>2. CASE c = slot[acct]
  BY <1>2 DEF IInv, SlotsOwned
<1>3. CASE c # slot[acct]
  <2>1. /\ s.offer[x].money \in Nat /\ record[c].money \in Nat /\ record'[c].money \in Nat
        /\ s.offer[x].money <= record[c].money /\ record'[c].money >= record[c].money
    BY <1>1, <1>3, ConstantsAssumption DEF Offers, Holdings, Covers
  <2>2. \A i \in Items : s.offer[x].items[i] <= record'[c].items[i]
    BY <1>1, <1>3 DEF Covers
  <2>3. s.offer[x].money <= record'[c].money
    BY <2>1
  <2>4. QED
    BY <2>2, <2>3 DEF Covers
<1>4. QED
  BY <1>2, <1>3

\* Every handler of trading leaves each promise covered, but for the save of the
\* one who made it.
LEMMA NextKeepsOthersPromises == IInv /\ [Next]_vars => [KeptButForOwnSaves]_vars
<1> SUFFICES ASSUME IInv, [Next]_vars, \A u \in sessions : Covered(u),
                    NEW s \in sessions', NEW x \in Sides
             PROVE  \/ Covers(record'[s.party[x]], s.offer[x])
                    \/ \E claim \in SaveClaims : SaveCharacter(Owner[s.party[x]], claim)
  BY DEF KeptButForOwnSaves
<1>1. IInv'
  BY NextKeeps
<1>2. CASE (\A u \in sessions : Covered(u))'
  BY <1>2 DEF Covered
<1>3. ASSUME NEW acct \in Accounts, NEW claim \in SaveClaims, SaveCharacter(acct, claim)
      PROVE  Covers(record'[s.party[x]], s.offer[x]) \/ Owner[s.party[x]] = acct
  <2>1. /\ slot[acct] \in Chars
        /\ \A d \in Chars \ {slot[acct]} : record'[d] = record[d]
        /\ UNCHANGED <<slot, sessions>>
    BY <1>3, SaveEffect DEF IInv, SaveCharacter, people
  <2>2. \A d \in Chars : record[d].money \in Nat
    BY ConstantsAssumption DEF IInv, TypeOK, Holdings
  <2>3. \A d \in Chars \ {slot[acct]} :
          record'[d].money >= record[d].money /\ record'[d].items = record[d].items
    BY <2>1, <2>2
  <2>4. QED
    BY <1>1, <2>1, <2>3, OthersStayCovered
<1>4. QED
  BY <1>2, <1>3, NextKeepsPromises

\* A covered promise is broken by nothing but its owner's own client save: /pay,
\* other trades, commits, edits and other people's saves all leave it covered.
THEOREM PromisesAreKept == Spec => PromisesKept
  BY NextKeepsOthersPromises, Invariance, PTL DEF Spec, PromisesKept

\* While no client save is taken, every offer on the table is covered at every
\* moment: the commit cannot fail for want of what was offered.
COROLLARY PromisesHold ==
  ASSUME SaveClaims = {}
  PROVE  Spec => [](\A s \in sessions : Covered(s))
<1> DEFINE AllCovered == \A s \in sessions : Covered(s)
<1>1. Init => AllCovered
  BY DEF Init
<1>2. AllCovered /\ [KeptButForOwnSaves]_vars => AllCovered'
  BY DEF vars, Covered, Covers, KeptButForOwnSaves
<1>3. QED
  BY <1>1, <1>2, PromisesAreKept, PTL DEF Spec, PromisesKept

-----------------------------------------------------------------------------
(* Money revisions. *)

\* Where no record changes, nothing moved and nothing was counted.
LEMMA StillIsCounted ==
  ASSUME UNCHANGED record
  PROVE  MovementsCounted
  BY DEF MovementsCounted

\* Two records that change alone, and both by one revision (when migrated) or
\* neither in money or revision, are counted right.
LEMMA PairIsCounted ==
  ASSUME NEW a \in Chars, NEW b \in Chars, a # b,
         \A e \in Chars \ {a, b} : record'[e] = record[e],
         \/ \A c \in {a, b} : record'[c].revision =
              IF IsMigrated(record[c]) THEN record[c].revision + 1 ELSE record[c].revision
         \/ \A c \in {a, b} : /\ record'[c].revision = record[c].revision
                              /\ record'[c].money = record[c].money
  PROVE  MovementsCounted
  BY DEF MovementsCounted

\* Every handler counts the movements it makes.
LEMMA NextCounts == IInv /\ [Next]_vars => [MovementsCounted]_vars
<1> SUFFICES ASSUME IInv, Next PROVE MovementsCounted
  OBVIOUS
<1>1. ASSUME NEW acct \in Accounts, ConfirmSecond(acct) PROVE MovementsCounted
  <2>1. PICK s \in Active(slot[acct]) :
          \/ TradeGoesThrough(s) /\ ApplyTrade(s)
          \/ UNCHANGED record
    BY <1>1 DEF ConfirmSecond
  <2>2. CASE TradeGoesThrough(s) /\ ApplyTrade(s)
    <3> DEFINE a == s.party["A"]
               b == s.party["B"]
               gives == s.offer["A"]
               returns == s.offer["B"]
               advance == MoneyMoves(gives, returns)
    <3>1. s \in sessions /\ TypeOK
      BY ActiveSession DEF IInv
    <3>2. /\ a \in Chars /\ b \in Chars /\ a # b
          /\ gives \in Offers /\ returns \in Offers
          /\ record'[a] = Settled(record[a], gives, returns, advance)
          /\ record'[b] = Settled(record[b], returns, gives, advance)
          /\ \A c \in Chars \ {a, b} : record'[c] = record[c]
      BY <2>2, <3>1, CommitEffect
    <3>3. /\ advance \in BOOLEAN
          /\ advance => CanAdvanceRevision(record[a]) /\ CanAdvanceRevision(record[b])
          /\ TradeApplies(record[a], record[b], gives, returns)
      BY <2>2 DEF TradeGoesThrough, MoneyMoves
    <3>4. record[a] \in Holdings /\ record[b] \in Holdings
      BY <3>1, <3>2 DEF TypeOK
    <3>5. ~advance => gives.money = 0 /\ returns.money = 0
      BY <3>2, ConstantsAssumption DEF MoneyMoves, Offers
    <3> HIDE DEF a, b, gives, returns, advance
    <3>6. CASE advance
      <4>1. /\ record'[a] = Settled(record[a], gives, returns, TRUE)
            /\ record'[b] = Settled(record[b], returns, gives, TRUE)
            /\ CanAdvanceRevision(record[a]) /\ CanAdvanceRevision(record[b])
        <5>1. advance = TRUE
          BY <3>3, <3>6
        <5>2. QED
          BY <3>2, <3>3, <5>1
      <4>2. record'[a].revision =
              IF IsMigrated(record[a]) THEN record[a].revision + 1 ELSE record[a].revision
        <5>1. Settled(record[a], gives, returns, TRUE).revision =
              IF IsMigrated(record[a]) THEN record[a].revision + 1 ELSE record[a].revision
          BY <3>2, <3>4, <4>1, SettledRevision
        <5>2. QED
          BY <5>1, <4>1
      <4>3. record'[b].revision =
              IF IsMigrated(record[b]) THEN record[b].revision + 1 ELSE record[b].revision
        <5>1. Settled(record[b], returns, gives, TRUE).revision =
              IF IsMigrated(record[b]) THEN record[b].revision + 1 ELSE record[b].revision
          BY <3>2, <3>4, <4>1, SettledRevision
        <5>2. QED
          BY <5>1, <4>1
      <4>4. QED
        BY PairIsCounted, <3>2, <4>2, <4>3
    <3>7. CASE ~advance
      <4>1. /\ record'[a] = Settled(record[a], gives, returns, FALSE)
            /\ record'[b] = Settled(record[b], returns, gives, FALSE)
        <5>1. advance = FALSE
          BY <3>3, <3>7
        <5>2. QED
          BY <3>2, <5>1
      <4>2. /\ record'[a].money = (record[a].money - gives.money) + returns.money
            /\ record'[a].revision = record[a].revision
        <5>1. LET t == Settled(record[a], gives, returns, FALSE)
              IN  /\ t.money = (record[a].money - gives.money) + returns.money
                  /\ t.revision = record[a].revision
          BY <3>2, <3>4, SettledRevision
        <5>2. QED
          BY <5>1, <4>1
      <4>3. /\ record'[b].money = (record[b].money - returns.money) + gives.money
            /\ record'[b].revision = record[b].revision
        <5>1. LET t == Settled(record[b], returns, gives, FALSE)
              IN  /\ t.money = (record[b].money - returns.money) + gives.money
                  /\ t.revision = record[b].revision
          BY <3>2, <3>4, SettledRevision
        <5>2. QED
          BY <5>1, <4>1
      <4>4. {record[a].money, record[b].money} \subseteq Nat
        BY <3>4, ConstantsAssumption DEF Holdings
      <4>5. record'[a].money = record[a].money /\ record'[b].money = record[b].money
        BY <3>5, <3>7, <4>2, <4>3, <4>4
      <4>6. QED
        BY PairIsCounted, <3>2, <4>2, <4>3, <4>5
    <3>8. QED
      BY <3>6, <3>7
  <2>3. QED
    BY StillIsCounted, <2>1, <2>2
<1>2. ASSUME NEW acct \in Accounts, NEW to \in Chars, NEW amount \in 1 .. MaxMoney,
             Pay(acct, to, amount)
      PROVE  MovementsCounted
  <2>1. /\ slot[acct] \in Chars /\ slot[acct] # to
        /\ \A c \in {slot[acct], to} : record'[c].revision =
             IF IsMigrated(record[c]) THEN record[c].revision + 1 ELSE record[c].revision
        /\ \A c \in Chars \ {slot[acct], to} : record'[c] = record[c]
    BY <1>2, PayEffect DEF IInv
  <2>2. QED
    BY PairIsCounted, <2>1
<1>3. ASSUME NEW acct \in Accounts, NEW claim \in SaveClaims, SaveCharacter(acct, claim)
      PROVE  MovementsCounted
  <2>1. /\ slot[acct] \in Chars
        /\ record'[slot[acct]] = Declared(record[slot[acct]], claim)
        /\ \A c \in Chars \ {slot[acct]} : record'[c] = record[c]
    BY <1>3, SaveEffect DEF IInv
  <2>2. record'[slot[acct]].revision = record[slot[acct]].revision
    BY <2>1 DEF Declared
  <2>3. QED
    BY <2>1, <2>2 DEF MovementsCounted
<1>4. ASSUME NEW acct \in Accounts, TradeCommand(acct) PROVE MovementsCounted
  BY StillIsCounted, <1>1, <1>4 DEF TradeCommand, Invite, Accept, OfferMoney, OfferItem, ConfirmFirst,
       Cancel
<1>5. ASSUME NEW acct \in Accounts, Lifecycle(acct) PROVE UNCHANGED record
  BY <1>5 DEF Lifecycle, Connect, Disconnect, LeaveWorld, BleedOut, NewCharacter,
       Spawn, Move, SelectCharacter, DeleteCharacter
<1>6. QED
  BY StillIsCounted, <1>2, <1>3, <1>4, <1>5 DEF Next, Bookkeeping, TickTrades

\* Two balances that move together each take exactly one revision (when the
\* character is migrated), and a revision never moves for any other reason.
THEOREM RevisionsCountMovements == Spec => RevisionPerMovement
  BY NextCounts, Invariance, PTL DEF Spec, RevisionPerMovement
-----------------------------------------------------------------------------
(* Sales beside trades. *)

\* Taking one pending sale out of the list keeps the others, in their order
\* (m_pendingSales.erase in the commands that end an offer).
LEMMA WithoutOne ==
  ASSUME NEW S, offers \in Seq(S), NEW i \in DOMAIN offers
  PROVE  /\ Without(i) \in Seq(S)
         /\ Len(Without(i)) = Len(offers) - 1
         /\ \A j \in 1 .. Len(offers) - 1 :
              Without(i)[j] = offers[IF j < i THEN j ELSE j + 1]
<1> DEFINE before == SubSeq(offers, 1, i - 1)
           after == SubSeq(offers, i + 1, Len(offers))
<1>1. /\ Len(offers) \in Nat /\ i \in 1 .. Len(offers)
      /\ \A j \in 1 .. Len(offers) : offers[j] \in S
  BY LenProperties
<1>2. /\ before \in Seq(S) /\ Len(before) = i - 1
      /\ \A j \in 1 .. i - 1 : before[j] = offers[j]
  <2>1. 1 \in Int /\ i - 1 \in Int /\ \A j \in 1 .. i - 1 : offers[j] \in S
    BY <1>1
  <2>2. /\ before \in Seq(S)
        /\ Len(before) = IF 1 <= i - 1 THEN (i - 1) - 1 + 1 ELSE 0
        /\ \A j \in 1 .. (i - 1) - 1 + 1 : before[j] = offers[1 + j - 1]
    BY <2>1, SubSeqProperties
  <2> HIDE DEF before
  <2>3. QED
    BY <1>1, <2>2
<1>3. /\ after \in Seq(S) /\ Len(after) = Len(offers) - i
      /\ \A j \in 1 .. Len(offers) - i : after[j] = offers[i + j]
  <2>1. i + 1 \in Int /\ Len(offers) \in Int
        /\ \A j \in i + 1 .. Len(offers) : offers[j] \in S
    BY <1>1
  <2>2. /\ after \in Seq(S)
        /\ Len(after) = IF i + 1 <= Len(offers) THEN Len(offers) - (i + 1) + 1 ELSE 0
        /\ \A j \in 1 .. Len(offers) - (i + 1) + 1 : after[j] = offers[i + 1 + j - 1]
    BY <2>1, SubSeqProperties
  <2> HIDE DEF after
  <2>3. QED
    BY <1>1, <2>2
<1>4. Without(i) = before \o after
  BY DEF Without
<1> HIDE DEF before, after
<1>5. /\ before \o after \in Seq(S)
      /\ Len(before \o after) = Len(before) + Len(after)
      /\ \A j \in 1 .. Len(before) + Len(after) :
           (before \o after)[j] = IF j <= Len(before) THEN before[j] ELSE after[j - Len(before)]
  BY <1>2, <1>3, ConcatProperties
<1>6. Len(Without(i)) = Len(offers) - 1
  BY <1>1, <1>2, <1>3, <1>4, <1>5
<1>7. ASSUME NEW j \in 1 .. Len(offers) - 1
      PROVE  Without(i)[j] = offers[IF j < i THEN j ELSE j + 1]
  <2>1. CASE j < i
    BY <1>1, <1>2, <1>3, <1>4, <1>5, <2>1
  <2>2. CASE ~(j < i)
    <3>1. j - (i - 1) \in 1 .. Len(offers) - i /\ i + (j - (i - 1)) = j + 1
      BY <1>1, <2>2
    <3>2. Without(i)[j] = after[j - (i - 1)]
      <4>1. Len(before) = i - 1 /\ j \in 1 .. Len(before) + Len(after) /\ ~(j <= Len(before))
        BY <1>1, <1>2, <1>3, <2>2
      <4>2. QED
        BY <1>4, <1>5, <4>1
    <3>3. QED
      BY <1>3, <2>2, <3>1, <3>2
  <2>3. QED
    BY <2>1, <2>2
<1>8. QED
  BY <1>4, <1>5, <1>6, <1>7

\* What a pending sale is made of.
LEMMA PendingOffer ==
  ASSUME SaleTypeOK, NEW i \in DOMAIN offers
  PROVE  /\ offers[i] \in SaleOffers
         /\ offers[i].token \in Tokens /\ offers[i].token # NoToken
         /\ offers[i].seller \in Accounts /\ offers[i].buyer \in Accounts
<1>1. offers[i] \in SaleOffers
  BY LenProperties DEF SaleTypeOK
<1>2. QED
  BY <1>1, SaleAssumption DEF SaleOffers

\* What ending the i-th offer may do to the cars: the one it names may change, if
\* no other offer holds it, and is free afterwards.
EndsAlone(i) ==
  /\ offers' = Without(i)
  /\ garage' \in [Cars -> [owner : Accounts \cup {Nobody}, lock : Tokens \cup {NoToken}]]
  /\ \A v \in Cars : Exists(v) => garage'[v].owner # Nobody
  /\ \A v \in Cars : garage'[v] # garage[v] =>
       /\ v = offers[i].car /\ garage[v].lock \in {NoToken, offers[i].token}
       /\ garage'[v].lock = NoToken
  /\ \A v \in Cars : v = offers[i].car /\ garage[v].lock = offers[i].token =>
       garage'[v].lock = NoToken

\* Once an offer is gone, the others stand as they did, with tokens of their own.
LEMMA OthersStand ==
  ASSUME SaleTypeOK, TokensAreOwn, NEW i \in DOMAIN offers, offers' = Without(i)
  PROVE  /\ offers' \in Seq(SaleOffers)
         /\ \A j \in DOMAIN offers' : \E k \in DOMAIN offers \ {i} : offers'[j] = offers[k]
         /\ \A k \in DOMAIN offers \ {i} : \E j \in DOMAIN offers' : offers'[j] = offers[k]
         /\ \A j, k \in DOMAIN offers' : offers'[j].token = offers'[k].token => j = k
         /\ \A j \in DOMAIN offers' : offers'[j].token # offers[i].token
<1> DEFINE old(j) == IF j < i THEN j ELSE j + 1
<1>1. /\ offers' \in Seq(SaleOffers)
      /\ Len(offers') = Len(offers) - 1
      /\ \A j \in 1 .. Len(offers) - 1 : offers'[j] = offers[old(j)]
  BY WithoutOne DEF SaleTypeOK
<1>2. /\ Len(offers) \in Nat /\ DOMAIN offers = 1 .. Len(offers)
      /\ DOMAIN offers' = 1 .. Len(offers) - 1
  BY <1>1, LenProperties DEF SaleTypeOK
<1>3. \A j \in DOMAIN offers' : old(j) \in DOMAIN offers \ {i}
  BY <1>2
<1>4. \A j, k \in DOMAIN offers' : old(j) = old(k) => j = k
  BY <1>2
<1>5. \A k \in DOMAIN offers \ {i} : \E j \in DOMAIN offers' : old(j) = k
  <2> SUFFICES ASSUME NEW k \in DOMAIN offers \ {i} PROVE \E j \in DOMAIN offers' : old(j) = k
    OBVIOUS
  <2>1. CASE k < i
    BY <1>2, <2>1
  <2>2. CASE k > i
    <3>1. k - 1 \in DOMAIN offers' /\ old(k - 1) = k
      BY <1>2, <2>2
    <3>2. QED
      BY <3>1
  <2>3. QED
    BY <1>2, <2>1, <2>2
<1>6. \A j \in DOMAIN offers' : offers'[j] = offers[old(j)]
  BY <1>1, <1>2
<1> HIDE DEF old
<1>7. QED
  BY <1>1, <1>3, <1>4, <1>5, <1>6 DEF TokensAreOwn

\* Ending an offer leaves tokens and parties as the invariant wants them.
LEMMA EndingKeepsSales ==
  ASSUME SaleTypeOK, TokensAreOwn, TwoToASale, NEW i \in DOMAIN offers, EndsAlone(i)
  PROVE  TokensAreOwn' /\ TwoToASale' /\ offers' \in Seq(SaleOffers)
<1>1. /\ offers' \in Seq(SaleOffers)
      /\ \A j \in DOMAIN offers' : \E k \in DOMAIN offers : offers'[j] = offers[k]
      /\ \A j, k \in DOMAIN offers' : offers'[j].token = offers'[k].token => j = k
  BY OthersStand DEF EndsAlone
<1>2. TwoToASale'
  BY <1>1 DEF TwoToASale
<1>3. \A v \in Cars : garage'[v].lock # NoToken => garage'[v] = garage[v]
  BY DEF EndsAlone
<1>4. ASSUME NEW v \in Cars, garage'[v].lock # NoToken
      PROVE  Exists(v)' /\ \A w \in Cars : garage'[w].lock = garage'[v].lock => w = v
  <2>1. Exists(v)'
    BY <1>3, <1>4 DEF TokensAreOwn, Exists
  <2>2. \A w \in Cars : garage'[w].lock = garage'[v].lock => w = v
    BY <1>3, <1>4 DEF TokensAreOwn
  <2>3. QED
    BY <2>1, <2>2
<1>5. QED
  BY <1>1, <1>2, <1>4 DEF TokensAreOwn

\* Ending an offer touches no lock another offer holds, and frees its own.
LEMMA EndingFreesItsOwn ==
  ASSUME SaleTypeOK, TokensAreOwn, NEW i \in DOMAIN offers, EndsAlone(i)
  PROVE  HeldByTheOffer
<1> SUFFICES ASSUME NEW k \in DOMAIN offers, NEW v \in Cars,
                    garage[v].lock = offers[k].token
             PROVE  \/ /\ \E j \in DOMAIN offers' : offers'[j] = offers[k]
                       /\ garage'[v] = garage[v]
                    \/ /\ \A j \in DOMAIN offers' : offers'[j].token # offers[k].token
                       /\ offers[k].car = v => garage'[v].lock = NoToken
  BY DEF HeldByTheOffer
<1>1. CASE k = i
  BY <1>1, OthersStand DEF EndsAlone
<1>2. CASE k # i
  <2>1. \E j \in DOMAIN offers' : offers'[j] = offers[k]
    BY <1>2, OthersStand DEF EndsAlone
  <2>2. garage[v].lock \notin {NoToken, offers[i].token}
    BY <1>2, PendingOffer DEF TokensAreOwn
  <2>3. QED
    BY <2>1, <2>2 DEF EndsAlone
<1>3. QED
  BY <1>1, <1>2

\* What a completed sale does to the records: the price from one to the other,
\* one revision each, and nobody else's (ChatSystem::CompleteSale).
LEMMA ChargeEffect ==
  ASSUME IInv, NEW o \in SaleOffers, o.seller # o.buyer, SaleGoesThrough(o), Charge(o)
  PROVE  LET b == slot[o.buyer]
             s == slot[o.seller]
         IN  /\ b \in Chars /\ s \in Chars /\ b # s
             /\ o.price \in 1 .. MaxMoney /\ o.price <= record[b].money
             /\ record'[b].money = record[b].money - o.price
             /\ record'[s].money = record[s].money + o.price
             /\ \A c \in {b, s} :
                  /\ record'[c] \in Holdings /\ record'[c].items = record[c].items
                  /\ record'[c].revision =
                       IF IsMigrated(record[c]) THEN record[c].revision + 1 ELSE record[c].revision
             /\ \A c \in Chars \ {b, s} : record'[c] = record[c]
             /\ record' \in [Chars -> Holdings]
<1> DEFINE b == slot[o.buyer]
           s == slot[o.seller]
           paid == Debit(record[b], o.price)
           got == Credit(record[s], o.price)
<1>1. /\ MaxMoney \in Nat /\ o.price \in Nat
      /\ o.buyer \in Accounts /\ o.seller \in Accounts
  BY ConstantsAssumption, SaleAssumption DEF SaleOffers
<1>2. b \in Chars /\ s \in Chars /\ b # s
  BY <1>1 DEF SaleGoesThrough, HasCharacter, IInv, TypeOK, SlotsOwned
<1>3. record[b] \in Holdings /\ record[s] \in Holdings
  BY <1>2 DEF IInv, TypeOK
<1>4. /\ o.price > 0 /\ o.price <= record[b].money
      /\ record[s].money + o.price <= MaxMoney
      /\ CanAdvanceRevision(record[b]) /\ CanAdvanceRevision(record[s])
  BY DEF SaleGoesThrough
<1>5. record[b].money \in 0 .. MaxMoney /\ record[s].money \in 0 .. MaxMoney
  BY <1>3 DEF Holdings
<1>6. /\ paid \in Holdings /\ paid.money = record[b].money - o.price
      /\ paid.items = record[b].items /\ paid.revision = record[b].revision
      /\ got \in Holdings /\ got.money = record[s].money + o.price
      /\ got.items = record[s].items /\ got.revision = record[s].revision
  BY <1>1, <1>3, <1>4, <1>5 DEF Holdings, Debit, Credit
<1>7. /\ record'[b] = AdvanceRevision(paid)
      /\ record'[s] = AdvanceRevision(got)
      /\ \A c \in Chars \ {b, s} : record'[c] = record[c]
      /\ record' = [c \in Chars |-> record'[c]]
  BY <1>2 DEF Charge, IInv, TypeOK
<1>8. CanAdvanceRevision(paid) /\ CanAdvanceRevision(got)
  BY <1>4, <1>6 DEF CanAdvanceRevision, IsMigrated
<1>9. /\ IsMigrated(paid) <=> IsMigrated(record[b])
      /\ IsMigrated(got) <=> IsMigrated(record[s])
  BY <1>6 DEF IsMigrated
<1>10. /\ record'[b] \in Holdings /\ record'[b].money = paid.money
       /\ record'[b].items = paid.items
       /\ record'[b].revision =
            IF IsMigrated(paid) THEN paid.revision + 1 ELSE paid.revision
  <2> HIDE DEF paid
  <2>1. QED
    BY <1>6, <1>7, <1>8, AdvanceKeepsHoldings
<1>11. /\ record'[s] \in Holdings /\ record'[s].money = got.money
       /\ record'[s].items = got.items
       /\ record'[s].revision =
            IF IsMigrated(got) THEN got.revision + 1 ELSE got.revision
  <2> HIDE DEF got
  <2>1. QED
    BY <1>6, <1>7, <1>8, AdvanceKeepsHoldings
<1>12. record' \in [Chars -> Holdings]
  <2> HIDE DEF paid, got
  <2>1. QED
    BY <1>2, <1>7, <1>10, <1>11 DEF IInv, TypeOK
<1>13. \A c \in {b, s} :
         /\ record'[c] \in Holdings /\ record'[c].items = record[c].items
         /\ record'[c].revision =
              IF IsMigrated(record[c]) THEN record[c].revision + 1 ELSE record[c].revision
  BY <1>6, <1>9, <1>10, <1>11
<1>14. o.price \in 1 .. MaxMoney
  BY <1>1, <1>4, <1>5
<1>15. QED
  BY <1>2, <1>4, <1>6, <1>7, <1>10, <1>11, <1>12, <1>13, <1>14

\* A refunded sale leaves everybody's money and things; the two records count both
\* of its movements (ChatSystem::CompleteSale).
LEMMA RefundEffect ==
  ASSUME IInv, NEW o \in SaleOffers, o.seller # o.buyer, SaleGoesThrough(o),
         ChargeAndRefund(o)
  PROVE  LET b == slot[o.buyer]
             s == slot[o.seller]
         IN  /\ b \in Chars /\ s \in Chars \ {b}
             /\ Refunded(b, s)
             /\ record' \in [Chars -> Holdings]
             /\ \A c \in Chars : /\ record'[c].money = record[c].money
                                 /\ record'[c].items = record[c].items
<1> DEFINE b == slot[o.buyer]
           s == slot[o.seller]
           twice(r) == AdvanceRevision(AdvanceRevision(r))
<1>1. b \in Chars /\ s \in Chars \ {b}
  BY DEF SaleGoesThrough, HasCharacter, IInv, TypeOK, SlotsOwned, SaleOffers
<1>2. \A r \in Holdings : /\ twice(r) \in Holdings
                         /\ twice(r).money = r.money /\ twice(r).items = r.items
  BY AdvanceStays
<1>3. record' = [record EXCEPT ![b] = twice(@), ![s] = twice(@)]
  BY DEF ChargeAndRefund
<1> HIDE DEF twice
<1>4. /\ record'[b] = twice(record[b]) /\ record'[s] = twice(record[s])
      /\ \A c \in Chars \ {b, s} : record'[c] = record[c]
      /\ record' \in [Chars -> Holdings]
  BY <1>1, <1>2, <1>3 DEF IInv, TypeOK
<1>5. \A c \in Chars : record[c] \in Holdings
  BY DEF IInv, TypeOK
<1>6. \A c \in Chars : record'[c].money = record[c].money /\ record'[c].items = record[c].items
  BY <1>2, <1>4, <1>5
<1>7. Refunded(b, s)
  BY <1>4 DEF Refunded, twice
<1>8. QED
  BY <1>1, <1>4, <1>6, <1>7

\* What /sellcar does, whatever it reads: one existing car that nobody held is held
\* by a token nobody had, and one offer with that token joins the others.
LEMMA SellCarEffect ==
  ASSUME SaleTypeOK, NEW acct \in Accounts, NEW other \in Accounts, NEW price \in Prices,
         SellCar(acct, other, price)
  PROVE  \E o \in SaleOffers, v \in Cars :
           /\ o.seller # o.buyer /\ IsFresh(o.token)
           /\ Exists(v) /\ garage[v].lock = NoToken
           /\ garage' = [garage EXCEPT ![v].lock = o.token]
           /\ garage'[v] = [owner |-> garage[v].owner, lock |-> o.token]
           /\ \A w \in Cars \ {v} : garage'[w] = garage[w]
           /\ offers' \in Seq(SaleOffers)
           /\ DOMAIN offers' = 1 .. Len(offers) + 1
           /\ \A j \in 1 .. Len(offers) : offers'[j] = offers[j]
           /\ offers'[Len(offers) + 1] = o
           /\ UNCHANGED vars
<1>1. PICK t \in Tokens, v \in Cars, named \in {w \in Cars : Exists(w)} \cup {NoCar} :
        /\ IsFresh(t) /\ CanLock(v, t)
        /\ garage' = [garage EXCEPT ![v].lock = t]
        /\ offers' = Append(offers, [token |-> t, car |-> named, seller |-> acct,
                                     buyer |-> other, price |-> price])
  BY DEF SellCar
<1> DEFINE o == [token |-> t, car |-> named, seller |-> acct, buyer |-> other, price |-> price]
<1>2. o \in SaleOffers /\ o.token = t /\ o.seller = acct /\ o.buyer = other
  BY DEF SaleOffers
<1>3. offers' = Append(offers, o)
  BY <1>1
<1> HIDE DEF o
<1>4. /\ offers' \in Seq(SaleOffers) /\ DOMAIN offers' = 1 .. Len(offers) + 1
      /\ \A j \in 1 .. Len(offers) : offers'[j] = offers[j]
      /\ offers'[Len(offers) + 1] = o
  BY <1>2, <1>3, AppendProperties, LenProperties DEF SaleTypeOK
<1>5. Exists(v) /\ garage[v].lock = NoToken
  BY <1>1 DEF CanLock, IsFresh
<1>6. /\ garage'[v] = [owner |-> garage[v].owner, lock |-> t]
      /\ \A w \in Cars \ {v} : garage'[w] = garage[w]
  BY <1>1 DEF SaleTypeOK
<1>7. other # acct /\ UNCHANGED vars
  BY DEF SellCar
<1>8. QED
  BY <1>1, <1>2, <1>4, <1>5, <1>6, <1>7

\* /sellcar keeps the invariant.
LEMMA SellCarKeeps ==
  ASSUME SaleIInv, NEW acct \in Accounts, NEW other \in Accounts, NEW price \in Prices,
         SellCar(acct, other, price)
  PROVE  SaleIInv'
<1> DEFINE n == Len(offers)
<1>1. PICK o \in SaleOffers, v \in Cars :
        /\ o.seller # o.buyer /\ IsFresh(o.token)
        /\ Exists(v) /\ garage[v].lock = NoToken
        /\ garage' = [garage EXCEPT ![v].lock = o.token]
        /\ garage'[v] = [owner |-> garage[v].owner, lock |-> o.token]
        /\ \A w \in Cars \ {v} : garage'[w] = garage[w]
        /\ offers' \in Seq(SaleOffers)
        /\ DOMAIN offers' = 1 .. n + 1
        /\ \A j \in 1 .. n : offers'[j] = offers[j]
        /\ offers'[n + 1] = o
        /\ UNCHANGED vars
  BY SellCarEffect DEF SaleIInv
<1>2. /\ SaleTypeOK /\ TokensAreOwn /\ TwoToASale
      /\ n \in Nat /\ DOMAIN offers = 1 .. n /\ o.token \in Tokens
  BY LenProperties DEF SaleIInv, SaleTypeOK, SaleOffers
<1>3. IInv'
  BY <1>1 DEF SaleIInv, vars, IInv, TypeOK, SlotsOwned, OneTradeEach, SomethingLeftToAgree
<1>4. SaleTypeOK'
  <2>1. garage' \in [Cars -> [owner : Accounts \cup {Nobody}, lock : Tokens \cup {NoToken}]]
    BY <1>1, <1>2 DEF SaleTypeOK
  <2>2. QED
    BY <1>1, <1>3, <2>1 DEF SaleTypeOK, IInv
<1>5. TwoToASale'
  BY <1>1, <1>2 DEF TwoToASale
<1>6. \A i, j \in DOMAIN offers' : offers'[i].token = offers'[j].token => i = j
  <2> SUFFICES ASSUME NEW i \in DOMAIN offers', NEW j \in DOMAIN offers',
                      offers'[i].token = offers'[j].token
               PROVE  i = j
    OBVIOUS
  <2>1. \A k \in 1 .. n : offers[k].token # o.token
    BY <1>1, <1>2 DEF IsFresh
  <2>2. CASE i \in 1 .. n /\ j \in 1 .. n
    BY <1>1, <1>2, <2>2 DEF TokensAreOwn
  <2>3. CASE i = n + 1 \/ j = n + 1
    BY <1>1, <1>2, <2>1, <2>3
  <2>4. QED
    BY <1>1, <1>2, <2>2, <2>3
<1>7. ASSUME NEW w \in Cars, garage'[w].lock # NoToken
      PROVE  Exists(w)' /\ \A u \in Cars : garage'[u].lock = garage'[w].lock => u = w
  <2>1. \A u \in Cars : garage[u].lock # o.token
    BY <1>1 DEF IsFresh
  <2>2. CASE w = v
    BY <1>1, <2>1, <2>2 DEF Exists
  <2>3. CASE w # v
    BY <1>1, <1>2, <1>7, <2>1, <2>3 DEF Exists, TokensAreOwn
  <2>4. QED
    BY <2>2, <2>3
<1>8. QED
  BY <1>3, <1>4, <1>5, <1>6, <1>7 DEF SaleIInv, TokensAreOwn

\* /givecar hands out a car nobody has, which nothing can hold.
LEMMA GiveCarKeeps ==
  ASSUME SaleIInv, NEW acct \in Accounts, NEW v \in Cars, GiveCar(acct, v)
  PROVE  SaleIInv' /\ HeldByTheOffer
<1>1. /\ garage[v].owner = Nobody /\ UNCHANGED vars /\ UNCHANGED offers
      /\ garage' = [garage EXCEPT ![v] = [owner |-> acct, lock |-> NoToken]]
      /\ SaleTypeOK /\ TokensAreOwn /\ TwoToASale
  BY DEF GiveCar, SaleIInv
<1>2. /\ garage'[v] = [owner |-> acct, lock |-> NoToken]
      /\ garage[v].lock = NoToken
      /\ \A w \in Cars \ {v} : garage'[w] = garage[w]
  BY <1>1 DEF SaleTypeOK, TokensAreOwn, Exists
<1>3. SaleTypeOK'
  BY <1>1 DEF SaleTypeOK, TypeOK, vars
<1>4. IInv'
  BY <1>1 DEF SaleIInv, vars, IInv, TypeOK, SlotsOwned, OneTradeEach, SomethingLeftToAgree
<1>5. TwoToASale'
  BY <1>1 DEF TwoToASale
<1>6. TokensAreOwn'
  <2>1. \A i, j \in DOMAIN offers' : offers'[i].token = offers'[j].token => i = j
    BY <1>1 DEF TokensAreOwn
  <2>2. ASSUME NEW w \in Cars, garage'[w].lock # NoToken
        PROVE  Exists(w)' /\ \A u \in Cars : garage'[u].lock = garage'[w].lock => u = w
    <3>1. w # v /\ garage'[w] = garage[w]
      BY <1>2, <2>2
    <3>2. QED
      BY <1>1, <1>2, <2>2, <3>1 DEF TokensAreOwn, Exists
  <2>3. QED
    BY <2>1, <2>2 DEF TokensAreOwn
<1>7. HeldByTheOffer
  <2>1. \A i \in DOMAIN offers : offers[i].token # NoToken /\ offers'[i] = offers[i]
    BY <1>1, PendingOffer
  <2>2. QED
    BY <1>1, <1>2, <2>1 DEF HeldByTheOffer
<1>8. QED
  BY <1>3, <1>4, <1>5, <1>6, <1>7 DEF SaleIInv

\* Unlock touches the car it is given, if the token holds it, and nothing else.
LEMMA UnlockingEndsAlone ==
  ASSUME SaleTypeOK, NEW i \in DOMAIN offers, offers' = Without(i),
         garage' = Unlocked(offers[i].car, offers[i].token)
  PROVE  EndsAlone(i) /\ \A v \in Cars : garage'[v].owner = garage[v].owner
<1>1. PICK left \in [Cars -> Tokens \cup {NoToken}] :
        /\ garage' = [v \in Cars |-> [owner |-> garage[v].owner, lock |-> left[v]]]
        /\ \A v \in Cars : left[v] = IF v = offers[i].car /\ garage[v].lock = offers[i].token
                                     THEN NoToken ELSE garage[v].lock
  <2> DEFINE free == [v \in Cars |->
                        IF v = offers[i].car /\ garage[v].lock = offers[i].token
                          THEN NoToken ELSE garage[v].lock]
  <2>1. free \in [Cars -> Tokens \cup {NoToken}]
    BY DEF SaleTypeOK
  <2>2. garage' = [v \in Cars |-> [owner |-> garage[v].owner, lock |-> free[v]]]
    BY DEF Unlocked
  <2>3. QED
    BY <2>1, <2>2
<1>2. \A v \in Cars : garage'[v].owner = garage[v].owner /\ garage'[v].lock = left[v]
  BY <1>1
<1>3. \A v \in Cars :
        garage[v] \in [owner : Accounts \cup {Nobody}, lock : Tokens \cup {NoToken}]
  BY DEF SaleTypeOK
<1>4. garage' \in [Cars -> [owner : Accounts \cup {Nobody}, lock : Tokens \cup {NoToken}]]
  BY <1>1, <1>3
<1>5. \A v \in Cars : left[v] = garage[v].lock => garage'[v] = garage[v]
  BY <1>1, <1>3
<1>6. EndsAlone(i)
  BY <1>1, <1>2, <1>4, <1>5 DEF EndsAlone, Exists
<1>7. QED
  BY <1>2, <1>6

\* /buycar: everything is as the offer said, nobody else holds the car, and the
\* price and the car change hands; or another offer holds it and the money goes
\* back; or the sale is refused, and the car is unlocked if the offer holds it.
LEMMA BuyCarEffect ==
  ASSUME SaleIInv, NEW acct \in Accounts, BuyCar(acct)
  PROVE  \E i \in DOMAIN offers :
           /\ offers[i] \in SaleOffers /\ offers[i].buyer = acct
           /\ UNCHANGED <<people, sessions>>
           /\ EndsAlone(i)
           /\ \/ /\ SaleGoesThrough(offers[i]) /\ Charge(offers[i])
                 /\ offers[i].car \in Cars
                 /\ garage[offers[i].car].lock \in {NoToken, offers[i].token}
                 /\ garage[offers[i].car].owner = offers[i].seller
                 /\ garage'[offers[i].car].owner = offers[i].buyer
                 /\ \A v \in Cars \ {offers[i].car} : garage'[v].owner = garage[v].owner
              \/ /\ SaleGoesThrough(offers[i]) /\ ChargeAndRefund(offers[i])
                 /\ \A v \in Cars : garage'[v].owner = garage[v].owner
              \/ /\ UNCHANGED record
                 /\ \A v \in Cars : garage'[v].owner = garage[v].owner
<1>1. PICK i \in DOMAIN offers :
        offers[i].buyer = acct /\ CompleteSale(offers[i]) /\ offers' = Without(i)
  BY DEF BuyCar, FirstOffer
<1>2. SaleTypeOK /\ UNCHANGED <<people, sessions>>
  BY DEF BuyCar, SaleIInv
<1> DEFINE o == offers[i]
<1>3. o \in SaleOffers /\ o.buyer \in Accounts
  BY <1>2, PendingOffer
<1>4. CASE SaleGoesThrough(o) /\ garage[o.car].lock \in {NoToken, o.token}
  <2>1. Charge(o) /\ garage' = Transferred(o.car, o.buyer)
    BY <1>1, <1>4 DEF CompleteSale
  <2>2. o.car \in Cars /\ garage[o.car].owner = o.seller
    BY <1>4 DEF SaleGoesThrough
  <2>3. /\ garage' \in [Cars -> [owner : Accounts \cup {Nobody}, lock : Tokens \cup {NoToken}]]
        /\ garage'[o.car] = [owner |-> o.buyer, lock |-> NoToken]
        /\ \A v \in Cars \ {o.car} : garage'[v] = garage[v]
    BY <1>2, <1>3, <2>1, <2>2 DEF Transferred, SaleTypeOK
  <2>4. EndsAlone(i)
    BY <1>1, <1>3, <1>4, <2>3, SaleAssumption DEF EndsAlone, Exists
  <2>5. QED
    BY <1>1, <1>2, <1>3, <1>4, <2>1, <2>2, <2>3, <2>4
<1>5. CASE SaleGoesThrough(o) /\ garage[o.car].lock \notin {NoToken, o.token}
  <2>1. ChargeAndRefund(o) /\ garage' = garage
    BY <1>1, <1>5 DEF CompleteSale
  <2>2. EndsAlone(i)
    BY <1>1, <1>2, <1>5, <2>1 DEF EndsAlone, Exists, SaleTypeOK
  <2>3. QED
    BY <1>1, <1>2, <1>3, <1>5, <2>1, <2>2
<1>6. CASE ~SaleGoesThrough(o)
  <2>1. garage' = Unlocked(o.car, o.token) /\ UNCHANGED record
    BY <1>1, <1>6 DEF CompleteSale
  <2>2. QED
    BY <1>1, <1>2, <1>3, <2>1, UnlockingEndsAlone
<1>7. QED
  BY <1>4, <1>5, <1>6

\* /buycar keeps the invariant.
LEMMA BuyCarKeeps ==
  ASSUME SaleIInv, NEW acct \in Accounts, BuyCar(acct)
  PROVE  SaleIInv' /\ HeldByTheOffer
<1>1. PICK i \in DOMAIN offers :
        /\ offers[i] \in SaleOffers
        /\ UNCHANGED <<people, sessions>>
        /\ EndsAlone(i)
        /\ \/ SaleGoesThrough(offers[i]) /\ Charge(offers[i])
           \/ SaleGoesThrough(offers[i]) /\ ChargeAndRefund(offers[i])
           \/ UNCHANGED record
  BY BuyCarEffect
<1>2. /\ IInv /\ SaleTypeOK /\ TokensAreOwn /\ TwoToASale
      /\ offers[i].seller # offers[i].buyer
  BY DEF SaleIInv, TwoToASale
<1>3. record' \in [Chars -> Holdings]
  <2>1. CASE SaleGoesThrough(offers[i]) /\ Charge(offers[i])
    BY <1>1, <1>2, <2>1, ChargeEffect
  <2>2. CASE SaleGoesThrough(offers[i]) /\ ChargeAndRefund(offers[i])
    BY <1>1, <1>2, <2>2, RefundEffect
  <2>3. CASE UNCHANGED record
    BY <1>2, <2>3 DEF IInv, TypeOK
  <2>4. QED
    BY <1>1, <2>1, <2>2, <2>3
<1>4. IInv'
  BY <1>1, <1>2, <1>3, EndingKeepsInvariant
<1>5. TokensAreOwn' /\ TwoToASale' /\ offers' \in Seq(SaleOffers) /\ HeldByTheOffer
  BY <1>1, <1>2, EndingKeepsSales, EndingFreesItsOwn
<1>6. SaleTypeOK'
  BY <1>1, <1>4, <1>5 DEF SaleTypeOK, IInv, EndsAlone
<1>7. QED
  BY <1>4, <1>5, <1>6 DEF SaleIInv

\* /declinecar keeps the invariant.
LEMMA DeclineCarKeeps ==
  ASSUME SaleIInv, NEW acct \in Accounts, DeclineCar(acct)
  PROVE  /\ SaleIInv' /\ HeldByTheOffer
         /\ \A v \in Cars : garage'[v].owner = garage[v].owner
<1>1. PICK i \in DOMAIN offers :
        garage' = Unlocked(offers[i].car, offers[i].token) /\ offers' = Without(i)
  BY DEF DeclineCar
<1>2. SaleTypeOK /\ TokensAreOwn /\ TwoToASale /\ UNCHANGED vars
  BY DEF DeclineCar, SaleIInv
<1>3. IInv'
  BY <1>2 DEF SaleIInv, vars, IInv, TypeOK, SlotsOwned, OneTradeEach, SomethingLeftToAgree
<1>4. EndsAlone(i) /\ \A v \in Cars : garage'[v].owner = garage[v].owner
  BY <1>1, <1>2, UnlockingEndsAlone
<1>5. TokensAreOwn' /\ TwoToASale' /\ offers' \in Seq(SaleOffers) /\ HeldByTheOffer
  BY <1>2, <1>4, EndingKeepsSales, EndingFreesItsOwn
<1>6. SaleTypeOK'
  BY <1>3, <1>4, <1>5 DEF SaleTypeOK, IInv, EndsAlone
<1>7. QED
  BY <1>3, <1>4, <1>5, <1>6 DEF SaleIInv

\* A restart leaves nothing pending and nothing locked (VehicleStore::Load).
LEMMA RestartKeeps ==
  ASSUME SaleIInv, Restart
  PROVE  SaleIInv' /\ HeldByTheOffer
<1>1. /\ online' = {} /\ sessions' = {} /\ offers' = <<>>
      /\ place' = [a \in Accounts |-> Nowhere]
      /\ garage' = [v \in Cars |-> [owner |-> garage[v].owner, lock |-> NoToken]]
      /\ UNCHANGED <<slot, live, record>>
  BY DEF Restart
<1>2. IInv'
  BY <1>1 DEF SaleIInv, IInv, TypeOK, SlotsOwned, OneTradeEach, SomethingLeftToAgree
<1>3. SaleTypeOK'
  BY <1>1, <1>2, EmptySeq DEF SaleIInv, SaleTypeOK, IInv
<1>4. DOMAIN offers' = {} /\ \A v \in Cars : garage'[v].lock = NoToken
  BY <1>1
<1>5. TokensAreOwn' /\ TwoToASale' /\ HeldByTheOffer
  BY <1>4 DEF TokensAreOwn, TwoToASale, HeldByTheOffer
<1>6. QED
  BY <1>2, <1>3, <1>5 DEF SaleIInv

\* Every handler of trading and of sales keeps the invariant.
THEOREM SaleNextKeeps == SaleIInv /\ [SaleNext]_allVars => SaleIInv'
<1> SUFFICES ASSUME SaleIInv, [SaleNext]_allVars PROVE SaleIInv'
  OBVIOUS
<1>1. ASSUME [Next]_vars, UNCHANGED saleVars PROVE SaleIInv'
  <2>1. IInv'
    BY <1>1, NextKeeps DEF SaleIInv
  <2>2. QED
    BY <1>1, <2>1 DEF saleVars, SaleIInv, IInv, SaleTypeOK, TokensAreOwn, TwoToASale, Exists
<1>2. ASSUME NEW acct \in Accounts, SaleCommand(acct) PROVE SaleIInv'
  BY <1>2, GiveCarKeeps, SellCarKeeps, BuyCarKeeps, DeclineCarKeeps DEF SaleCommand
<1>3. CASE UNCHANGED allVars
  BY <1>1, <1>3 DEF allVars
<1>4. QED
  BY <1>1, <1>2, <1>3, RestartKeeps DEF SaleNext

\* With sales beside trades and restarts of the server, and whatever /sellcar reads
\* from the list that is gone, every balance stays in range, nobody is in two
\* trades, an offer is between two accounts, and its token is its own and holds
\* one existing car at most.
THEOREM SalesAreSound == SaleSpec => []SaleIInv
<1>1. SaleInit => SaleIInv
  <2> SUFFICES ASSUME SaleInit PROVE SaleIInv
    OBVIOUS
  <2>1. IInv
    BY InitEstablishes DEF SaleInit
  <2>2. garage = [v \in Cars |-> [owner |-> Nobody, lock |-> NoToken]] /\ offers = <<>>
    BY DEF SaleInit
  <2>3. SaleTypeOK
    BY <2>1, <2>2, EmptySeq DEF SaleTypeOK, IInv
  <2>4. DOMAIN offers = {}
    BY <2>2
  <2>5. TokensAreOwn /\ TwoToASale
    BY <2>2, <2>4 DEF TokensAreOwn, TwoToASale
  <2>6. QED
    BY <2>1, <2>3, <2>5 DEF SaleIInv
<1>2. QED
  BY <1>1, SaleNextKeeps, PTL DEF SaleSpec

\* A lock that an offer holds is touched by no other sale, and once the offer is
\* gone, bought, refused, declined or ended by a restart, it no longer holds the
\* car it named (VehicleStore::Unlock: "Only the holder releases it").
THEOREM LocksEndWithOffers == SaleSpec => LocksLiveWithTheirOffers
<1>1. SaleIInv /\ [SaleNext]_allVars => [HeldByTheOffer]_allVars
  <2> SUFFICES ASSUME SaleIInv, SaleNext PROVE HeldByTheOffer
    OBVIOUS
  <2>1. CASE UNCHANGED saleVars
    BY <2>1 DEF saleVars, HeldByTheOffer
  <2>2. ASSUME NEW acct \in Accounts, NEW other \in Accounts, NEW price \in Prices,
               SellCar(acct, other, price)
        PROVE  HeldByTheOffer
    <3>1. PICK v \in Cars :
            /\ garage[v].lock = NoToken
            /\ \A w \in Cars \ {v} : garage'[w] = garage[w]
            /\ DOMAIN offers' = 1 .. Len(offers) + 1
            /\ \A j \in 1 .. Len(offers) : offers'[j] = offers[j]
      BY <2>2, SellCarEffect DEF SaleIInv
    <3>2. \A i \in DOMAIN offers : offers[i].token # NoToken
      BY PendingOffer DEF SaleIInv
    <3>3. Len(offers) \in Nat /\ DOMAIN offers = 1 .. Len(offers)
      BY LenProperties DEF SaleIInv, SaleTypeOK
    <3>4. QED
      BY <3>1, <3>2, <3>3 DEF HeldByTheOffer
  <2>3. QED
    BY <2>1, <2>2, GiveCarKeeps, BuyCarKeeps, DeclineCarKeeps, RestartKeeps
       DEF SaleNext, SaleCommand
<1>2. QED
  BY <1>1, SalesAreSound, PTL DEF SaleSpec, LocksLiveWithTheirOffers

\* No car passes from one account to another without its whole price passing the
\* other way, between the two of the offer and nobody else, and nobody's money
\* changes for a car that stays (CompleteSale: "nothing is half-done").
THEOREM CarsPassAgainstTheirPrice == SaleSpec => CarsArePaidFor
<1>1. SaleIInv /\ [SaleNext]_allVars => [PassedOnlyPaidFor]_allVars
  <2> SUFFICES ASSUME SaleIInv, SaleNext PROVE PassedOnlyPaidFor
    OBVIOUS
  <2>1. /\ IInv /\ SaleTypeOK /\ TwoToASale
        /\ Len(offers) \in Nat
    BY LenProperties DEF SaleIInv, SaleTypeOK
  <2>2. CASE Next /\ UNCHANGED saleVars
    BY <2>1, <2>2 DEF saleVars, PassedOnlyPaidFor
  <2>3. ASSUME NEW acct \in Accounts, NEW v \in Cars, GiveCar(acct, v)
        PROVE  PassedOnlyPaidFor
    <3>1. garage[v].owner = Nobody /\ UNCHANGED offers
      BY <2>3 DEF GiveCar
    <3>2. \A w \in Cars \ {v} : garage'[w] = garage[w]
      BY <2>1, <2>3 DEF GiveCar, SaleTypeOK
    <3>3. QED
      BY <2>1, <3>1, <3>2 DEF PassedOnlyPaidFor, Exists
  <2>4. ASSUME NEW acct \in Accounts, NEW other \in Accounts, NEW price \in Prices,
               SellCar(acct, other, price)
        PROVE  PassedOnlyPaidFor
    <3>1. Wealth' = Wealth /\ \A w \in Cars : garage'[w].owner = garage[w].owner
      <4>1. PICK v \in Cars, t \in Tokens :
              /\ garage'[v] = [owner |-> garage[v].owner, lock |-> t]
              /\ \A w \in Cars \ {v} : garage'[w] = garage[w]
        BY <2>1, <2>4, SellCarEffect DEF SaleOffers
      <4>2. garage'[v].owner = garage[v].owner
        BY <4>1
      <4>3. QED
        BY <2>4, <4>1, <4>2 DEF SellCar, vars, Wealth
    <3>2. QED
      BY <3>1 DEF PassedOnlyPaidFor
  <2>5. ASSUME NEW acct \in Accounts, BuyCar(acct) PROVE PassedOnlyPaidFor
    <3>1. PICK i \in DOMAIN offers :
            /\ offers[i] \in SaleOffers
            /\ \/ /\ SaleGoesThrough(offers[i]) /\ Charge(offers[i])
                  /\ offers[i].car \in Cars
                  /\ garage[offers[i].car].lock \in {NoToken, offers[i].token}
                  /\ garage[offers[i].car].owner = offers[i].seller
                  /\ garage'[offers[i].car].owner = offers[i].buyer
                  /\ \A v \in Cars \ {offers[i].car} : garage'[v].owner = garage[v].owner
               \/ /\ SaleGoesThrough(offers[i]) /\ ChargeAndRefund(offers[i])
                  /\ \A v \in Cars : garage'[v].owner = garage[v].owner
               \/ /\ UNCHANGED record
                  /\ \A v \in Cars : garage'[v].owner = garage[v].owner
      BY <2>5, BuyCarEffect
    <3> DEFINE o == offers[i]
    <3>2. o.seller # o.buyer
      BY <2>1 DEF TwoToASale
    <3>3. CASE UNCHANGED record /\ \A v \in Cars : garage'[v].owner = garage[v].owner
      BY <3>3 DEF PassedOnlyPaidFor, Wealth
    <3>4. CASE /\ SaleGoesThrough(o) /\ ChargeAndRefund(o)
               /\ \A v \in Cars : garage'[v].owner = garage[v].owner
      <4>1. \A c \in Chars : /\ record'[c].money = record[c].money
                            /\ record'[c].items = record[c].items
        BY <2>1, <3>1, <3>2, <3>4, RefundEffect
      <4>2. Wealth' = Wealth
        BY <4>1 DEF Wealth
      <4>3. QED
        BY <3>4, <4>2 DEF PassedOnlyPaidFor
    <3>5. CASE /\ SaleGoesThrough(o) /\ Charge(o)
               /\ o.car \in Cars /\ garage[o.car].lock \in {NoToken, o.token}
               /\ garage[o.car].owner = o.seller /\ garage'[o.car].owner = o.buyer
               /\ \A v \in Cars \ {o.car} : garage'[v].owner = garage[v].owner
      <4>1. /\ record'[slot[o.buyer]].money = record[slot[o.buyer]].money - o.price
            /\ record'[slot[o.seller]].money = record[slot[o.seller]].money + o.price
            /\ \A c \in Chars \ {slot[o.buyer], slot[o.seller]} : record'[c] = record[c]
        BY <2>1, <3>1, <3>2, <3>5, ChargeEffect
      <4>2. PaidFor(o.car)
        BY <3>5, <4>1 DEF PaidFor
      <4>3. QED
        BY <3>2, <3>5, <4>2 DEF PassedOnlyPaidFor
    <3>6. QED
      BY <3>1, <3>3, <3>4, <3>5
  <2>6. ASSUME NEW acct \in Accounts, DeclineCar(acct) PROVE PassedOnlyPaidFor
    <3>1. UNCHANGED record /\ \A v \in Cars : garage'[v].owner = garage[v].owner
      BY <2>6, DeclineCarKeeps DEF DeclineCar, vars
    <3>2. QED
      BY <3>1 DEF PassedOnlyPaidFor, Wealth
  <2>7. CASE Restart
    BY <2>7 DEF Restart, PassedOnlyPaidFor, Wealth
  <2>8. QED
    BY <2>2, <2>3, <2>4, <2>5, <2>6, <2>7 DEF SaleNext, SaleCommand
<1>2. QED
  BY <1>1, SalesAreSound, PTL DEF SaleSpec, CarsArePaidFor

\* What a purchase does to everything but the cars: nothing, one payment by the
\* buyer, or a payment that was refunded.
LEMMA BuyCarPays ==
  ASSUME SaleIInv, NEW acct \in Accounts, BuyCar(acct)
  PROVE  /\ UNCHANGED <<people, sessions>>
         /\ \/ UNCHANGED record
            \/ /\ slot[acct] \in Chars
               /\ \E to \in Chars \ {slot[acct]} : Refunded(slot[acct], to)
               /\ \A c \in Chars : /\ record'[c].money = record[c].money
                                   /\ record'[c].items = record[c].items
            \/ \E to \in Chars \ {slot[acct]}, amount \in 1 .. MaxMoney :
                 /\ slot[acct] \in Chars /\ amount <= record[slot[acct]].money
                 /\ record'[slot[acct]].money = record[slot[acct]].money - amount
                 /\ record'[to].money = record[to].money + amount
                 /\ \A c \in {slot[acct], to} :
                      /\ record'[c].items = record[c].items
                      /\ record'[c].revision =
                           IF IsMigrated(record[c]) THEN record[c].revision + 1
                           ELSE record[c].revision
                 /\ \A c \in Chars \ {slot[acct], to} : record'[c] = record[c]
                 /\ record' \in [Chars -> Holdings]
<1>1. PICK i \in DOMAIN offers :
        /\ offers[i] \in SaleOffers /\ offers[i].buyer = acct
        /\ UNCHANGED <<people, sessions>>
        /\ \/ SaleGoesThrough(offers[i]) /\ Charge(offers[i])
           \/ SaleGoesThrough(offers[i]) /\ ChargeAndRefund(offers[i])
           \/ UNCHANGED record
  BY BuyCarEffect
<1>2. IInv /\ offers[i].seller # offers[i].buyer
  BY DEF SaleIInv, TwoToASale
<1>3. CASE SaleGoesThrough(offers[i]) /\ Charge(offers[i])
  <2> DEFINE b == slot[offers[i].buyer]
             s == slot[offers[i].seller]
             p == offers[i].price
  <2>1. /\ b \in Chars /\ s \in Chars \ {b}
        /\ p \in 1 .. MaxMoney /\ p <= record[b].money
        /\ record'[b].money = record[b].money - p
        /\ record'[s].money = record[s].money + p
        /\ \A c \in {b, s} :
             /\ record'[c].items = record[c].items
             /\ record'[c].revision =
                  IF IsMigrated(record[c]) THEN record[c].revision + 1 ELSE record[c].revision
        /\ \A c \in Chars \ {b, s} : record'[c] = record[c]
        /\ record' \in [Chars -> Holdings]
    BY <1>1, <1>2, <1>3, ChargeEffect
  <2>2. b = slot[acct]
    BY <1>1
  <2> HIDE DEF b, s, p
  <2>3. QED
    BY <1>1, <2>1, <2>2
<1>4. CASE SaleGoesThrough(offers[i]) /\ ChargeAndRefund(offers[i])
  <2> DEFINE s == slot[offers[i].seller]
  <2>1. /\ slot[acct] \in Chars /\ s \in Chars \ {slot[acct]} /\ Refunded(slot[acct], s)
        /\ \A c \in Chars : /\ record'[c].money = record[c].money
                            /\ record'[c].items = record[c].items
    BY <1>1, <1>2, <1>4, RefundEffect
  <2> HIDE DEF s
  <2>2. QED
    BY <1>1, <2>1
<1>5. QED
  BY <1>1, <1>3, <1>4

\* With sales and restarts beside it, trading is still an exchange of agreed
\* deals: a sale is a payment, and a restart only releases people.
THEOREM SalesImplementExchange == SaleSpec => ImplementsExchange
<1>1. SaleInit => Promise!Init
  BY InitExchanges DEF SaleInit
<1>2. SaleIInv /\ [SaleNext]_allVars => [Promise!Next]_<<Wealth, Agreed>>
  <2> SUFFICES ASSUME SaleIInv, [SaleNext]_allVars
               PROVE  Promise!Next \/ UNCHANGED <<Wealth, Agreed>>
    OBVIOUS
  <2>1. IInv
    BY DEF SaleIInv
  <2>2. CASE [Next]_vars
    BY <2>1, <2>2, NextExchanges
  <2>3. ASSUME NEW acct \in Accounts, BuyCar(acct)
        PROVE  Promise!Next \/ UNCHANGED <<Wealth, Agreed>>
    <3>1. CASE \A c \in Chars : /\ record'[c].money = record[c].money
                                /\ record'[c].items = record[c].items
      <4>1. Wealth' = Wealth
        BY <3>1 DEF Wealth
      <4>2. QED
        BY <2>3, <4>1, BuyCarPays DEF Agreed, AgreedIn
    <3>2. CASE ~\A c \in Chars : /\ record'[c].money = record[c].money
                                 /\ record'[c].items = record[c].items
      <4>1. PICK to \in Chars \ {slot[acct]}, amount \in 1 .. MaxMoney :
              /\ slot[acct] \in Chars /\ amount <= record[slot[acct]].money
              /\ record'[slot[acct]].money = record[slot[acct]].money - amount
              /\ record'[to].money = record[to].money + amount
              /\ \A c \in {slot[acct], to} : record'[c].items = record[c].items
              /\ \A c \in Chars \ {slot[acct], to} : record'[c] = record[c]
              /\ record' \in [Chars -> Holdings] /\ UNCHANGED sessions
        BY <2>3, <3>2, BuyCarPays
      <4>2. Promise!Send(slot[acct], to, amount)
        BY <4>1, PaymentSends
      <4>3. QED
        BY <4>1, <4>2 DEF Promise!Next
    <3>3. QED
      BY <3>1, <3>2
  <2>4. CASE Restart
    BY <2>4, ReleasingWithdraws DEF Restart, Promise!Next
  <2>5. ASSUME NEW acct \in Accounts, SaleCommand(acct) PROVE BuyCar(acct) \/ UNCHANGED vars
    BY <2>5 DEF SaleCommand, GiveCar, SellCar, DeclineCar
  <2>6. QED
    BY <2>2, <2>3, <2>4, <2>5 DEF SaleNext, allVars
<1>3. QED
  BY <1>1, <1>2, SalesAreSound, PTL DEF SaleSpec, ImplementsExchange, Promise!Spec

\* The money gate holds of sales too: both sides of a sale take one revision, and
\* both sides of a refunded one two; nothing else moves a revision.
THEOREM SalesCountMovements == SaleSpec => RevisionPerMovementBesideSales
<1>1. SaleIInv /\ [SaleNext]_allVars => [MovementsCountedBesideSales]_allVars
  <2> SUFFICES ASSUME SaleIInv, [SaleNext]_allVars PROVE MovementsCountedBesideSales
    OBVIOUS
  <2>1. CASE [Next]_vars
    BY <2>1, NextCounts, StillIsCounted DEF SaleIInv, MovementsCountedBesideSales, vars
  <2>2. ASSUME NEW acct \in Accounts, BuyCar(acct) PROVE MovementsCountedBesideSales
    <3>1. CASE \/ UNCHANGED record
               \/ /\ slot[acct] \in Chars
                  /\ \E to \in Chars \ {slot[acct]} : Refunded(slot[acct], to)
      BY <3>1, StillIsCounted DEF MovementsCountedBesideSales
    <3>2. CASE ~ \/ UNCHANGED record
                 \/ /\ slot[acct] \in Chars
                    /\ \E to \in Chars \ {slot[acct]} : Refunded(slot[acct], to)
      <4>1. PICK to \in Chars \ {slot[acct]} :
              /\ slot[acct] \in Chars
              /\ \A c \in {slot[acct], to} : record'[c].revision =
                   IF IsMigrated(record[c]) THEN record[c].revision + 1 ELSE record[c].revision
              /\ \A c \in Chars \ {slot[acct], to} : record'[c] = record[c]
        BY <2>2, <3>2, BuyCarPays
      <4>2. QED
        BY <4>1, PairIsCounted DEF MovementsCountedBesideSales
    <3>3. QED
      BY <3>1, <3>2
  <2>3. CASE Restart
    BY <2>3, StillIsCounted DEF Restart, MovementsCountedBesideSales
  <2>4. ASSUME NEW acct \in Accounts, SaleCommand(acct) PROVE BuyCar(acct) \/ UNCHANGED vars
    BY <2>4 DEF SaleCommand, GiveCar, SellCar, DeclineCar
  <2>5. QED
    BY <2>1, <2>2, <2>3, <2>4 DEF SaleNext, allVars
<1>2. QED
  BY <1>1, SalesAreSound, PTL DEF SaleSpec, RevisionPerMovementBesideSales

\* What is promised in a trade is left uncovered by its owner alone, with sales
\* beside trades too: by the owner's save or by the owner's own purchase.
THEOREM OnlyTheOwnerOvercommits == SaleSpec => PromisesKeptBesideSales
<1>1. SaleIInv /\ [SaleNext]_allVars => [KeptButForOwnDeals]_allVars
  <2> SUFFICES ASSUME SaleIInv, SaleNext, \A u \in sessions : Covered(u),
                      NEW s \in sessions', NEW x \in Sides
               PROVE  \/ Covers(record'[s.party[x]], s.offer[x])
                      \/ BuyCar(Owner[s.party[x]])
                      \/ \E claim \in SaveClaims : SaveCharacter(Owner[s.party[x]], claim)
    BY DEF KeptButForOwnDeals
  <2>1. IInv /\ IInv'
    BY SaleNextKeeps DEF SaleIInv
  <2>2. CASE Next
    BY <2>1, <2>2, NextKeepsOthersPromises DEF KeptButForOwnSaves, vars, Covered
  <2> DEFINE Still == \A c \in Chars : /\ record'[c].money = record[c].money
                                      /\ record'[c].items = record[c].items
  <2>3. CASE Still /\ UNCHANGED sessions
    <3>1. s.party[x] \in Chars /\ Covers(record[s.party[x]], s.offer[x])
      BY <2>1, <2>3 DEF Covered, IInv, TypeOK, Sessions
    <3>2. QED
      BY <2>3, <3>1 DEF Covers
  <2>4. ASSUME NEW acct \in Accounts, BuyCar(acct), ~Still
        PROVE  Covers(record'[s.party[x]], s.offer[x]) \/ Owner[s.party[x]] = acct
    <3>1. PICK to \in Chars \ {slot[acct]}, amount \in 1 .. MaxMoney :
            /\ slot[acct] \in Chars
            /\ record'[to].money = record[to].money + amount
            /\ record'[to].items = record[to].items
            /\ \A d \in Chars \ {slot[acct], to} : record'[d] = record[d]
            /\ UNCHANGED <<slot, sessions>>
      BY <2>4, BuyCarPays DEF people
    <3>2. /\ amount \in Nat
          /\ \A d \in Chars : record[d].money \in Nat
      BY <2>1, ConstantsAssumption DEF IInv, TypeOK, Holdings
    <3>3. \A d \in Chars \ {slot[acct]} :
            record'[d].money >= record[d].money /\ record'[d].items = record[d].items
      BY <3>1, <3>2
    <3>4. QED
      BY <2>1, <3>1, <3>3, OthersStayCovered
  <2>5. ASSUME NEW acct \in Accounts, BuyCar(acct) PROVE UNCHANGED sessions
    BY <2>5, BuyCarPays
  <2>6. CASE Restart
    BY <2>6 DEF Restart
  <2>7. ASSUME NEW acct \in Accounts, SaleCommand(acct)
        PROVE  BuyCar(acct) \/ (Still /\ UNCHANGED sessions)
    BY <2>7 DEF SaleCommand, GiveCar, SellCar, DeclineCar, vars
  <2>8. QED
    BY <2>2, <2>3, <2>4, <2>5, <2>6, <2>7 DEF SaleNext
<1>2. QED
  BY <1>1, SalesAreSound, PTL DEF SaleSpec, PromisesKeptBesideSales

=============================================================================
