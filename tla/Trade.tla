------------------------------- MODULE Trade -------------------------------
(***************************************************************************)
(* Trading between two characters, as the server's game thread runs it:    *)
(* the sessions of TradeStore.h, the /trade command of ChatSystem.cpp, the *)
(* commit PlayerStore::ApplyTrade, and every other handler that writes     *)
(* what a trade reads: /pay, the client's own character save, slot         *)
(* selection, deletion, leaving the world, disconnection, death and the    *)
(* one second timer.                                                       *)
(*                                                                         *)
(* Every handler runs to completion on one thread, so a handler is one     *)
(* action.  A session that is over is swept by the handler that ended it,  *)
(* and Committing begins and ends inside one handler; the states a session *)
(* can be found in between handlers are therefore Requested and Open.      *)
(***************************************************************************)
EXTENDS Naturals, FiniteSets

CONSTANTS
  Accounts,        \* Discord accounts, at most one connection each
  Chars,           \* character ids
  NoChar,          \* an empty slot
  Owner,           \* the account of each character
  SlotCount,       \* how many slots each account is entitled to
  Items,           \* item ids
  ItemLimit,       \* kTradeItemLimit
  MaxMoney,        \* kMaxPlausibleMoney
  MaxQuantity,     \* UINT32_MAX
  MaxRevision,     \* UINT64_MAX
  Start,           \* each character's record at server start
  SaveClaims,      \* the possessions a client's save may declare
  Places,          \* positions along a street
  Nowhere,         \* no puppet in the world
  TradeReach,      \* kTradeDistance
  RequestLimit,    \* kTradeRequestSeconds, in ticks
  OpenLimit        \* kTradeOpenSeconds, in ticks

Sides == {"A", "B"}
OtherSide(x) == IF x = "A" THEN "B" ELSE "A"

Offers == [money : 0 .. MaxMoney, items : [Items -> 0 .. MaxQuantity]]
NoOffer == [money |-> 0, items |-> [i \in Items |-> 0]]

Holdings == [money : 0 .. MaxMoney, items : [Items -> 0 .. MaxQuantity],
             revision : 0 .. MaxRevision]

ASSUME ConstantsAssumption ==
  /\ NoChar \notin Chars
  /\ Nowhere \notin Places
  /\ Places \subseteq Nat
  /\ Owner \in [Chars -> Accounts]
  /\ SlotCount \in [Accounts -> Nat]
  /\ {MaxMoney, MaxQuantity, MaxRevision, ItemLimit, TradeReach} \subseteq Nat
  /\ RequestLimit \in Nat \ {0} /\ OpenLimit \in Nat \ {0}
  /\ Start \in [Chars -> Holdings]
  /\ SaveClaims \subseteq [money : Nat, items : [Items -> 0 .. MaxQuantity]]

VARIABLES
  online,     \* the accounts with a connection
  slot,       \* per account, the character in its ActiveSlot
  live,       \* the characters that have not been retired
  place,      \* per account, where its puppet stands
  record,     \* per character, money, items and money revision
  sessions    \* TradeStore::m_sessions

vars == <<online, slot, live, place, record, sessions>>
people == <<online, slot, live, place>>

-----------------------------------------------------------------------------
(* Reading the stores. *)

\* PlayerStore::FindCharacter: the live character in the account's slot.
HasCharacter(acct) == slot[acct] \in live

\* ChatSystem::FindByActiveCharacter: somebody connected is playing c.
Playing(c) == c \in live /\ Owner[c] \in online /\ slot[Owner[c]] = c

Sender(acct) == acct \in online /\ HasCharacter(acct)

HasPuppet(acct) == place[acct] # Nowhere

Distance(p, q) == IF p >= q THEN p - q ELSE q - p

Near(acct, other, reach) == Distance(place[acct], place[other]) <= reach

\* TradeSession::Involves and TradeStore::Active.
Parties(s) == {s.party["A"], s.party["B"]}
Active(c) == {s \in sessions : c \in Parties(s)}

\* TradeSession::OfferFor
SideOf(s, c) == IF s.party["A"] = c THEN "A" ELSE "B"
OfferFor(s, c) == s.offer[SideOf(s, c)]

\* What TradeStore::ReservedMoney and ReservedItems sum: the one live offer.
Promised(c) == IF Active(c) = {} THEN NoOffer
               ELSE OfferFor(CHOOSE s \in Active(c) : TRUE, c)

\* Wrong on purpose: a spender that forgets what its trade already promised.
SpendsThePromised(c, reserved) == record[c].money

AvailableMoney(c, reserved) ==
  IF record[c].money > reserved THEN record[c].money - reserved ELSE 0

-----------------------------------------------------------------------------
(* Moving possessions: EconomyMutator.h and PlayerStore::MoveAssets. *)

IsMigrated(r) == r.revision >= 1
\* Wrong on purpose: one revision too many.
AdvancesPastTheLast(r) == IsMigrated(r) => r.revision <= MaxRevision
CanAdvanceRevision(r) == IsMigrated(r) => r.revision < MaxRevision
AdvanceRevision(r) ==
  IF IsMigrated(r) /\ CanAdvanceRevision(r) THEN [r EXCEPT !.revision = @ + 1] ELSE r

Debit(r, amount) == [r EXCEPT !.money = @ - amount]
Credit(r, amount) == [r EXCEPT !.money = @ + amount]

Less(r, o) == [money |-> r.money - o.money,
               items |-> [i \in Items |-> r.items[i] - o.items[i]],
               revision |-> r.revision]
Plus(r, o) == [money |-> r.money + o.money,
               items |-> [i \in Items |-> r.items[i] + o.items[i]],
               revision |-> r.revision]

Covers(r, o) == /\ o.money <= r.money
                /\ \A i \in Items : o.items[i] <= r.items[i]

Fits(r, o) == /\ o.money > 0 => r.money + o.money <= MaxMoney
              /\ \A i \in Items : o.items[i] > 0
                                    => r.items[i] + o.items[i] <= MaxQuantity

\* Wrong on purpose: only room is looked at again, not what is still held.
TrustsTheOffers(left, right, gives, returns) ==
  Fits(right, gives) /\ Fits(Less(left, gives), returns)

\* The second direction is validated against the copies the first one made.
TradeApplies(left, right, gives, returns) ==
  /\ Covers(left, gives) /\ Fits(right, gives)
  /\ Covers(Plus(right, gives), returns) /\ Fits(Less(left, gives), returns)

\* Wrong on purpose: only one direction counts as money moving.
OnlyGivesMove(gives, returns) == gives.money > 0
MoneyMoves(gives, returns) == gives.money > 0 \/ returns.money > 0

Settled(r, gives, gets, advance) ==
  LET moved == Plus(Less(r, gives), gets)
  IN  IF advance THEN AdvanceRevision(moved) ELSE moved

-----------------------------------------------------------------------------
\* An account's slot holds its own characters only.
SlotsOwned == \A acct \in Accounts : slot[acct] \in Chars => Owner[slot[acct]] = acct

Init ==
  /\ online = {}
  /\ slot \in [Accounts -> Chars \cup {NoChar}]
  /\ SlotsOwned
  /\ live = Chars
  /\ place = [acct \in Accounts |-> Nowhere]
  /\ record = Start
  /\ sessions = {}

-----------------------------------------------------------------------------
(* The /trade command.  The acting character is always the sender's. *)

\* Wrong on purpose: whether the other one already trades is not asked.
InvitesAnybody(acct, other) ==
  /\ Sender(acct) /\ Sender(other)
  /\ slot[other] # slot[acct]
  /\ Active(slot[acct]) = {}
  /\ HasPuppet(acct) /\ HasPuppet(other)
  /\ Near(acct, other, TradeReach)
  /\ sessions' = sessions \cup
       {[party |-> [x \in Sides |-> IF x = "A" THEN slot[acct] ELSE slot[other]],
         state |-> "requested", offer |-> [x \in Sides |-> NoOffer],
         confirmed |-> {}, age |-> 0]}
  /\ UNCHANGED <<people, record>>

\* /trade <player>
Invite(acct, other) ==
  /\ Sender(acct) /\ Sender(other)
  /\ slot[other] # slot[acct]
  /\ Active(slot[acct]) = {} /\ Active(slot[other]) = {}
  /\ HasPuppet(acct) /\ HasPuppet(other)
  /\ Near(acct, other, TradeReach)
  /\ sessions' = sessions \cup
       {[party |-> [x \in Sides |-> IF x = "A" THEN slot[acct] ELSE slot[other]],
         state |-> "requested", offer |-> [x \in Sides |-> NoOffer],
         confirmed |-> {}, age |-> 0]}
  /\ UNCHANGED <<people, record>>

\* /trade accept: only the invited side opens the trade.
Accept(acct) ==
  /\ Sender(acct)
  /\ \E s \in Active(slot[acct]) :
       /\ s.state = "requested"
       /\ s.party["B"] = slot[acct]
       /\ sessions' = (sessions \ {s}) \cup {[s EXCEPT !.state = "open", !.age = 0]}
  /\ UNCHANGED <<people, record>>

\* Wrong on purpose: an edit that leaves the other side's confirmation standing.
TouchedOnOneSide(s, x, o) ==
  [s EXCEPT !.offer[x] = o, !.confirmed = @ \ {x}, !.age = 0]

\* An edited offer: TradeOffer::Touch on both sides and a fresh TouchedAt.
Touched(s, x, o) == [s EXCEPT !.offer[x] = o, !.confirmed = {}, !.age = 0]

\* Wrong on purpose: money can be laid down before the trade was accepted.
OffersBeforeAccepted(acct, amount) ==
  /\ Sender(acct)
  /\ \E s \in Active(slot[acct]) :
       LET me == slot[acct]
           mine == OfferFor(s, me)
       IN  /\ amount <= AvailableMoney(me, Promised(me).money - mine.money)
           /\ sessions' = (sessions \ {s}) \cup
                {Touched(s, SideOf(s, me), [mine EXCEPT !.money = amount])}
  /\ UNCHANGED <<people, record>>

\* /trade money <n>
OfferMoney(acct, amount) ==
  /\ Sender(acct)
  /\ \E s \in Active(slot[acct]) :
       LET me == slot[acct]
           mine == OfferFor(s, me)
       IN  /\ s.state = "open"
           /\ amount <= AvailableMoney(me, Promised(me).money - mine.money)
           /\ sessions' = (sessions \ {s}) \cup
                {Touched(s, SideOf(s, me), [mine EXCEPT !.money = amount])}
  /\ UNCHANGED <<people, record>>

\* Wrong on purpose: the stack is offered without looking in the bag.
OffersUnseen(acct, item, quantity) ==
  /\ Sender(acct)
  /\ \E s \in Active(slot[acct]) :
       LET me == slot[acct]
           mine == OfferFor(s, me)
       IN  /\ s.state = "open"
           /\ quantity > 0
           /\ Cardinality({i \in Items : mine.items[i] > 0}) < ItemLimit
           /\ sessions' = (sessions \ {s}) \cup
                {Touched(s, SideOf(s, me), [mine EXCEPT !.items[item] = quantity])}
  /\ UNCHANGED <<people, record>>

\* /trade item <id> <n>: replaces the stack; there is no verb to withdraw one.
OfferItem(acct, item, quantity) ==
  /\ Sender(acct)
  /\ \E s \in Active(slot[acct]) :
       LET me == slot[acct]
           mine == OfferFor(s, me)
           held == record[me].items[item]
           elsewhere == Promised(me).items[item] - mine.items[item]
       IN  /\ s.state = "open"
           /\ quantity > 0
           /\ Cardinality({i \in Items : mine.items[i] > 0}) < ItemLimit
           /\ quantity <= held /\ quantity <= held - elsewhere
           /\ sessions' = (sessions \ {s}) \cup
                {Touched(s, SideOf(s, me), [mine EXCEPT !.items[item] = quantity])}
  /\ UNCHANGED <<people, record>>

BothHere(s) == Playing(s.party["A"]) /\ Playing(s.party["B"])

\* Whether PlayerStore::ApplyTrade accepts the exchange.
TradeGoesThrough(s) ==
  LET a == s.party["A"]
      b == s.party["B"]
  IN  /\ a # b /\ a \in live /\ b \in live
      /\ MoneyMoves(s.offer["A"], s.offer["B"])
           => CanAdvanceRevision(record[a]) /\ CanAdvanceRevision(record[b])
      /\ TradeApplies(record[a], record[b], s.offer["A"], s.offer["B"])

\* Both records are written back together, one revision each if money moved.
ApplyTrade(s) ==
  LET advance == MoneyMoves(s.offer["A"], s.offer["B"])
  IN  record' = [record EXCEPT
        ![s.party["A"]] = Settled(@, s.offer["A"], s.offer["B"], advance),
        ![s.party["B"]] = Settled(@, s.offer["B"], s.offer["A"], advance)]

\* /trade confirm by the first of the two.
ConfirmFirst(acct) ==
  /\ Sender(acct)
  /\ \E s \in Active(slot[acct]) :
       LET x == SideOf(s, slot[acct])
       IN  /\ s.state = "open"
           /\ OtherSide(x) \notin s.confirmed
           /\ sessions' = (sessions \ {s}) \cup
                {[s EXCEPT !.confirmed = @ \cup {x}, !.age = 0]}
  /\ UNCHANGED <<people, record>>

\* /trade confirm by the second: final validation, then everything or nothing.
ConfirmSecond(acct) ==
  /\ Sender(acct)
  /\ \E s \in Active(slot[acct]) :
       /\ s.state = "open"
       /\ OtherSide(SideOf(s, slot[acct])) \in s.confirmed
       /\ sessions' = sessions \ {s}
       /\ \/ /\ BothHere(s) /\ TradeGoesThrough(s)
             /\ ApplyTrade(s)
          \/ /\ ~(BothHere(s) /\ TradeGoesThrough(s))
             /\ UNCHANGED record
  /\ UNCHANGED people

\* ChatSystem::EndTradeFor
EndTradeFor(c) == sessions' = sessions \ Active(c)

\* /trade cancel
Cancel(acct) ==
  /\ Sender(acct)
  /\ Active(slot[acct]) # {}
  /\ EndTradeFor(slot[acct])
  /\ UNCHANGED <<people, record>>

-----------------------------------------------------------------------------
(* The timer: GameServer::ExpireCalls runs ChatSystem::TickTrades once a    *)
(* second.  A tick ages every session by one second.                        *)

Limit(s) == IF s.state = "requested" THEN RequestLimit ELSE OpenLimit
Expired(s) == s.age + 1 >= Limit(s)

TooFar(s) ==
  /\ s.state = "open"
  /\ BothHere(s)
  /\ \A c \in Parties(s) : HasPuppet(Owner[c])
  /\ ~Near(Owner[s.party["A"]], Owner[s.party["B"]], 3 * TradeReach)

\* Wrong on purpose: a tick that counts as activity.
TickRefreshes ==
  /\ sessions' = {[s EXCEPT !.age = 0] :
                    s \in {t \in sessions : ~Expired(t) /\ ~TooFar(t)}}
  /\ UNCHANGED <<people, record>>

TickTrades ==
  /\ sessions' = {[s EXCEPT !.age = @ + 1] :
                    s \in {t \in sessions : ~Expired(t) /\ ~TooFar(t)}}
  /\ UNCHANGED <<people, record>>

-----------------------------------------------------------------------------
(* The other writers of what a trade reads. *)

\* /pay: money to any live character of another account, by phone number.
Pay(acct, to, amount) ==
  LET me == slot[acct]
  IN  /\ Sender(acct)
      /\ to \in live /\ Owner[to] # acct
      /\ amount > 0
      /\ amount <= AvailableMoney(me, Promised(me).money)
      /\ CanAdvanceRevision(record[me]) /\ CanAdvanceRevision(record[to])
      /\ record[to].money + amount <= MaxMoney
      /\ record' = [record EXCEPT
           ![me] = AdvanceRevision(Debit(@, amount)),
           ![to] = AdvanceRevision(Credit(@, amount))]
      /\ UNCHANGED <<people, sessions>>

\* SaveCharacterRequest: the client's own count of its possessions is taken; a
\* balance that cannot be is refused and the stored one kept.  The starter kit,
\* granted once at a character's creation, is in Possessions only.
Declared(r, claim) ==
  [money |-> IF claim.money <= MaxMoney THEN claim.money ELSE r.money,
   items |-> claim.items,
   revision |-> r.revision]

SaveCharacter(acct, claim) ==
  /\ Sender(acct)
  /\ claim # NoOffer
  /\ record' = [record EXCEPT ![slot[acct]] = Declared(@, claim)]
  /\ UNCHANGED <<people, sessions>>

\* A bleed-out death ends the character's trade; the body stays.
BleedOut(acct) ==
  /\ Sender(acct) /\ HasPuppet(acct)
  /\ EndTradeFor(slot[acct])
  /\ UNCHANGED <<people, record>>

Connect(acct) ==
  /\ acct \notin online
  /\ online' = online \cup {acct}
  /\ UNCHANGED <<slot, live, place, record, sessions>>

\* OnDisconnection ends the trade of the character in the active slot.
Disconnect(acct) ==
  /\ acct \in online
  /\ online' = online \ {acct}
  /\ place' = [place EXCEPT ![acct] = Nowhere]
  /\ IF HasCharacter(acct) THEN EndTradeFor(slot[acct]) ELSE UNCHANGED sessions
  /\ UNCHANGED <<slot, live, record>>

Spawn(acct, p) ==
  /\ acct \in online /\ ~HasPuppet(acct)
  /\ place' = [place EXCEPT ![acct] = p]
  /\ UNCHANGED <<online, slot, live, record, sessions>>

Move(acct, p) ==
  /\ HasPuppet(acct)
  /\ place' = [place EXCEPT ![acct] = p]
  /\ UNCHANGED <<online, slot, live, record, sessions>>

\* HandleLeaveWorldRequest: the body goes, the connection and the trade stay.
LeaveWorld(acct) ==
  /\ HasPuppet(acct)
  /\ place' = [place EXCEPT ![acct] = Nowhere]
  /\ UNCHANGED <<online, slot, live, record, sessions>>

\* PlayerStore::FirstFreeSlot
HasFreeSlot(acct) ==
  Cardinality({c \in live : Owner[c] = acct}) < SlotCount[acct]

\* HandleSelectCharacterRequest: any of the account's slots, empty ones too.
SelectCharacter(acct, c) ==
  /\ acct \in online /\ ~HasPuppet(acct)
  /\ \/ c \in live /\ Owner[c] = acct
     \/ c = NoChar /\ HasFreeSlot(acct)
  /\ slot' = [slot EXCEPT ![acct] = c]
  /\ UNCHANGED <<online, live, place, record, sessions>>

\* HandleDeleteCharacterRequest retires a character of the account.
DeleteCharacter(acct, c) ==
  /\ acct \in online /\ ~HasPuppet(acct)
  /\ c \in live /\ Owner[c] = acct
  /\ live' = live \ {c}
  /\ UNCHANGED <<online, slot, place, record, sessions>>

\* /character new: arms a free slot, or retires the active character when full.
NewCharacter(acct) ==
  /\ acct \in online
  /\ \/ /\ HasFreeSlot(acct)
        /\ slot' = [slot EXCEPT ![acct] = NoChar]
        /\ UNCHANGED live
     \/ /\ ~HasFreeSlot(acct) /\ HasCharacter(acct)
        /\ live' = live \ {slot[acct]}
        /\ UNCHANGED slot
  /\ UNCHANGED <<online, place, record, sessions>>

-----------------------------------------------------------------------------
TradeCommand(acct) ==
  \/ \E other \in Accounts : Invite(acct, other)
  \/ Accept(acct)
  \/ \E amount \in 0 .. MaxMoney : OfferMoney(acct, amount)
  \/ \E item \in Items, quantity \in 0 .. MaxQuantity : OfferItem(acct, item, quantity)
  \/ ConfirmFirst(acct)
  \/ ConfirmSecond(acct)
  \/ Cancel(acct)

Lifecycle(acct) ==
  \/ Connect(acct)
  \/ Disconnect(acct)
  \/ LeaveWorld(acct)
  \/ BleedOut(acct)
  \/ NewCharacter(acct)
  \/ \E p \in Places : Spawn(acct, p) \/ Move(acct, p)
  \/ \E c \in Chars \cup {NoChar} : SelectCharacter(acct, c)
  \/ \E c \in Chars : DeleteCharacter(acct, c)

Bookkeeping(acct) ==
  \/ \E to \in Chars, amount \in 1 .. MaxMoney : Pay(acct, to, amount)
  \/ \E claim \in SaveClaims : SaveCharacter(acct, claim)

Next ==
  \/ \E acct \in Accounts : TradeCommand(acct) \/ Lifecycle(acct) \/ Bookkeeping(acct)
  \/ TickTrades

\* Players owe the server nothing; only its own timer is bound to run.
Spec == Init /\ [][Next]_vars /\ WF_vars(TickTrades)

-----------------------------------------------------------------------------
Sessions == [party : [Sides -> Chars], state : {"requested", "open"},
             offer : [Sides -> Offers], confirmed : SUBSET Sides, age : Nat]

TypeOK ==
  /\ online \subseteq Accounts
  /\ slot \in [Accounts -> Chars \cup {NoChar}]
  /\ live \subseteq Chars
  /\ place \in [Accounts -> Places \cup {Nowhere}]
  /\ record \in [Chars -> Holdings]
  /\ sessions \subseteq Sessions

\* A character is in at most one live trade, so what it promised in one cannot
\* be promised again in another (TradeStore::Active: "One at a time").
OneTradeEach ==
  /\ \A s, t \in sessions : Parties(s) \cap Parties(t) # {} => s = t
  /\ \A s \in sessions : s.party["A"] # s.party["B"]

\* A trade found between two handlers still needs somebody: an invitation has
\* nothing in it, and a trade both sides confirmed has already been settled by
\* the handler of the second confirmation (Committing is never left standing).
SomethingLeftToAgree ==
  \A s \in sessions :
    /\ s.confirmed # Sides
    /\ s.state = "requested" =>
         s.confirmed = {} /\ s.offer["A"] = NoOffer /\ s.offer["B"] = NoOffer

IInv == TypeOK /\ SlotsOwned /\ OneTradeEach /\ SomethingLeftToAgree

Covered(s) == \A x \in Sides : Covers(record[s.party[x]], s.offer[x])

\* Every promise stays covered by what its owner holds, through /pay, other
\* trades and commits; only the owner's own save can break it (ReservedMoney).
KeptButForOwnSaves ==
  (\A s \in sessions : Covered(s)) =>
    \A s \in sessions', x \in Sides :
      \/ Covers(record'[s.party[x]], s.offer[x])
      \/ \E claim \in SaveClaims : SaveCharacter(Owner[s.party[x]], claim)

PromisesKept == [][KeptButForOwnSaves]_vars

\* When two balances move together, each migrated character's money revision
\* advances by exactly one, and otherwise no revision moves (ApplyTrade, /pay).
MovementsCounted ==
  \A c \in Chars :
    LET moved(d) == record'[d].money # record[d].money
        stepped(d) == record'[d].revision = record[d].revision + 1
    IN  /\ moved(c) /\ (\E d \in Chars \ {c} : moved(d)) /\ IsMigrated(record[c])
             => stepped(c)
        /\ record'[c].revision # record[c].revision =>
             /\ IsMigrated(record[c]) /\ stepped(c)
             /\ \E d \in Chars \ {c} :
                  /\ IsMigrated(record[d]) => stepped(d)
                  /\ \A e \in Chars \ {c, d} : record'[e] = record[e]

RevisionPerMovement == [][MovementsCounted]_vars

Wealth == [c \in Chars |-> [money |-> record[c].money, items |-> record[c].items]]

\* The agreements a session's confirmations stand for.
AgreedIn(s) == {[who |-> s.party[x], deal |-> [party |-> s.party, offer |-> s.offer]] :
                  x \in s.confirmed}
Agreed == UNION {AgreedIn(s) : s \in sessions}

\* Trading as the server does it is an exchange of agreed deals: a changed
\* offer is never still agreed to, and possessions move whole or not at all.
Promise == INSTANCE Exchange WITH
  wealth <- Wealth, agreed <- Agreed, Claims <- SaveClaims
ImplementsExchange == Promise!Spec

\* An invitation does not hang over two people for ever (kTradeRequestSeconds).
InvitationsEnd ==
  \A c \in Chars :
    (\E s \in Active(c) : s.state = "requested")
      ~> ~(\E s \in Active(c) : s.state = "requested")
=============================================================================
