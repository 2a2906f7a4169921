------------------------------ MODULE Exchange ------------------------------
(***************************************************************************)
(* What a trade promises the two people in it, without sessions, timers,   *)
(* slots or connections.  A character agrees to a deal as it stands, can   *)
(* only be released from it, and possessions change hands only when both   *)
(* people have agreed to the very same deal, all of it at once.            *)
(***************************************************************************)
EXTENDS Naturals

CONSTANTS
  Chars, Items, MaxMoney, MaxQuantity,
  Claims          \* what an owner's game may report

Sides == {"A", "B"}
Bundles == [money : 0 .. MaxMoney, items : [Items -> 0 .. MaxQuantity]]
Deals == [party : [Sides -> Chars], offer : [Sides -> Bundles]]
Agreements == [who : Chars, deal : Deals]

VARIABLES
  wealth,     \* what each character owns
  agreed      \* who has agreed to which deal

TypeOK ==
  /\ wealth \in [Chars -> Bundles]
  /\ agreed \subseteq Agreements

Init ==
  /\ wealth \in [Chars -> Bundles]
  /\ agreed = {}

\* What c owns after giving one bundle and getting another.
After(c, gives, gets) ==
  [money |-> (wealth[c].money + gets.money) - gives.money,
   items |-> [i \in Items |-> (wealth[c].items[i] + gets.items[i]) - gives.items[i]]]

\* Nobody agrees to a second deal without first leaving the one agreed to.
Agree ==
  /\ UNCHANGED wealth
  /\ \E x \in agreed' \ agreed :
       /\ x \in Agreements
       /\ x.who \in {x.deal.party["A"], x.deal.party["B"]}
       /\ \A y \in agreed : y.who # x.who
       /\ agreed' = agreed \cup {x}

Withdraw ==
  /\ UNCHANGED wealth
  /\ agreed' \subseteq agreed

\* The second of two people agrees to what the first one agreed to.
Settle(x, c) ==
  LET d == x.deal
      a == d.party["A"]
      b == d.party["B"]
  IN  /\ a # b /\ {x.who, c} = {a, b}
      /\ wealth' = [wealth EXCEPT ![a] = After(a, d.offer["A"], d.offer["B"]),
                                  ![b] = After(b, d.offer["B"], d.offer["A"])]
      /\ wealth' \in [Chars -> Bundles]
      /\ agreed' = {y \in agreed : y.who \notin {a, b}}

Send(from, to, amount) ==
  /\ UNCHANGED agreed
  /\ from # to
  /\ amount <= wealth[from].money
  /\ wealth' = [wealth EXCEPT ![from].money = @ - amount, ![to].money = @ + amount]
  /\ wealth' \in [Chars -> Bundles]

\* The owner's own game reports what its character carries; a balance beyond
\* the ceiling is not believed.
Declare(c, w) ==
  /\ UNCHANGED agreed
  /\ wealth' = [wealth EXCEPT
       ![c] = [money |-> IF w.money <= MaxMoney THEN w.money ELSE wealth[c].money,
               items |-> w.items]]

Next ==
  \/ Agree
  \/ Withdraw
  \/ \E x \in agreed, c \in Chars : Settle(x, c)
  \/ \E from, to \in Chars, amount \in 1 .. MaxMoney : Send(from, to, amount)
  \/ \E c \in Chars, w \in Claims : Declare(c, w)

Spec == Init /\ [][Next]_<<wealth, agreed>>
=============================================================================
