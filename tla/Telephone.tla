----------------------------- MODULE Telephone -----------------------------
(***************************************************************************)
(* What the server's phone promises, without accounts, connections, ids or *)
(* messages: a person is in at most one call, a call is between two        *)
(* people, nobody talks who did not answer, only a ringing call can be     *)
(* given up by itself, and every call that was rung is a line in the       *)
(* history of both people when it is over.                                 *)
(***************************************************************************)
EXTENDS Naturals

CONSTANTS
  Chars,
  Cap         \* how many lines a history keeps

VARIABLES
  calls,      \* [from, to, state]
  lines       \* how many ended calls each person's history tells of

Busy(c) == \E k \in calls : c \in {k.from, k.to}

Init ==
  /\ calls = {}
  /\ lines = [c \in Chars |-> 0]

Ring(a, b) ==
  /\ a # b /\ ~Busy(a) /\ ~Busy(b)
  /\ calls' = calls \cup {[from |-> a, to |-> b, state |-> "ringing"]}
  /\ UNCHANGED lines

PickUp(k) ==
  /\ k.state = "ringing"
  /\ calls' = (calls \ {k}) \cup {[k EXCEPT !.state = "connected"]}
  /\ UNCHANGED lines

\* The lines of the two people of every call that ends, one each.
Filed(over) ==
  lines' = [c \in Chars |->
              IF lines[c] < Cap /\ \E k \in over : c \in {k.from, k.to}
              THEN lines[c] + 1 ELSE lines[c]]

HangUp(k) ==
  /\ calls' = calls \ {k}
  /\ Filed({k})

RingOut(over) ==
  /\ \A k \in over : k.state = "ringing"
  /\ calls' = calls \ over
  /\ Filed(over)

\* Ringing somebody who is on another call is a call too, and over at once.
Engaged(a, b) ==
  /\ a # b /\ ~Busy(a) /\ Busy(b)
  /\ Filed({[from |-> a, to |-> b, state |-> "ringing"]})
  /\ UNCHANGED calls

Next ==
  \/ \E a, b \in Chars : Ring(a, b) \/ Engaged(a, b)
  \/ \E k \in calls : PickUp(k) \/ HangUp(k)
  \/ \E over \in SUBSET calls : RingOut(over)

Spec == Init /\ [][Next]_<<calls, lines>>
=============================================================================
