----------------------------- MODULE SafeBooks -----------------------------
(***************************************************************************)
(* What keeping books on a disk promises: each book is kept whole or not   *)
(* at all, what is kept was once what was worked with, and a fall puts the *)
(* work back to what was last kept of every book, never anything else.     *)
(***************************************************************************)
CONSTANTS Books, Entries

VARIABLES
  work,   \* per book, the entries the running program works with
  kept    \* per book, the entries a restart would find

vars == <<work, kept>>

Init == work = [b \in Books |-> {}] /\ kept = [b \in Books |-> {}]

Work(b) ==
  /\ work'[b] \subseteq Entries
  /\ work' = [work EXCEPT ![b] = work'[b]]
  /\ UNCHANGED kept

Keep(b) == kept' = [kept EXCEPT ![b] = work[b]] /\ UNCHANGED work

Fall == work' = kept /\ UNCHANGED kept

Next == (\E b \in Books : Work(b) \/ Keep(b)) \/ Fall

Spec == Init /\ [][Next]_vars
=============================================================================
