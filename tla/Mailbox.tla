------------------------------ MODULE Mailbox ------------------------------
(***************************************************************************)
(* What texting promises: a text stays in the boxes until the two people   *)
(* have exchanged many later ones, it is owed to its reader until the      *)
(* reader collects, and what was saved survives a restart.                 *)
(***************************************************************************)
CONSTANTS People, Texts   \* a text is a record with fields from and to

VARIABLES
  box,      \* the texts there are
  owed,     \* those their reader has not collected
  saved,    \* the box as a restart would find it
  due       \* the texts owed as a restart would find them

vars == <<box, owed, saved, due>>

TypeOK ==
  /\ box \subseteq Texts /\ owed \subseteq box
  /\ saved \subseteq Texts /\ due \subseteq saved

Init == box = {} /\ owed = {} /\ saved = {} /\ due = {}

To(c, S) == {m \in S : m.to = c}
Between(m, S) == {k \in S : {k.from, k.to} = {m.from, m.to}}

\* A new text may push out old ones of the same two people, and its reader,
\* who may be there, collects everything at once.
Post(m) ==
  /\ m \notin box /\ m \in box'
  /\ box' \ {m} \subseteq box
  /\ box \ box' \subseteq Between(m, box)
  /\ \/ owed' = box' \cap (owed \cup {m})
     \/ owed' = box' \cap (owed \ To(m.to, owed))
  /\ UNCHANGED <<saved, due>>

Collect(c) == owed' = owed \ To(c, owed) /\ UNCHANGED <<box, saved, due>>

Save == saved' = box /\ due' = owed /\ UNCHANGED <<box, owed>>

\* What was not saved is gone; what was collected since the last save is owed
\* again.
Restart == box' = saved /\ owed' = due /\ UNCHANGED <<saved, due>>

\* The saved box cannot be read: nothing is shown and nothing is overwritten.
Shut == box' = {} /\ owed' = {} /\ UNCHANGED <<saved, due>>
StopAndShut == saved' = box /\ due' = owed /\ box' = {} /\ owed' = {}

Next ==
  \/ \E m \in Texts : Post(m)
  \/ \E c \in People : Collect(c)
  \/ Save \/ Restart \/ Shut \/ StopAndShut

Spec == Init /\ [][Next]_vars
=============================================================================
