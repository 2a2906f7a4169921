------------------------------ MODULE Medical ------------------------------
(***************************************************************************)
(* Being shot, bleeding out, being treated and standing up again: the      *)
(* HealthComponent every puppet carries, the handlers that write it and    *)
(* TickMedical, which runs about once a second on the same game thread.    *)
(*                                                                         *)
(* The code stores deadlines, DownedAt and TreatmentEndsAt, on a clock     *)
(* that only moves forward.  A body here carries the two differences the   *)
(* code computes from them, now - DownedAt and TreatmentEndsAt - now, and  *)
(* Second moves the clock.  Ticks and seconds are separate steps: a tick   *)
(* is due every 1000 ms of work, so a second can pass without one.         *)
(***************************************************************************)
EXTENDS Integers

CONSTANTS
  People,            \* players; each treats as its active character
  Nobody,            \* an empty TreatedBy
  Places, Nowhere,   \* positions along a street, and no puppet
  TreatReach,        \* kTreatmentDistance
  AttackReach,       \* kMaxAttackRange
  FullHealth,        \* MaxHealth
  RevivedHealth,     \* kRevivedHealth
  Damages,           \* reported damage, clamped to kMaxSingleHit
  BleedoutSeconds, StabilizeSeconds, ReviveSeconds,
  MaxLate            \* bound: how many seconds late a due tick may come

ASSUME ConstantsAssumption ==
  /\ Nobody \notin People
  /\ Nowhere \notin Places /\ Places \subseteq Nat
  /\ {TreatReach, AttackReach, MaxLate} \subseteq Nat
  /\ FullHealth \in Nat \ {0}
  /\ RevivedHealth \in 1 .. FullHealth
  /\ Damages \subseteq Nat
  /\ {BleedoutSeconds, StabilizeSeconds, ReviveSeconds} \subseteq Nat \ {0}
  /\ StabilizeSeconds + ReviveSeconds <= BleedoutSeconds

VARIABLES
  place,      \* per player, where its puppet stands
  body        \* per player, its puppet's HealthComponent

vars == <<place, body>>

Marks == {"fell", "stabilized", "timed"}   \* DownedAt > 0, Stabilized, TreatmentEndsAt > 0
BledCap == BleedoutSeconds + MaxLate       \* bound: bled is counted no further

Bodies ==
  [life   : {"alive", "downed", "dead", "reviving"},   \* LifeState
   health : 0 .. FullHealth,
   is     : SUBSET Marks,
   bled   : 0 .. BledCap,                               \* now - DownedAt
   by     : People \cup {Nobody},                       \* TreatedBy
   left   : -MaxLate .. StabilizeSeconds + ReviveSeconds]   \* TreatmentEndsAt - now

HasPuppet(p) == place[p] # Nowhere

Distance(x, y) == IF x >= y THEN x - y ELSE y - x
Within(p, q, reach) ==
  /\ HasPuppet(p) /\ HasPuppet(q)
  /\ Distance(place[p], place[q]) <= reach

Standing(h) == [life |-> "alive", health |-> h, is |-> {}, bled |-> 0,
                by |-> Nobody, left |-> 0]

Fallen == [life |-> "downed", health |-> 0, is |-> {"fell"}, bled |-> 0,
           by |-> Nobody, left |-> 0]

Init ==
  /\ place = [p \in People |-> Nowhere]
  /\ body = [p \in People |-> Standing(FullHealth)]

-----------------------------------------------------------------------------
(* Getting hurt. *)

\* Wrong on purpose: nothing keeps health from going below nothing.
HitsWithoutFloor(r, damage) ==
  IF r.health # damage
    THEN [life |-> r.life, health |-> r.health - damage, is |-> r.is,
          bled |-> r.bled, by |-> r.by, left |-> r.left]
    ELSE Fallen

\* A hit takes health; the one that takes the last of it starts the bleedout.
Hit(r, damage) ==
  IF r.health > damage
    THEN [life |-> r.life, health |-> r.health - damage, is |-> r.is,
          bled |-> r.bled, by |-> r.by, left |-> r.left]
    ELSE Fallen

\* HandleCombatEventRequest: a body on the ground neither shoots nor is hit.
CombatEvent(p, q, damage) ==
  /\ HasPuppet(p) /\ body[p].life = "alive"
  /\ body[q].life = "alive"
  /\ Within(p, q, AttackReach)
  /\ body' = [body EXCEPT ![q] = Hit(@, damage)]
  /\ UNCHANGED place

\* /kill, by staff.
Kill(q) ==
  /\ HasPuppet(q) /\ body[q].life = "alive"
  /\ body' = [body EXCEPT ![q] = Fallen]
  /\ UNCHANGED place

-----------------------------------------------------------------------------
(* Treatment.  The code asks nothing of the medic but a puppet close by. *)

Busy(r) == r.by # Nobody /\ r.left > 0

\* Wrong on purpose: a second medic takes over a procedure that is running.
BusyWithNobody(p, q) ==
  /\ Within(p, q, TreatReach)
  /\ body[q].life \in {"downed", "reviving"}

Treatable(p, q) ==
  /\ Within(p, q, TreatReach)
  /\ body[q].life \in {"downed", "reviving"}
  /\ ~Busy(body[q])

Procedure(r, life, p, seconds) ==
  [life |-> life, health |-> r.health, is |-> r.is \cup {"timed"},
   bled |-> r.bled, by |-> p, left |-> seconds]

\* /stabilize
Stabilize(p, q) ==
  /\ Treatable(p, q)
  /\ "stabilized" \notin body[q].is
  /\ body' = [body EXCEPT ![q] = Procedure(@, @.life, p, StabilizeSeconds)]
  /\ UNCHANGED place

\* Wrong on purpose: reviving straight from critical.
RevivesCritical(p, q) ==
  /\ Treatable(p, q)
  /\ body' = [body EXCEPT ![q] = Procedure(@, "reviving", p, ReviveSeconds)]
  /\ UNCHANGED place

\* /revive: only what has been stabilised.
Revive(p, q) ==
  /\ Treatable(p, q)
  /\ "stabilized" \in body[q].is
  /\ body' = [body EXCEPT ![q] = Procedure(@, "reviving", p, ReviveSeconds)]
  /\ UNCHANGED place

\* /respawn: only the dead, and where an admin has set a respawn point.
Respawn(p) ==
  /\ HasPuppet(p) /\ body[p].life = "dead"
  /\ body' = [body EXCEPT ![p] = Standing(RevivedHealth)]
  /\ UNCHANGED place

-----------------------------------------------------------------------------
(* The clock and TickMedical. *)

ProcedureDue(r) == "timed" \in r.is /\ r.left <= 0

\* Wrong on purpose: being worked on is enough not to bleed out.
BleedsOutUntended(r) ==
  /\ r.life = "downed" /\ "stabilized" \notin r.is /\ r.by = Nobody
  /\ "fell" \in r.is /\ r.bled >= BleedoutSeconds

\* Wrong on purpose: stabilising only buys time.
BleedsOutAnyway(r) ==
  /\ r.life = "downed"
  /\ "fell" \in r.is /\ r.bled >= BleedoutSeconds

BleedsOut(r) ==
  /\ r.life = "downed" /\ "stabilized" \notin r.is
  /\ "fell" \in r.is /\ r.bled >= BleedoutSeconds

\* A procedure that has run its course: a revival or a stabilisation.
Finished(r) ==
  IF r.life = "reviving"
    THEN Standing(RevivedHealth)
    ELSE [life |-> r.life, health |-> r.health,
          is |-> (r.is \ {"timed"}) \cup {"stabilized"},
          bled |-> r.bled, by |-> Nobody, left |-> 0]

\* Wrong on purpose: the medic at work on the dying is not let go.
DiesUnderTreatment(r) ==
  [life |-> "dead", health |-> r.health, is |-> r.is,
   bled |-> r.bled, by |-> r.by, left |-> r.left]

Died(r) ==
  [life |-> "dead", health |-> r.health, is |-> r.is \ {"timed"},
   bled |-> r.bled, by |-> Nobody, left |-> 0]

\* A finished procedure is looked at before the bleedout.
Examined(r) ==
  IF ProcedureDue(r) THEN Finished(r) ELSE IF BleedsOut(r) THEN Died(r) ELSE r

TickMedical ==
  /\ body' = [p \in People |-> Examined(body[p])]
  /\ UNCHANGED place

\* Nothing on the body has been due for as long as a tick may be late.
Attended(r) ==
  /\ "timed" \in r.is => r.left > -MaxLate
  /\ BleedsOut(r) => r.bled < BledCap

\* One second later.
Older(r) ==
  [life |-> r.life, health |-> r.health, is |-> r.is,
   bled |-> IF "fell" \in r.is /\ r.bled < BledCap THEN r.bled + 1 ELSE r.bled,
   by |-> r.by, left |-> IF "timed" \in r.is THEN r.left - 1 ELSE r.left]

Second ==
  /\ \A p \in People : Attended(body[p])
  /\ body' = [p \in People |-> Older(body[p])]
  /\ UNCHANGED place

-----------------------------------------------------------------------------
(* Puppets come and go; a new one is unhurt. *)

Spawn(p, x) ==
  /\ ~HasPuppet(p)
  /\ place' = [place EXCEPT ![p] = x]
  /\ body' = [body EXCEPT ![p] = Standing(FullHealth)]

Move(p, x) ==
  /\ HasPuppet(p)
  /\ place' = [place EXCEPT ![p] = x]
  /\ UNCHANGED body

\* Disconnecting or leaving the world destroys the puppet and what it carried.
Leave(p) ==
  /\ HasPuppet(p)
  /\ place' = [place EXCEPT ![p] = Nowhere]
  /\ body' = [body EXCEPT ![p] = Standing(FullHealth)]

-----------------------------------------------------------------------------
Command(p) ==
  \/ \E q \in People, damage \in Damages : CombatEvent(p, q, damage)
  \/ Kill(p)
  \/ \E q \in People : Stabilize(p, q) \/ Revive(p, q)
  \/ Respawn(p)
  \/ \E x \in Places : Spawn(p, x) \/ Move(p, x)
  \/ Leave(p)

Next == TickMedical \/ Second \/ \E p \in People : Command(p)

\* Time passes and the server's own timer runs; nobody has to do anything.
Spec == Init /\ [][Next]_vars /\ WF_vars(TickMedical) /\ WF_vars(Second)

-----------------------------------------------------------------------------
TypeOK ==
  /\ place \in [People -> Places \cup {Nowhere}]
  /\ body \in [People -> Bodies]

\* What the four life states mean for the other fields, on every path in and
\* out of them: only the standing have health, only the fallen bleed, only the
\* stabilised are revived, and somebody is treating exactly while a procedure
\* runs, which is never on the dead (HealthComponent's medical fields).
Sound(r) ==
  /\ r.life = "alive" => r.health > 0 /\ r.is = {}
  /\ r.life # "alive" => r.health = 0 /\ "fell" \in r.is
  /\ r.life = "dead" => r.is = {"fell"}
  /\ r.life = "reviving" => {"stabilized", "timed"} \subseteq r.is
  /\ r.by # Nobody <=> "timed" \in r.is

ConditionsSound == \A p \in People : Sound(body[p])

\* What has been bled so far and what is left of the procedure add up to the
\* procedures begun.
Accounted(r) ==
  /\ "stabilized" \in r.is => r.bled >= StabilizeSeconds
  /\ r.life = "downed" /\ "timed" \in r.is /\ "stabilized" \notin r.is
       => r.bled + r.left >= StabilizeSeconds
  /\ r.life = "reviving" => r.bled + r.left >= StabilizeSeconds + ReviveSeconds

\* Whoever is not in the world carries nothing over into the next puppet.
Unhurt(p) == body[p] = Standing(FullHealth)

IInv ==
  /\ TypeOK
  /\ ConditionsSound
  /\ \A p \in People : Accounted(body[p])
  /\ \A p \in People : HasPuppet(p) \/ Unhurt(p)

\* Nobody dies but of an untreated bleedout that has lasted its full time, and
\* shooting a body does not start the time again (TickMedical,
\* HandleCombatEventRequest: "must not restart their bleedout").
Restarts(p) == body[p].life = "downed" /\ body'[p].bled < body[p].bled
Dies(p) == body[p].life # "dead" /\ body'[p].life = "dead"

OnlyTheBleedingDie ==
  [][\A p \in People :
       /\ Dies(p) => body[p].bled >= BleedoutSeconds /\ "stabilized" \notin body[p].is
       /\ ~(Restarts(p) /\ HasPuppet(p) /\ HasPuppet(p)')]_vars

\* Whoever went down and is revived has been down for as long as the two
\* procedures take, one after the other ("a revive is a procedure, not a
\* button").
CareTakesTime ==
  [][\A p \in People :
       body[p].life = "reviving" /\ body'[p].life = "alive" /\ HasPuppet(p)'
         => body[p].bled >= StabilizeSeconds + ReviveSeconds]_vars

\* While a procedure is running nobody else's takes its place; it ends with
\* the patient's death or departure, or by running out ("two medics cannot work
\* on one patient").
OneMedicAtATime ==
  [][\A p \in People :
       Busy(body[p]) /\ body'[p].by # body[p].by
         => body'[p].life = "dead" \/ ~HasPuppet(p)']_vars

\* A body on the ground with nothing done for it does not stay there for ever:
\* it is stabilised, dies or leaves, however often somebody starts over.
Untreated(p) == body[p].life = "downed" /\ "stabilized" \notin body[p].is
EveryFallEnds == \A p \in People : Untreated(p) ~> ~Untreated(p)
=============================================================================
