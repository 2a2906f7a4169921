--------------------------- MODULE MedicalProofs ---------------------------
(***************************************************************************)
(* The bodies of Medical stay sound, and what follows for dying and being  *)
(* revived.  The invariant is a property of each body by itself, so every  *)
(* way a handler rewrites one gets a lemma, and the actions cite those.    *)
(***************************************************************************)
EXTENDS Medical, TLAPS

Good(r) == r \in Bodies /\ Sound(r) /\ Accounted(r)

\* A new puppet, somebody revived and somebody respawned are all in order.
LEMMA StandingGood ==
  ASSUME NEW h \in 1 .. FullHealth
  PROVE  Good(Standing(h))
  BY ConstantsAssumption DEF Good, Bodies, Sound, Accounted, Standing, Marks, BledCap

\* So is somebody who just went down (the downed branch and /kill).
LEMMA FallenGood == Good(Fallen)
  BY ConstantsAssumption DEF Good, Bodies, Sound, Accounted, Fallen, Marks, BledCap

\* A hit on somebody standing (HandleCombatEventRequest).
LEMMA HitGood ==
  ASSUME NEW r, Good(r), r.life = "alive", NEW damage \in Damages
  PROVE  Good(Hit(r, damage))
<1>1. CASE r.health > damage
  BY <1>1, ConstantsAssumption
  DEF Good, Bodies, Sound, Accounted, Hit, Marks, BledCap
<1>2. CASE ~(r.health > damage)
  BY <1>2, FallenGood DEF Hit
<1> QED BY <1>1, <1>2

\* Starting to stabilise (/stabilize).
LEMMA StabilizingGood ==
  ASSUME NEW r, Good(r), r.life \in {"downed", "reviving"}, "stabilized" \notin r.is,
         NEW p \in People
  PROVE  Good(Procedure(r, r.life, p, StabilizeSeconds))
  BY ConstantsAssumption
  DEF Good, Bodies, Sound, Accounted, Procedure, Marks, BledCap

\* Starting to revive (/revive).
LEMMA RevivingGood ==
  ASSUME NEW r, Good(r), r.life \in {"downed", "reviving"}, "stabilized" \in r.is,
         NEW p \in People
  PROVE  Good(Procedure(r, "reviving", p, ReviveSeconds))
  BY ConstantsAssumption
  DEF Good, Bodies, Sound, Accounted, Procedure, Marks, BledCap

\* A tick's verdict on one body (TickMedical).
LEMMA ExaminedGood ==
  ASSUME NEW r, Good(r)
  PROVE  Good(Examined(r))
<1>1. CASE ProcedureDue(r) /\ r.life = "reviving"
  <2>1. Good(Standing(RevivedHealth))
    BY StandingGood, ConstantsAssumption
  <2> QED BY <1>1, <2>1 DEF Examined, Finished
<1>2. CASE ProcedureDue(r) /\ r.life # "reviving"
  BY <1>2, ConstantsAssumption
  DEF Good, Bodies, Sound, Accounted, Examined, Finished, ProcedureDue, Marks, BledCap
<1>3. CASE ~ProcedureDue(r) /\ BleedsOut(r)
  BY <1>3, ConstantsAssumption
  DEF Good, Bodies, Sound, Accounted, Examined, Died, BleedsOut, Marks, BledCap
<1>4. CASE ~ProcedureDue(r) /\ ~BleedsOut(r)
  BY <1>4 DEF Examined
<1> QED BY <1>1, <1>2, <1>3, <1>4

\* A body one second older: the sums Accounted keeps hold still, or are at the
\* bound, where the bleedout alone is longer than both procedures.
LEMMA OlderGood ==
  ASSUME NEW r, Good(r), Attended(r)
  PROVE  Good(Older(r))
<1>1. r.bled \in 0 .. BledCap /\ r.left \in Int /\ BledCap \in Nat
  BY ConstantsAssumption DEF Good, Bodies, BledCap
<1>2. Older(r).bled \in 0 .. BledCap /\ Older(r).bled >= r.bled
  BY <1>1 DEF Older
<1>3. CASE "timed" \in r.is
  <2>1. "fell" \in r.is
    BY <1>3 DEF Good, Sound, Bodies
  <2>2. Older(r).bled + Older(r).left = r.bled + r.left
          \/ Older(r).bled + Older(r).left >= StabilizeSeconds + ReviveSeconds
    BY <1>1, <1>3, <2>1, ConstantsAssumption DEF Older, Attended, BledCap
  <2>3. Older(r) \in Bodies
    BY <1>1, <1>2, <1>3, ConstantsAssumption DEF Good, Bodies, Older, Attended
  <2>4. Sound(Older(r))
    BY DEF Good, Sound, Older
  <2>5. Accounted(Older(r))
    BY <1>1, <1>2, <1>3, <2>2, <2>3, ConstantsAssumption DEF Good, Accounted, Older, Bodies
  <2> QED BY <2>3, <2>4, <2>5 DEF Good
<1>4. CASE "timed" \notin r.is
  <2>1. Older(r) \in Bodies
    BY <1>1, <1>2, <1>4 DEF Good, Bodies, Older
  <2>2. Sound(Older(r))
    BY DEF Good, Sound, Older
  <2>3. r.life # "reviving"
    BY <1>4 DEF Good, Sound
  <2>4. Accounted(Older(r))
    BY <1>1, <1>2, <1>4, <2>3, ConstantsAssumption DEF Good, Accounted, Older, Bodies
  <2> QED BY <2>1, <2>2, <2>4 DEF Good
<1> QED BY <1>3, <1>4

-----------------------------------------------------------------------------
AllGood ==
  /\ place \in [People -> Places \cup {Nowhere}]
  /\ body \in [People -> Bodies]
  /\ \A p \in People : Good(body[p])
  /\ \A p \in People : HasPuppet(p) \/ Unhurt(p)

\* The invariant and "every body is good" are the same thing.
LEMMA GoodIsIInv == IInv <=> AllGood
  BY DEF IInv, AllGood, TypeOK, ConditionsSound, Good

\* Nobody has a puppet at the start.
LEMMA InitGood == Init => AllGood
<1> SUFFICES ASSUME Init PROVE AllGood
  OBVIOUS
<1>1. Good(Standing(FullHealth))
  BY StandingGood, ConstantsAssumption
<1> QED BY <1>1 DEF Init, AllGood, Good, Unhurt

\* Rewriting one body with a good one keeps all of them good.
LEMMA OneRewritten ==
  ASSUME AllGood, NEW q \in People, NEW r, Good(r),
         body' = [body EXCEPT ![q] = r], place' \in [People -> Places \cup {Nowhere}],
         \A p \in People \ {q} : place'[p] = place[p],
         place'[q] # Nowhere \/ r = Standing(FullHealth)
  PROVE  AllGood'
<1>1. body' \in [People -> Bodies] /\ \A p \in People : Good(body'[p])
  BY DEF AllGood, Good
<1>2. \A p \in People : HasPuppet(p)' \/ Unhurt(p)'
  BY DEF AllGood, HasPuppet, Unhurt
<1>3. \A p \in People : Good(body[p])'
  BY <1>1 DEF Good, Bodies, Sound, Accounted, Busy
<1> QED BY <1>1, <1>2, <1>3 DEF AllGood

\* Every step of Medical keeps every body good.
LEMMA NextKeepsGood == AllGood /\ [Next]_vars => AllGood'
<1> SUFFICES ASSUME AllGood, [Next]_vars PROVE AllGood'
  OBVIOUS
<1>1. Good(Standing(FullHealth)) /\ Good(Standing(RevivedHealth))
  BY StandingGood, ConstantsAssumption
<1>2. ASSUME NEW p \in People, NEW q \in People, NEW damage \in Damages,
             CombatEvent(p, q, damage)
      PROVE  AllGood'
  <2>1. Good(Hit(body[q], damage))
    BY <1>2, HitGood DEF CombatEvent, AllGood
  <2> QED BY <1>2, <2>1, OneRewritten DEF CombatEvent, AllGood, Within, HasPuppet
<1>3. ASSUME NEW q \in People, Kill(q) PROVE AllGood'
  BY <1>3, FallenGood, OneRewritten DEF Kill, AllGood, HasPuppet
<1>4. ASSUME NEW p \in People, NEW q \in People, Stabilize(p, q) PROVE AllGood'
  <2>1. Good(Procedure(body[q], body[q].life, p, StabilizeSeconds))
    BY <1>4, StabilizingGood DEF Stabilize, Treatable, AllGood
  <2> QED BY <1>4, <2>1, OneRewritten DEF Stabilize, Treatable, Within, HasPuppet, AllGood
<1>5. ASSUME NEW p \in People, NEW q \in People, Revive(p, q) PROVE AllGood'
  <2>1. Good(Procedure(body[q], "reviving", p, ReviveSeconds))
    BY <1>5, RevivingGood DEF Revive, Treatable, AllGood
  <2> QED BY <1>5, <2>1, OneRewritten DEF Revive, Treatable, Within, HasPuppet, AllGood
<1>6. ASSUME NEW p \in People, Respawn(p) PROVE AllGood'
  BY <1>6, <1>1, OneRewritten DEF Respawn, HasPuppet, AllGood
<1>7. ASSUME NEW p \in People, NEW x \in Places, Spawn(p, x) PROVE AllGood'
  <2>1. place' \in [People -> Places \cup {Nowhere}]
    BY <1>7 DEF Spawn, AllGood
  <2>2. \A o \in People \ {p} : place'[o] = place[o]
    BY <1>7 DEF Spawn, AllGood
  <2> QED BY <1>7, <2>1, <2>2, <1>1, OneRewritten DEF Spawn
<1>8. ASSUME NEW p \in People, NEW x \in Places, Move(p, x) PROVE AllGood'
  <2>1. place' \in [People -> Places \cup {Nowhere}] /\ body' = body
    BY <1>8 DEF Move, AllGood
  <2>2. \A o \in People : HasPuppet(o) => HasPuppet(o)'
    BY <1>8, ConstantsAssumption DEF Move, AllGood, HasPuppet
  <2> QED BY <2>1, <2>2 DEF AllGood, Good, Unhurt
<1>9. ASSUME NEW p \in People, Leave(p) PROVE AllGood'
  <2>1. place' \in [People -> Places \cup {Nowhere}]
    BY <1>9 DEF Leave, AllGood
  <2>2. \A o \in People \ {p} : place'[o] = place[o]
    BY <1>9 DEF Leave, AllGood
  <2> QED BY <1>9, <2>1, <2>2, <1>1, OneRewritten DEF Leave
<1>10. ASSUME TickMedical PROVE AllGood'
  <2>1. \A p \in People : Good(Examined(body[p]))
    BY ExaminedGood DEF AllGood
  <2>2. Examined(Standing(FullHealth)) = Standing(FullHealth)
    BY DEF Examined, ProcedureDue, BleedsOut, Standing
  <2>3. \A p \in People : body'[p] = Examined(body[p]) /\ place' = place
    BY <1>10 DEF TickMedical
  <2>4. \A p \in People : HasPuppet(p)' \/ Unhurt(p)'
    BY <2>2, <2>3 DEF AllGood, HasPuppet, Unhurt
  <2> QED BY <1>10, <2>1, <2>3, <2>4 DEF TickMedical, AllGood, Good
<1>11. ASSUME Second PROVE AllGood'
  <2>1. \A p \in People : Good(Older(body[p]))
    BY <1>11, OlderGood DEF AllGood, Second
  <2>2. Older(Standing(FullHealth)) = Standing(FullHealth)
    BY DEF Older, Standing
  <2>3. \A p \in People : body'[p] = Older(body[p]) /\ place' = place
    BY <1>11 DEF Second
  <2>4. \A p \in People : HasPuppet(p)' \/ Unhurt(p)'
    BY <2>2, <2>3 DEF AllGood, HasPuppet, Unhurt
  <2> QED BY <1>11, <2>1, <2>3, <2>4 DEF Second, AllGood, Good
<1>12. CASE UNCHANGED vars
  BY <1>12 DEF vars, AllGood, Good, HasPuppet, Unhurt
<1> QED BY <1>2, <1>3, <1>4, <1>5, <1>6, <1>7, <1>8, <1>9, <1>10, <1>11, <1>12
        DEF Next, Command
-----------------------------------------------------------------------------
\* Bodies are sound and their time is accounted for in every reachable state.
THEOREM Invariance == Spec => []IInv
<1>1. Init => IInv
  BY InitGood, GoodIsIInv
<1>2. IInv /\ [Next]_vars => IInv'
  <2>1. IInv' <=> AllGood'
    BY DEF IInv, AllGood, TypeOK, ConditionsSound, Good
  <2> QED BY <2>1, GoodIsIInv, NextKeepsGood
<1> QED BY <1>1, <1>2, PTL DEF Spec

\* The types of the model hold for any number of players and any durations.
THEOREM TypeCorrect == Spec => []TypeOK
<1>1. IInv => TypeOK
  BY DEF IInv
<1> QED BY <1>1, Invariance, PTL

\* The life states mean what the other medical fields say, always.
THEOREM BodiesAreSound == Spec => []ConditionsSound
<1>1. IInv => ConditionsSound
  BY DEF IInv
<1> QED BY <1>1, Invariance, PTL

\* The moves of a single body: what each action may make of it.
Moves(r, n) ==
  \/ n = r
  \/ \E damage \in Damages : r.life = "alive" /\ n = Hit(r, damage)
  \/ r.life = "alive" /\ n = Fallen
  \/ \E p \in People :
       r.life \in {"downed", "reviving"} /\ ~Busy(r)
         /\ \/ "stabilized" \notin r.is /\ n = Procedure(r, r.life, p, StabilizeSeconds)
            \/ "stabilized" \in r.is /\ n = Procedure(r, "reviving", p, ReviveSeconds)
  \/ r.life = "dead" /\ n = Standing(RevivedHealth)
  \/ n = Examined(r)
  \/ n = Older(r)

\* A step moves each body by one of those moves, or replaces the puppet.
LEMMA EachBodyMoves ==
  ASSUME AllGood, [Next]_vars, NEW b \in People
  PROVE  \/ Moves(body[b], body'[b])
         \/ body'[b] = Standing(FullHealth) /\ (Unhurt(b) \/ ~HasPuppet(b)')
<1>1. ASSUME NEW p \in People, NEW q \in People, NEW damage \in Damages,
             CombatEvent(p, q, damage)
      PROVE  Moves(body[b], body'[b])
  BY <1>1 DEF CombatEvent, AllGood, Moves
<1>2. ASSUME NEW q \in People, Kill(q) PROVE Moves(body[b], body'[b])
  BY <1>2 DEF Kill, AllGood, Moves
<1>3. ASSUME NEW p \in People, NEW q \in People, Stabilize(p, q) \/ Revive(p, q)
      PROVE  Moves(body[b], body'[b])
  BY <1>3 DEF Stabilize, Revive, Treatable, AllGood, Moves
<1>4. ASSUME NEW p \in People, Respawn(p) PROVE Moves(body[b], body'[b])
  BY <1>4 DEF Respawn, AllGood, Moves
<1>5. ASSUME NEW p \in People, (\E x \in Places : Spawn(p, x)) \/ Leave(p)
      PROVE  \/ Moves(body[b], body'[b])
             \/ body'[b] = Standing(FullHealth) /\ (Unhurt(b) \/ ~HasPuppet(b)')
  <2>1. CASE b = p
    BY <1>5, <2>1 DEF Spawn, Leave, AllGood, HasPuppet
  <2>2. CASE b # p
    BY <1>5, <2>2 DEF Spawn, Leave, AllGood, Moves
  <2> QED BY <2>1, <2>2
<1>6. ASSUME NEW p \in People, NEW x \in Places, Move(p, x)
      PROVE  Moves(body[b], body'[b])
  BY <1>6 DEF Move, Moves
<1>7. ASSUME TickMedical \/ Second PROVE Moves(body[b], body'[b])
  BY <1>7 DEF TickMedical, Second, Moves
<1>8. CASE UNCHANGED vars
  BY <1>8 DEF vars, Moves
<1> QED BY <1>1, <1>2, <1>3, <1>4, <1>5, <1>6, <1>7, <1>8 DEF Next, Command

\* Dying takes a full, untreated bleedout; being down never starts anew.
LEMMA DyingMove ==
  ASSUME NEW r, NEW n, Good(r), Moves(r, n)
  PROVE  /\ r.life # "dead" /\ n.life = "dead" =>
              r.bled >= BleedoutSeconds /\ "stabilized" \notin r.is
         /\ ~(r.life = "downed" /\ n.bled < r.bled)
<1>1. CASE n = r
  BY <1>1, ConstantsAssumption DEF Good, Bodies, BledCap
<1>2. CASE r.life = "alive" /\ ((\E damage \in Damages : n = Hit(r, damage)) \/ n = Fallen)
  BY <1>2 DEF Hit, Fallen
<1>3. CASE \E p \in People, life \in {r.life, "reviving"},
              s \in {StabilizeSeconds, ReviveSeconds} :
              r.life \in {"downed", "reviving"} /\ n = Procedure(r, life, p, s)
  BY <1>3, ConstantsAssumption DEF Good, Bodies, BledCap, Procedure
<1>4. CASE r.life = "dead"
  BY <1>4
<1>5. CASE n = Examined(r)
  BY <1>5, ConstantsAssumption
  DEF Good, Bodies, BledCap, Examined, Finished, Died, Standing, BleedsOut
<1>6. CASE n = Older(r)
  BY <1>6, ConstantsAssumption DEF Good, Bodies, BledCap, Older
<1> QED BY <1>1, <1>2, <1>3, <1>4, <1>5, <1>6 DEF Moves

\* Standing up from a revival takes both procedures' time.
LEMMA RevivingMove ==
  ASSUME NEW r, NEW n, Good(r), Moves(r, n), r.life = "reviving", n.life = "alive"
  PROVE  r.bled >= StabilizeSeconds + ReviveSeconds
<1>1. n = Examined(r)
  BY DEF Moves, Procedure, Older
<1>2. ProcedureDue(r)
  BY <1>1 DEF Examined, Died
<1> QED BY <1>2, ConstantsAssumption DEF Good, Bodies, BledCap, Accounted, ProcedureDue

\* A running procedure changes hands only by ending with the patient.
LEMMA BusyMove ==
  ASSUME NEW r, NEW n, Good(r), Moves(r, n), Busy(r), n.by # r.by
  PROVE  n.life = "dead"
<1>1. r.life # "alive" /\ r.life # "dead"
  BY DEF Good, Sound, Busy
<1>2. n = Examined(r)
  BY <1>1 DEF Moves, Older
<1>3. ~ProcedureDue(r)
  BY DEF Busy, ProcedureDue, Good, Bodies
<1> QED BY <1>2, <1>3 DEF Examined, Died

-----------------------------------------------------------------------------
\* Only those whose bleedout ran its full time untreated die, and no hit starts
\* the time again, for any durations.
THEOREM DyingTakesItsTime == Spec => OnlyTheBleedingDie
<1>1. IInv /\ [Next]_vars =>
        \A p \in People :
          /\ Dies(p) => body[p].bled >= BleedoutSeconds /\ "stabilized" \notin body[p].is
          /\ ~(Restarts(p) /\ HasPuppet(p) /\ HasPuppet(p)')
  <2> SUFFICES ASSUME AllGood, [Next]_vars, NEW p \in People
               PROVE  /\ Dies(p) => /\ body[p].bled >= BleedoutSeconds
                                    /\ "stabilized" \notin body[p].is
                      /\ ~(Restarts(p) /\ HasPuppet(p) /\ HasPuppet(p)')
    BY GoodIsIInv
  <2>1. CASE Moves(body[p], body'[p])
    BY <2>1, DyingMove DEF AllGood, Dies, Restarts
  <2>2. CASE body'[p] = Standing(FullHealth) /\ (Unhurt(p) \/ ~HasPuppet(p)')
    BY <2>2 DEF Standing, Dies, Restarts, Unhurt, HasPuppet
  <2> QED BY <2>1, <2>2, EachBodyMoves
<1> QED BY <1>1, Invariance, PTL DEF Spec, OnlyTheBleedingDie

\* Nobody is revived in less time than the two procedures take together.
THEOREM RevivalTakesBothProcedures == Spec => CareTakesTime
<1>1. IInv /\ [Next]_vars =>
        \A p \in People :
          body[p].life = "reviving" /\ body'[p].life = "alive" /\ HasPuppet(p)'
            => body[p].bled >= StabilizeSeconds + ReviveSeconds
  <2> SUFFICES ASSUME AllGood, [Next]_vars, NEW p \in People,
                      body[p].life = "reviving", body'[p].life = "alive", HasPuppet(p)'
               PROVE  body[p].bled >= StabilizeSeconds + ReviveSeconds
    BY GoodIsIInv
  <2>1. CASE Moves(body[p], body'[p])
    BY <2>1, RevivingMove DEF AllGood
  <2>2. CASE body'[p] = Standing(FullHealth) /\ (Unhurt(p) \/ ~HasPuppet(p)')
    BY <2>2 DEF Unhurt, Standing, Busy, HasPuppet
  <2> QED BY <2>1, <2>2, EachBodyMoves
<1> QED BY <1>1, Invariance, PTL DEF Spec, CareTakesTime

\* A running procedure is never taken over by a second medic.
THEOREM ProceduresAreNotTakenOver == Spec => OneMedicAtATime
<1>1. IInv /\ [Next]_vars =>
        \A p \in People :
          Busy(body[p]) /\ body'[p].by # body[p].by
            => body'[p].life = "dead" \/ ~HasPuppet(p)'
  <2> SUFFICES ASSUME AllGood, [Next]_vars, NEW p \in People,
                      Busy(body[p]), body'[p].by # body[p].by, HasPuppet(p)'
               PROVE  body'[p].life = "dead"
    BY GoodIsIInv
  <2>1. CASE Moves(body[p], body'[p])
    BY <2>1, BusyMove DEF AllGood
  <2>2. CASE body'[p] = Standing(FullHealth) /\ (Unhurt(p) \/ ~HasPuppet(p)')
    BY <2>2 DEF Unhurt, Standing, Busy, HasPuppet
  <2> QED BY <2>1, <2>2, EachBodyMoves
<1> QED BY <1>1, Invariance, PTL DEF Spec, OneMedicAtATime
=============================================================================
