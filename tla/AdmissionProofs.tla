-------------------------- MODULE AdmissionProofs --------------------------
(***************************************************************************)
(* Nobody gets in past the limit, past the ban list or after having left,  *)
(* for any number of connections, accounts and seats.  The invariant       *)
(* counts the verdicts: a connection that waits has one on its way, so     *)
(* none is left to reach a connection that is already in.                  *)
(***************************************************************************)
EXTENDS Admission, FiniteSetTheorems, TLAPS

\* What the game thread keeps of connections, and what the workers know.
RoomOK ==
  /\ link \in [Conns -> {"new", "queued", "open", "gone"}]
  /\ pending \subseteq Conns /\ players \subseteq Conns
  /\ rank \in [Conns -> Ranks]

RestOK ==
  /\ cached \in [Accounts -> Ranks]
  /\ fresh \in [Accounts -> 0 .. CacheMinutes]
  /\ banned \subseteq Accounts
  /\ standing \in [Accounts -> Standings]
  /\ sinceSweep \in 0 .. SweepMinutes

WorkOK == asking \subseteq Jobs /\ tasks \subseteq Tasks

\* The parts make the invariant.
LEMMA Parts ==
  IInv <=> /\ verifying \in BOOLEAN /\ RoomOK /\ RestOK /\ WorkOK
           /\ NeverOverFull /\ NoGhosts /\ OneVerdictEach /\ SweepsAreDefinite
  BY DEF IInv, TypeOK, RoomOK, RestOK, WorkOK

LEMMA PartsNext ==
  IInv' <=> /\ verifying' \in BOOLEAN /\ RoomOK' /\ RestOK' /\ WorkOK'
            /\ NeverOverFull' /\ NoGhosts' /\ OneVerdictEach' /\ SweepsAreDefinite'
  BY DEF IInv, TypeOK, RoomOK, RestOK, WorkOK

\* Players are finitely many, so one fewer is not more and one more is one more.
LEMMA FewerPlayers ==
  ASSUME NEW P \in SUBSET Conns, NEW Q \in SUBSET P, Cardinality(P) <= MaxPlayer
  PROVE  Cardinality(Q) <= MaxPlayer
<1>1. IsFiniteSet(P) /\ IsFiniteSet(Q)
  BY ConstantsAssumption, FS_Subset
<1>2. Cardinality(Q) <= Cardinality(P)
  BY <1>1, FS_Subset
<1>3. Cardinality(P) \in Nat /\ Cardinality(Q) \in Nat
  BY <1>1, FS_CardinalityType
<1> QED BY <1>2, <1>3, ConstantsAssumption

LEMMA OneMorePlayer ==
  ASSUME NEW P \in SUBSET Conns, NEW c \in Conns, ~(Cardinality(P) >= MaxPlayer)
  PROVE  Cardinality(P \cup {c}) <= MaxPlayer
<1>1. IsFiniteSet(P)
  BY ConstantsAssumption, FS_Subset
<1>2. Cardinality(P) \in Nat
  BY <1>1, FS_CardinalityType
<1>3. Cardinality(P \cup {c}) = Cardinality(P) \/ Cardinality(P \cup {c}) = Cardinality(P) + 1
  BY <1>1, FS_AddElement
<1> QED BY <1>2, <1>3, ConstantsAssumption

-----------------------------------------------------------------------------
(* What each way of changing the room does, whatever the queue does. *)

\* The facts about the room alone.
RoomSound == RoomOK /\ NeverOverFull /\ NoGhosts

\* A connection that ends takes its player and its place in the queue along.
LEMMA EndedSound ==
  ASSUME RoomSound, NEW c \in Conns, Ended(c)
  PROVE  RoomSound'
<1>1. RoomOK'
  BY DEF RoomSound, RoomOK, Ended, Ranks
<1>2. NeverOverFull'
  <2>1. players' = players \ {c} /\ players \in SUBSET Conns /\ Cardinality(players) <= MaxPlayer
    BY DEF RoomSound, RoomOK, NeverOverFull, Ended
  <2>2. Cardinality(players \ {c}) <= MaxPlayer
    BY <2>1, FewerPlayers
  <2> QED BY <2>1, <2>2 DEF NeverOverFull
<1>3. NoGhosts'
  BY DEF RoomSound, RoomOK, NoGhosts, Ended, IsAlive
<1> QED BY <1>1, <1>2, <1>3 DEF RoomSound

\* Somebody waiting for a seat that is there gets it.
LEMMA AdmitSound ==
  ASSUME RoomSound, NEW c \in Conns, NEW level \in Ranks, IsAlive(c), ~Full,
         AdmitPlayer(c, level)
  PROVE  RoomSound'
<1>1. RoomOK'
  BY DEF RoomSound, RoomOK, AdmitPlayer
<1>2. NeverOverFull'
  <2>1. players' = players \cup {c} /\ players \in SUBSET Conns
    BY DEF RoomSound, RoomOK, AdmitPlayer
  <2>2. Cardinality(players \cup {c}) <= MaxPlayer
    BY <2>1, OneMorePlayer DEF Full
  <2> QED BY <2>1, <2>2 DEF NeverOverFull
<1>3. NoGhosts'
  BY DEF RoomSound, RoomOK, NoGhosts, AdmitPlayer, IsAlive
<1> QED BY <1>1, <1>2, <1>3 DEF RoomSound

\* Nothing else touches the room.
LEMMA RoomSame ==
  ASSUME RoomSound, UNCHANGED room
  PROVE  RoomSound'
  BY DEF RoomSound, RoomOK, NeverOverFull, NoGhosts, IsAlive, room

-----------------------------------------------------------------------------
(* The verdicts on their way. *)

\* Who leaves the room cannot be waited for, whatever verdict is still out.
LEMMA EndedVerdicts ==
  ASSUME RoomSound, OneVerdictEach, NEW c \in Conns, Ended(c), UNCHANGED work
  PROVE  OneVerdictEach'
  BY DEF RoomSound, RoomOK, OneVerdictEach, Asked, Told, Ended, work

\* A verdict that is handed from a worker to the queue stays one verdict.
LEMMA ReportedVerdicts ==
  ASSUME RoomOK, OneVerdictEach, SweepsAreDefinite, WorkOK,
         NEW job \in asking, NEW verdict \in Verdicts,
         job.join = "sweep" => verdict \in Standings, Report(job, verdict)
  PROVE  OneVerdictEach' /\ SweepsAreDefinite' /\ WorkOK'
<1> DEFINE t == [job |-> job, verdict |-> verdict]
<1>1. /\ asking' = asking \ {job} /\ tasks' = tasks \cup {t}
      /\ UNCHANGED <<link, pending, players>>
  BY DEF Report, room
<1>2. t \in Tasks /\ t.job = job /\ t.verdict = verdict
  BY DEF WorkOK, Tasks
<1>3. job \in Jobs /\ job = [conn |-> job.conn, join |-> job.join] /\ job.conn \in Conns
      /\ job.join \in {"join", "sweep"}
  BY DEF WorkOK, Jobs
<1>4. WorkOK' /\ SweepsAreDefinite'
  BY <1>1, <1>2 DEF WorkOK, SweepsAreDefinite
<1> HIDE DEF t
<1>5. ASSUME NEW c \in Conns PROVE Told(c)' <=> Told(c) \/ job = JoinJob(c)
  BY <1>1, <1>2 DEF Told
<1>6. ASSUME NEW c \in Conns PROVE Asked(c)' <=> Asked(c) /\ job # JoinJob(c)
  BY <1>1 DEF Asked
<1>7. ASSUME NEW u \in tasks, u.job = job, job.join = "join" PROVE FALSE
  BY <1>3, <1>7 DEF OneVerdictEach, Asked, Told, JoinJob
<1>8. \A u, v \in tasks' : u.job = v.job /\ u.job.join = "join" => u = v
  BY <1>1, <1>2, <1>7 DEF OneVerdictEach
<1>9. ASSUME NEW c \in Conns
      PROVE  /\ c \in pending' => Asked(c)' \/ Told(c)'
             /\ ~(Asked(c)' /\ Told(c)')
             /\ Asked(c)' \/ Told(c)' => c \in pending' \/ link'[c] = "gone"
  BY <1>1, <1>5, <1>6 DEF OneVerdictEach, Asked
<1> QED
  <2>1. OneVerdictEach'
    BY <1>8, <1>9, <1>1 DEF OneVerdictEach, RoomOK
  <2> QED BY <2>1, <1>4

\* A task that has run leaves no verdict for its connection, so the room may
\* forget that it waited.
LEMMA RanVerdicts ==
  ASSUME RoomOK, OneVerdictEach, SweepsAreDefinite, WorkOK, NEW t \in tasks, Ran(t),
         RoomOK', pending' \subseteq pending,
         \A c \in Conns : link[c] = "gone" => link'[c] = "gone",
         \A c \in Conns : c \in pending /\ c \notin pending' =>
            t.job = JoinJob(c) \/ link'[c] = "gone",
         \A c \in Conns : t.job = JoinJob(c) => c \notin pending'
  PROVE  OneVerdictEach' /\ SweepsAreDefinite' /\ WorkOK'
<1>1. tasks' = tasks \ {t} /\ asking' = asking
  BY DEF Ran
<1>2. WorkOK' /\ SweepsAreDefinite'
  BY <1>1 DEF WorkOK, SweepsAreDefinite
<1>3. \A u, v \in tasks' : u.job = v.job /\ u.job.join = "join" => u = v
  BY <1>1 DEF OneVerdictEach
<1>4. ASSUME NEW c \in Conns
      PROVE  /\ c \in pending' => Asked(c)' \/ Told(c)'
             /\ ~(Asked(c)' /\ Told(c)')
             /\ Asked(c)' \/ Told(c)' => c \in pending' \/ link'[c] = "gone"
  <2>1. Told(c)' => Told(c)
    BY <1>1 DEF Told
  <2>2. Asked(c)' <=> Asked(c)
    BY <1>1 DEF Asked
  <2>3. t.job # JoinJob(c) => (Told(c) => Told(c)')
    BY <1>1 DEF Told
  <2>4. t.job = JoinJob(c) => ~Asked(c)' /\ ~Told(c)'
    <3>1. JoinJob(c).join = "join"
      BY DEF JoinJob
    <3>2. t.job = JoinJob(c) => Told(c)
      BY DEF Told
    <3>3. t.job = JoinJob(c) => \A u \in tasks' : u.job # JoinJob(c)
      BY <1>1, <3>1 DEF OneVerdictEach
    <3> QED BY <2>2, <3>2, <3>3 DEF OneVerdictEach, Told
  <2>5. CASE t.job = JoinJob(c)
    BY <2>4, <2>5
  <2>6. CASE t.job # JoinJob(c)
    BY <2>1, <2>2, <2>3, <2>6 DEF OneVerdictEach
  <2> QED BY <2>5, <2>6
<1>5. OneVerdictEach'
  BY <1>3, <1>4 DEF OneVerdictEach, RoomOK
<1> QED BY <1>2, <1>5

\* Steps that leave pending and the work alone, and bring nobody back.
LEMMA VerdictsSame ==
  ASSUME RoomOK, OneVerdictEach, pending' = pending, UNCHANGED work,
         \A c \in Conns : link[c] = "gone" => link'[c] = "gone"
  PROVE  OneVerdictEach'
  BY DEF OneVerdictEach, Asked, Told, work, RoomOK

-----------------------------------------------------------------------------
(* The initial state and every step. *)

\* It holds when the server comes up.
LEMMA InitIInv == ASSUME Init PROVE IInv
<1>1. Cardinality({}) = 0
  BY FS_EmptySet
<1>2. verifying \in BOOLEAN
  BY Zenon DEF Init
<1>3. RoomOK /\ RestOK /\ WorkOK
  BY ConstantsAssumption DEF Init, RoomOK, RestOK, WorkOK, Ranks, Standings
<1>4. NeverOverFull
  BY <1>1, ConstantsAssumption DEF Init, NeverOverFull
<1>5. NoGhosts /\ OneVerdictEach /\ SweepsAreDefinite
  BY DEF Init, NoGhosts, OneVerdictEach, SweepsAreDefinite, Asked, Told
<1> QED BY <1>2, <1>3, <1>4, <1>5, Parts

\* A connection's own steps, and a moderator's.
LEMMA ConnStep ==
  ASSUME IInv, NEW c \in Conns, ConnNext(c)
  PROVE  IInv'
<1>0. /\ verifying \in BOOLEAN /\ RoomOK /\ RestOK /\ WorkOK /\ RoomSound
      /\ OneVerdictEach /\ SweepsAreDefinite /\ NoGhosts
  BY Parts DEF RoomSound
<1>1. verifying' = verifying
  BY DEF ConnNext, Dial, Handshake, Drop, HandleAuthentication, KickCommand, BanCommand
<1>2. RestOK'
  <2>1. /\ UNCHANGED <<cache, standing, sinceSweep>>
        /\ banned' = banned \/ banned' = banned \cup {Owner[c]}
    BY DEF ConnNext, Dial, Handshake, Drop, HandleAuthentication, KickCommand, BanCommand
  <2> QED BY <2>1, <1>0, ConstantsAssumption DEF RestOK, cache
<1>3. CASE Ended(c) /\ UNCHANGED work
  <2>1. RoomSound' /\ OneVerdictEach'
    BY <1>0, <1>3, EndedSound, EndedVerdicts
  <2>2. WorkOK' /\ SweepsAreDefinite'
    BY <1>0, <1>3 DEF WorkOK, SweepsAreDefinite, work
  <2> QED BY <1>0, <1>1, <1>2, <2>1, <2>2, PartsNext DEF RoomSound
<1>4. CASE /\ link[c] \in {"new", "queued"}
           /\ \E s \in {"queued", "open"} : link' = [link EXCEPT ![c] = s]
           /\ UNCHANGED <<pending, players, rank, work>>
  <2>1. RoomSound'
    BY <1>0, <1>4 DEF RoomSound, RoomOK, NeverOverFull, NoGhosts, IsAlive
  <2>2. OneVerdictEach'
    <3>1. \A d \in Conns : link[d] = "gone" => link'[d] = "gone"
      BY <1>0, <1>4 DEF RoomOK
    <3> QED BY <1>0, <1>4, <3>1, VerdictsSame
  <2>3. WorkOK' /\ SweepsAreDefinite'
    BY <1>0, <1>4 DEF WorkOK, SweepsAreDefinite, work
  <2> QED BY <1>0, <1>1, <1>2, <2>1, <2>2, <2>3, PartsNext DEF RoomSound
<1>5. CASE IsAlive(c) /\ ~Full /\ AdmitPlayer(c, "player") /\ c \notin pending /\ UNCHANGED work
  <2>1. RoomSound'
    BY <1>0, <1>5, AdmitSound DEF Ranks
  <2>2. pending' = pending /\ link' = link
    BY <1>5 DEF AdmitPlayer
  <2>3. OneVerdictEach'
    BY <1>0, <1>5, <2>2, VerdictsSame
  <2>4. WorkOK' /\ SweepsAreDefinite'
    BY <1>0, <1>5 DEF WorkOK, SweepsAreDefinite, work
  <2> QED BY <1>0, <1>1, <1>2, <2>1, <2>3, <2>4, PartsNext DEF RoomSound
<1>6. CASE /\ IsAlive(c) /\ c \notin pending \cup players
           /\ pending' = pending \cup {c} /\ asking' = asking \cup {JoinJob(c)}
           /\ UNCHANGED <<link, players, rank, tasks>>
  <2>1. RoomSound'
    BY <1>0, <1>6 DEF RoomSound, RoomOK, NeverOverFull, NoGhosts, IsAlive
  <2>2. ~Asked(c) /\ ~Told(c)
    BY <1>0, <1>6 DEF OneVerdictEach, IsAlive
  <2>3. \A d \in Conns : JoinJob(d) = JoinJob(c) => d = c
    BY DEF JoinJob
  <2>4. \A d \in Conns : (Asked(d)' <=> Asked(d) \/ d = c) /\ (Told(d)' <=> Told(d))
    BY <1>6, <2>3 DEF Asked, Told
  <2>5. OneVerdictEach'
    BY <1>0, <1>6, <2>2, <2>4 DEF OneVerdictEach, RoomOK
  <2>6. WorkOK' /\ SweepsAreDefinite'
    BY <1>0, <1>6 DEF WorkOK, SweepsAreDefinite, Jobs, JoinJob
  <2> QED BY <1>0, <1>1, <1>2, <2>1, <2>5, <2>6, PartsNext DEF RoomSound
<1>7. QED
  <2>1. CASE Dial(c)
    BY <2>1, <1>4 DEF Dial
  <2>2. CASE Handshake(c)
    BY <2>2, <1>3, <1>4 DEF Handshake, Kick
  <2>3. CASE Drop(c)
    BY <2>3, <1>3 DEF Drop
  <2>4. CASE HandleAuthentication(c)
    <3>1. CASE Unfit(c)
      BY <2>4, <3>1, <1>3 DEF HandleAuthentication, Unfit, Deny, Kick, work
    <3>2. CASE AdmitUnverified(c)
      BY <2>4, <3>2, <1>3, <1>5 DEF HandleAuthentication, AdmitUnverified, Deny, Kick, work
    <3>3. CASE BeginVerify(c)
      BY <2>4, <3>3, <1>3, <1>6 DEF HandleAuthentication, BeginVerify, Deny, Kick, work
    <3> QED BY <2>4, <3>1, <3>2, <3>3 DEF HandleAuthentication
  <2>5. ASSUME NEW by \in Conns, KickCommand(by, c) \/ BanCommand(by, c) PROVE IInv'
    BY <2>5, <1>3 DEF KickCommand, BanCommand, Kick
  <2> QED BY <2>1, <2>2, <2>3, <2>4, <2>5 DEF ConnNext

\* A worker's answer.
LEMMA WorkerStep ==
  ASSUME IInv, NEW job \in asking, Worker(job)
  PROVE  IInv'
<1>0. /\ verifying \in BOOLEAN /\ RoomOK /\ RestOK /\ WorkOK /\ RoomSound
      /\ OneVerdictEach /\ SweepsAreDefinite
  BY Parts DEF RoomSound
<1>1. verifying' = verifying /\ UNCHANGED <<room, banned, standing, sinceSweep>>
  BY DEF Worker, FromCache, FromDiscord, NoAnswer, Report
<1>2. RoomSound'
  BY <1>0, <1>1, RoomSame
<1>3. job \in Jobs /\ job.conn \in Conns /\ Owner[job.conn] \in Accounts
  BY <1>0, ConstantsAssumption DEF WorkOK, Jobs
<1>4. RestOK'
  <2>1. CASE UNCHANGED cache
    BY <1>0, <1>1, <2>1 DEF RestOK, cache
  <2>2. ASSUME NEW a \in Accounts, standing[a] # Out,
               cached' = [cached EXCEPT ![a] = standing[a]],
               fresh' = [fresh EXCEPT ![a] = CacheMinutes]
        PROVE  RestOK'
    BY <1>0, <1>1, <2>2, ConstantsAssumption DEF RestOK, Standings
  <2>3. CASE FromDiscord(job)
    BY <1>3, <2>1, <2>2, <2>3 DEF FromDiscord
  <2> QED BY <2>1, <2>3 DEF Worker, FromCache, NoAnswer
<1>5. OneVerdictEach' /\ SweepsAreDefinite' /\ WorkOK'
  <2>1. ASSUME NEW v \in Verdicts, job.join = "sweep" => v \in Standings, Report(job, v)
        PROVE  OneVerdictEach' /\ SweepsAreDefinite' /\ WorkOK'
    BY <1>0, <2>1, ReportedVerdicts
  <2>2. CASE FromCache(job)
    <3>1. cached[Owner[job.conn]] \in Ranks
      BY <1>0, <1>3 DEF RestOK
    <3>2. Report(job, cached[Owner[job.conn]])
      BY <2>2 DEF FromCache
    <3> QED BY <2>1, <3>1, <3>2 DEF Verdicts, Standings
  <2>3. CASE FromDiscord(job)
    <3>1. standing[Owner[job.conn]] \in Standings
      BY <1>0, <1>3 DEF RestOK
    <3>2. Report(job, standing[Owner[job.conn]])
      BY <2>3 DEF FromDiscord
    <3> QED BY <2>1, <3>1, <3>2 DEF Verdicts
  <2>4. CASE NoAnswer(job) /\ job.join = "join"
    BY <2>1, <2>4 DEF NoAnswer, Verdicts
  <2>5. CASE NoAnswer(job) /\ job.join # "join"
    <3>1. asking' = asking \ {job} /\ tasks' = tasks /\ UNCHANGED <<link, pending>>
      BY <2>5 DEF NoAnswer, room
    <3>2. \A c \in Conns : JoinJob(c).join = "join"
      BY DEF JoinJob
    <3>3. \A c \in Conns : (Asked(c)' <=> Asked(c)) /\ (Told(c)' <=> Told(c))
      BY <2>5, <3>1, <3>2 DEF Asked, Told
    <3>4. OneVerdictEach'
      BY <1>0, <3>1, <3>3 DEF OneVerdictEach, RoomOK
    <3> QED BY <1>0, <3>1, <3>4 DEF WorkOK, SweepsAreDefinite
  <2> QED BY <2>2, <2>3, <2>4, <2>5 DEF Worker
<1> QED BY <1>0, <1>1, <1>2, <1>4, <1>5, PartsNext DEF RoomSound

\* FinishAuthentication: the one verdict of a join.
LEMMA FinishStep ==
  ASSUME IInv, NEW t \in tasks, FinishAuthentication(t)
  PROVE  IInv'
<1> DEFINE c == t.job.conn
<1>0. /\ verifying \in BOOLEAN /\ RoomOK /\ RestOK /\ WorkOK /\ RoomSound
      /\ OneVerdictEach /\ SweepsAreDefinite /\ NoGhosts
  BY Parts DEF RoomSound
<1>1. /\ UNCHANGED <<verifying, cache, banned, standing, sinceSweep>>
      /\ Ran(t) /\ Decided(c, t.verdict)
  BY DEF FinishAuthentication, Ran
<1>2. t.job \in Jobs /\ c \in Conns /\ t.job = JoinJob(c)
  BY <1>0 DEF WorkOK, Tasks, Jobs, JoinJob, FinishAuthentication
<1> HIDE DEF c
<1>3. RestOK'
  BY <1>0, <1>1 DEF RestOK, cache
<1>4. \A d \in Conns : t.job = JoinJob(d) => d = c
  BY <1>2 DEF JoinJob
<1>5. RoomSound' /\ pending' = pending \ {c} /\ \A d \in Conns : link[d] = "gone" => link'[d] = "gone"
  <2>1. CASE Deny(c)
    <3>1. Ended(c)
      BY <2>1 DEF Deny, Kick
    <3>2. pending' = pending \ {c} /\ \A d \in Conns : link[d] = "gone" => link'[d] = "gone"
      BY <1>0, <3>1 DEF Ended, RoomOK
    <3> QED BY <1>0, <1>2, <3>1, <3>2, EndedSound
  <2>2. CASE IsAlive(c) /\ ~Full /\ t.verdict \in Ranks /\ AdmitPlayer(c, t.verdict)
    <3>1. RoomSound'
      BY <1>0, <1>2, <2>2, AdmitSound
    <3> QED BY <2>2, <3>1 DEF AdmitPlayer
  <2>3. CASE pending' = pending \ {c} /\ UNCHANGED <<link, players, rank>>
    BY <1>0, <2>3 DEF RoomSound, RoomOK, NeverOverFull, NoGhosts, IsAlive
  <2> QED BY <1>1, <2>1, <2>2, <2>3 DEF Decided
<1>6. RoomOK' /\ pending' \subseteq pending
      /\ (\A d \in Conns : d \in pending /\ d \notin pending' => t.job = JoinJob(d) \/ link'[d] = "gone")
      /\ (\A d \in Conns : t.job = JoinJob(d) => d \notin pending')
  BY <1>2, <1>4, <1>5 DEF RoomSound
<1>7. OneVerdictEach' /\ SweepsAreDefinite' /\ WorkOK'
  BY <1>0, <1>1, <1>5, <1>6, RanVerdicts
<1> QED BY <1>0, <1>1, <1>3, <1>5, <1>7, PartsNext DEF RoomSound

\* The sweep's verdict on somebody who is, or was, in.
LEMMA ReverifyStep ==
  ASSUME IInv, NEW t \in tasks, FinishReverify(t)
  PROVE  IInv'
<1> DEFINE c == t.job.conn
<1>0. /\ verifying \in BOOLEAN /\ RoomOK /\ RestOK /\ WorkOK /\ RoomSound
      /\ OneVerdictEach /\ SweepsAreDefinite /\ NoGhosts
  BY Parts DEF RoomSound
<1>1. /\ UNCHANGED <<verifying, cache, banned, standing, sinceSweep>>
      /\ Ran(t) /\ Reverified(c, t.verdict)
  BY DEF FinishReverify, Ran
<1>2. c \in Conns /\ t.verdict \in Standings
  BY <1>0 DEF WorkOK, Tasks, Jobs, FinishReverify, SweepsAreDefinite
<1>3. \A d \in Conns : t.job # JoinJob(d)
  BY DEF FinishReverify, JoinJob
<1> HIDE DEF c
<1>4. RestOK'
  BY <1>0, <1>1 DEF RestOK, cache
<1>5. RoomSound' /\ pending' = pending /\ \A d \in Conns : link[d] = "gone" => link'[d] = "gone"
  <2>1. CASE Kick(c) /\ c \in players
    <3>1. Ended(c)
      BY <2>1 DEF Kick
    <3>2. pending' = pending /\ \A d \in Conns : link[d] = "gone" => link'[d] = "gone"
      BY <1>0, <2>1, <3>1 DEF Ended, RoomOK, NoGhosts
    <3> QED BY <1>0, <1>2, <3>1, <3>2, EndedSound
  <2>2. CASE UNCHANGED room
    BY <1>0, <2>2, RoomSame DEF room
  <2>3. CASE t.verdict # Out /\ rank' = [rank EXCEPT ![c] = t.verdict]
             /\ UNCHANGED <<link, pending, players>>
    BY <1>0, <1>2, <2>3 DEF RoomSound, RoomOK, NeverOverFull, NoGhosts, IsAlive, Standings
  <2> QED BY <1>1, <2>1, <2>2, <2>3 DEF Reverified
<1>6. OneVerdictEach' /\ SweepsAreDefinite' /\ WorkOK'
  <2>1. RoomOK' /\ pending' \subseteq pending
        /\ (\A d \in Conns : d \in pending /\ d \notin pending' => t.job = JoinJob(d) \/ link'[d] = "gone")
        /\ (\A d \in Conns : t.job = JoinJob(d) => d \notin pending')
    BY <1>3, <1>5 DEF RoomSound
  <2> QED BY <1>0, <1>1, <1>5, <2>1, RanVerdicts
<1> QED BY <1>0, <1>1, <1>4, <1>5, <1>6, PartsNext DEF RoomSound

\* The steps that touch neither the room nor anybody's join.
LEMMA QuietStep ==
  ASSUME IInv,
         \/ ReverifyPlayers
         \/ \E by \in Conns, a \in Accounts : UnbanCommand(by, a)
         \/ \E a \in Accounts : StandingChanges(a)
         \/ Tick
         \/ UNCHANGED vars
  PROVE  IInv'
<1>0. /\ verifying \in BOOLEAN /\ RoomOK /\ RestOK /\ WorkOK /\ RoomSound
      /\ OneVerdictEach /\ SweepsAreDefinite
  BY Parts DEF RoomSound
<1>1. verifying' = verifying /\ UNCHANGED room /\ tasks' = tasks
  BY DEF ReverifyPlayers, UnbanCommand, StandingChanges, Tick, vars, work
<1>2. RoomSound' /\ UNCHANGED <<link, pending>>
  BY <1>0, <1>1, RoomSame DEF room
<1>3. RestOK'
  <2>1. CASE ReverifyPlayers
    BY <1>0, <2>1, ConstantsAssumption DEF RestOK, ReverifyPlayers, cache
  <2>2. ASSUME NEW by \in Conns, NEW a \in Accounts, UnbanCommand(by, a) PROVE RestOK'
    BY <1>0, <2>2 DEF RestOK, UnbanCommand, cache
  <2>3. ASSUME NEW a \in Accounts, StandingChanges(a) PROVE RestOK'
    BY <1>0, <2>3 DEF RestOK, StandingChanges, cache
  <2>4. CASE Tick
    BY <1>0, <2>4, ConstantsAssumption DEF RestOK, Tick, Ranks
  <2>5. CASE UNCHANGED vars
    BY <1>0, <2>5 DEF RestOK, vars, cache
  <2> QED BY <2>1, <2>2, <2>3, <2>4, <2>5
<1>4. WorkOK' /\ SweepsAreDefinite' /\ \A c \in Conns : JoinJob(c) \in asking' <=> JoinJob(c) \in asking
  <2>1. CASE asking' = asking
    BY <1>0, <1>1, <2>1 DEF WorkOK, SweepsAreDefinite
  <2>2. CASE ReverifyPlayers
    <3>1. asking' = asking \cup {SweepJob(c) : c \in players} /\ players \subseteq Conns
      BY <1>0, <2>2 DEF ReverifyPlayers, RoomOK
    <3>2. \A c, d \in Conns : SweepJob(c) \in Jobs /\ SweepJob(c) # JoinJob(d)
      BY DEF SweepJob, JoinJob, Jobs
    <3> QED BY <1>0, <1>1, <3>1, <3>2 DEF WorkOK, SweepsAreDefinite
  <2> QED BY <2>1, <2>2 DEF UnbanCommand, StandingChanges, Tick, vars, work
<1>5. OneVerdictEach'
  <2>1. \A c \in Conns : (Asked(c)' <=> Asked(c)) /\ (Told(c)' <=> Told(c))
    BY <1>1, <1>4 DEF Asked, Told
  <2> QED BY <1>0, <1>1, <1>2, <2>1 DEF OneVerdictEach, RoomOK
<1> QED BY <1>0, <1>1, <1>2, <1>3, <1>4, <1>5, PartsNext DEF RoomSound

\* Every step keeps the invariant.
LEMMA NextIInv == IInv /\ [Next]_vars => IInv'
<1> SUFFICES ASSUME IInv, [Next]_vars PROVE IInv'
  OBVIOUS
<1>1. ASSUME NEW c \in Conns, ConnNext(c) PROVE IInv'
  BY <1>1, ConnStep
<1>2. ASSUME NEW job \in asking, Worker(job) PROVE IInv'
  BY <1>2, WorkerStep
<1>3. ASSUME NEW t \in tasks, Drain(t) PROVE IInv'
  BY <1>3, FinishStep, ReverifyStep DEF Drain
<1> QED BY <1>1, <1>2, <1>3, QuietStep DEF Next

\* For any connections, accounts, seats and times: never over the limit, no
\* ghosts, one verdict for each join, and no sweep acts on an outage.
THEOREM AdmissionIsSound == Spec => []IInv
<1>1. Init => IInv
  BY InitIInv
<1> QED BY <1>1, NextIInv, PTL DEF Spec

\* The promise of one step.
EarnedStep ==
  \A c \in players' \ players :
    /\ IsAlive(c)
    /\ verifying => c \in pending /\ Owner[c] \notin banned

\* Only AdmitPlayer lets anybody in, on a live connection: at once when Discord
\* is off, and through FinishAuthentication's checks when it is on.
LEMMA StepEarned == IInv /\ [Next]_vars => EarnedStep
<1> SUFFICES ASSUME IInv, [Next]_vars, NEW c \in players' \ players
             PROVE  IsAlive(c) /\ (verifying => c \in pending /\ Owner[c] \notin banned)
  BY DEF EarnedStep
<1>1. ASSUME NEW d \in Conns, ConnNext(d)
      PROVE  IsAlive(c) /\ (verifying => c \in pending /\ Owner[c] \notin banned)
  <2>1. HandleAuthentication(d) /\ AdmitUnverified(d) /\ AdmitPlayer(d, "player")
    BY <1>1
    DEF ConnNext, Dial, Handshake, Drop, HandleAuthentication, KickCommand, BanCommand,
        Kick, Deny, Ended, Unfit, AdmitUnverified, BeginVerify
  <2> QED BY <2>1 DEF HandleAuthentication, AdmitUnverified, AdmitPlayer
<1>2. ASSUME NEW t \in tasks, Drain(t)
      PROVE  IsAlive(c) /\ (verifying => c \in pending /\ Owner[c] \notin banned)
  BY <1>2
  DEF Drain, FinishAuthentication, FinishReverify, Decided, Reverified, AdmitPlayer, Deny,
      Kick, Ended, room
<1>3. ASSUME NEW job \in asking, Worker(job) PROVE FALSE
  BY <1>3 DEF Worker, FromCache, FromDiscord, NoAnswer, Report, room
<1>4. QED
  <2>1. ReverifyPlayers \/ Tick \/ UNCHANGED vars => players' = players
    BY DEF ReverifyPlayers, Tick, vars, room
  <2>2. (\E by \in Conns, a \in Accounts : UnbanCommand(by, a)) => players' = players
    BY DEF UnbanCommand, room
  <2>3. (\E a \in Accounts : StandingChanges(a)) => players' = players
    BY DEF StandingChanges, room
  <2> QED BY <1>1, <1>2, <1>3, <2>1, <2>2, <2>3 DEF Next

\* Nobody gets in but on a live connection that waited and whose account is not
\* banned at that moment.
THEOREM JoinsAreEarned == Spec => AdmissionIsEarned
<1>1. IInv /\ [Next]_vars => [EarnedStep]_vars
  BY StepEarned
<1> QED BY <1>1, AdmissionIsSound, PTL DEF Spec, AdmissionIsEarned, EarnedStep
=============================================================================
