----------------------------- MODULE Admission -----------------------------
(***************************************************************************)
(* Getting in and staying in: the transport's connections (Server.cpp),    *)
(* GameServer's authentication with the verification that waits on Discord *)
(* in a thread of its own, the sweep that asks again about everybody who   *)
(* is in, the cache both share, and the commands /kick, /ban and /unban.   *)
(*                                                                         *)
(* A connection id is never used twice and a person who comes back dials a *)
(* new one.  Handlers, tasks and commands run on the one game thread; a    *)
(* worker thread touches only the cache and the task queue.  Tasks are     *)
(* kept as a set, so they may run in any order: two workers race to add    *)
(* them anyway.  One minute is the unit of time.                           *)
(***************************************************************************)
EXTENDS Naturals, FiniteSets

CONSTANTS
  Conns,          \* connection ids
  Accounts,       \* Discord accounts
  Owner,          \* the account whose token a connection carries
  Staff,          \* the accounts that hold the admin role at first
  Changes,        \* bound: pairs <<a, s>>: a's standing may become s
  MaxPlayer,      \* m_config.MaxPlayer
  SweepMinutes,   \* ReverifyPlayers' 120 seconds
  CacheMinutes    \* kDiscordCacheTtl

ASSUME ConstantsAssumption ==
  /\ Owner \in [Conns -> Accounts]
  /\ IsFiniteSet(Conns)
  /\ Staff \subseteq Accounts
  /\ MaxPlayer \in Nat
  /\ SweepMinutes \in Nat \ {0} /\ CacheMinutes \in Nat

\* What Discord says of an account: not in the guild (or its token is dead), or
\* the permission level its roles resolve to.
Out == "out"
Ranks == {"player", "admin"}
Standings == Ranks \cup {Out}
Verdicts == Standings \cup {"unreachable"}

\* A question to Discord: on behalf of a join, or of the sweep.
Jobs == [conn : Conns, join : {"join", "sweep"}]
Tasks == [job : Jobs, verdict : Verdicts]

VARIABLES
  verifying,   \* m_config.Discord.Enabled
  link,        \* the transport's view of each connection
  pending,     \* m_pendingVerifies
  players,     \* PlayerManager's connections
  rank,        \* PlayerComponent::Level, of those who are players
  asking,      \* the worker threads' questions
  tasks,       \* the task queue
  cached,      \* m_discordCache: the identity an account's token last verified as
  fresh,       \* and the minutes it has left
  banned,      \* BanList
  standing,    \* what Discord would say now
  sinceSweep   \* minutes since m_lastReverify

room == <<link, pending, players, rank>>
work == <<asking, tasks>>
cache == <<cached, fresh>>
vars == <<verifying, room, work, cache, banned, standing, sinceSweep>>

-----------------------------------------------------------------------------
Init ==
  /\ verifying \in BOOLEAN
  /\ link = [c \in Conns |-> "new"]
  /\ pending = {} /\ players = {}
  /\ rank = [c \in Conns |-> "player"]
  /\ asking = {} /\ tasks = {}
  /\ cached = [a \in Accounts |-> "player"]
  /\ fresh = [a \in Accounts |-> 0]
  /\ banned = {}
  /\ standing = [a \in Accounts |-> IF a \in Staff THEN "admin" ELSE "player"]
  /\ sinceSweep = 0

IsAlive(c) == link[c] = "open"

Full == Cardinality(players) >= MaxPlayer

\* Server::Remove and GameServer::OnDisconnection; what else ends with a player
\* is in the modules of those parts.
Ended(c) ==
  /\ link' = [link EXCEPT ![c] = "gone"]
  /\ pending' = pending \ {c}
  /\ players' = players \ {c}
  /\ rank' = [rank EXCEPT ![c] = "player"]

\* Server::Kick.
Kick(c) == Ended(c)

\* Deny: the reason is sent, then the connection is kicked.
Deny(c) == Kick(c)

\* AdmitPlayer; Create gives a connection that has a player its own one back.
AdmitPlayer(c, level) ==
  /\ players' = players \cup {c}
  /\ rank' = [rank EXCEPT ![c] = level]
  /\ pending' = pending \ {c}
  /\ link' = link

-----------------------------------------------------------------------------
(* The transport. *)

Dial(c) ==
  /\ link[c] = "new"
  /\ link' = [link EXCEPT ![c] = "queued"]
  /\ UNCHANGED <<verifying, pending, players, rank, work, cache, banned, standing, sinceSweep>>

\* HandleHandshake: only a peer built against the same protocol gets in.
Handshake(c) ==
  /\ link[c] = "queued"
  /\ \/ /\ link' = [link EXCEPT ![c] = "open"]
        /\ UNCHANGED <<pending, players, rank>>
     \/ Kick(c)
  /\ UNCHANGED <<verifying, work, cache, banned, standing, sinceSweep>>

\* The peer closes, crashes or times out.
Drop(c) ==
  /\ link[c] \in {"queued", "open"}
  /\ Ended(c)
  /\ UNCHANGED <<verifying, work, cache, banned, standing, sinceSweep>>

-----------------------------------------------------------------------------
(* Authentication. *)

JoinJob(c) == [conn |-> c, join |-> "join"]
SweepJob(c) == [conn |-> c, join |-> "sweep"]

\* The protocol, password, manifest, digest or mods are not what is required.
Unfit(c) == Deny(c) /\ UNCHANGED asking

\* Without Discord nobody has an account, and everybody the lowest level.
AdmitUnverified(c) ==
  /\ ~verifying
  /\ IF Full THEN Deny(c) ELSE AdmitPlayer(c, "player")
  /\ UNCHANGED asking

BeginVerify(c) ==
  /\ verifying
  /\ IF Full
     THEN Deny(c) /\ UNCHANGED asking
     ELSE /\ pending' = pending \cup {c}
          /\ asking' = asking \cup {JoinJob(c)}
          /\ UNCHANGED <<link, players, rank>>

\* HandleAuthentication.  That nobody is asked about twice is the client's doing,
\* which sends one request per connection, when its clock first synchronises; the
\* server would take a second.
HandleAuthentication(c) ==
  /\ IsAlive(c) /\ c \notin pending \cup players
  /\ Unfit(c) \/ AdmitUnverified(c) \/ BeginVerify(c)
  /\ UNCHANGED <<verifying, tasks, cache, banned, standing, sinceSweep>>

-----------------------------------------------------------------------------
(* The workers. *)

Report(job, verdict) ==
  /\ asking' = asking \ {job}
  /\ tasks' = tasks \cup {[job |-> job, verdict |-> verdict]}
  /\ UNCHANGED <<verifying, room, banned, standing, sinceSweep>>

\* Wrong on purpose: an answer that is used stays fresh.
FromCacheRenewed(job) ==
  LET a == Owner[job.conn]
  IN  /\ job \in asking
      /\ fresh[a] > 0
      /\ Report(job, cached[a])
      /\ fresh' = [fresh EXCEPT ![a] = CacheMinutes]
      /\ UNCHANGED cached

\* VerifyDiscordToken with a fresh cached answer; only good ones are cached.
FromCache(job) ==
  LET a == Owner[job.conn]
  IN  /\ job \in asking
      /\ fresh[a] > 0
      /\ Report(job, cached[a])
      /\ UNCHANGED cache

\* VerifyDiscordToken, asking Discord: a good answer is remembered, unless the
\* guild was never asked for or need not know the account.
FromDiscord(job) ==
  LET a == Owner[job.conn]
  IN  /\ job \in asking
      /\ fresh[a] = 0
      /\ Report(job, standing[a])
      /\ \/ /\ standing[a] # Out
            /\ cached' = [cached EXCEPT ![a] = standing[a]]
            /\ fresh' = [fresh EXCEPT ![a] = CacheMinutes]
         \/ UNCHANGED cache

\* Wrong on purpose: the join passes over the connection too.
Unanswered(job) ==
  /\ job \in asking
  /\ fresh[Owner[job.conn]] = 0
  /\ asking' = asking \ {job}
  /\ UNCHANGED <<verifying, tasks, room, cache, banned, standing, sinceSweep>>

\* A timeout, an error, or a 429: the entry to fall back to was erased on the
\* way in, as it had expired.  The sweep passes over the connection.
NoAnswer(job) ==
  /\ job \in asking
  /\ fresh[Owner[job.conn]] = 0
  /\ IF job.join = "join"
     THEN Report(job, "unreachable")
     ELSE /\ asking' = asking \ {job}
          /\ UNCHANGED <<verifying, tasks, room, banned, standing, sinceSweep>>
  /\ UNCHANGED cache

-----------------------------------------------------------------------------
(* The game thread drains the queue. *)

\* Wrong on purpose: the seats were counted before Discord was asked.
DecidedEarly(c, verdict) ==
  IF c \notin pending \/ ~IsAlive(c)
  THEN pending' = pending \ {c} /\ UNCHANGED <<link, players, rank>>
  ELSE IF verdict \notin Ranks \/ Owner[c] \in banned
       THEN Deny(c)
       ELSE AdmitPlayer(c, verdict)

\* Wrong on purpose: the ban list is not asked.
DecidedUnlisted(c, verdict) ==
  IF c \notin pending \/ ~IsAlive(c)
  THEN pending' = pending \ {c} /\ UNCHANGED <<link, players, rank>>
  ELSE IF verdict \notin Ranks \/ Full
       THEN Deny(c)
       ELSE AdmitPlayer(c, verdict)

\* FinishAuthentication.
Decided(c, verdict) ==
  IF c \notin pending \/ ~IsAlive(c)
  THEN pending' = pending \ {c} /\ UNCHANGED <<link, players, rank>>
  ELSE IF verdict \notin Ranks \/ Owner[c] \in banned \/ Full
       THEN Deny(c)
       ELSE AdmitPlayer(c, verdict)

\* ReverifyPlayers' task.
Reverified(c, verdict) ==
  IF c \notin players THEN UNCHANGED room
  ELSE IF verdict = Out THEN Kick(c)
  ELSE /\ rank' = [rank EXCEPT ![c] = verdict]
       /\ UNCHANGED <<link, pending, players>>

Ran(t) ==
  /\ t \in tasks
  /\ tasks' = tasks \ {t}
  /\ UNCHANGED <<verifying, asking, cache, banned, standing, sinceSweep>>

FinishAuthentication(t) ==
  /\ t.job.join = "join"
  /\ Ran(t) /\ Decided(t.job.conn, t.verdict)

FinishReverify(t) ==
  /\ t.job.join = "sweep"
  /\ Ran(t) /\ Reverified(t.job.conn, t.verdict)

\* ReverifyPlayers: a worker for everybody who is in.
ReverifyPlayers ==
  /\ verifying
  /\ sinceSweep = SweepMinutes
  /\ sinceSweep' = 0
  /\ asking' = asking \cup {SweepJob(c) : c \in players}
  /\ UNCHANGED <<verifying, room, tasks, cache, banned, standing>>

-----------------------------------------------------------------------------
(* Moderation: the command names a player, and rank protects rank. *)

Outranks(by, c) ==
  /\ {by, c} \subseteq players
  /\ rank[by] = "admin" /\ rank[c] = "player"

KickCommand(by, c) ==
  /\ Outranks(by, c)
  /\ Kick(c)
  /\ UNCHANGED <<verifying, work, cache, banned, standing, sinceSweep>>

\* The account is listed, and the connection the name resolved to is kicked.
BanCommand(by, c) ==
  /\ Outranks(by, c)
  /\ banned' = banned \cup {Owner[c]}
  /\ Kick(c)
  /\ UNCHANGED <<verifying, work, cache, standing, sinceSweep>>

UnbanCommand(by, a) ==
  /\ by \in players /\ rank[by] = "admin"
  /\ a \in banned
  /\ banned' = banned \ {a}
  /\ UNCHANGED <<verifying, room, work, cache, standing, sinceSweep>>

-----------------------------------------------------------------------------
(* What the server does not decide. *)

\* An account leaves the guild, comes back, or its roles change.
StandingChanges(a) ==
  /\ verifying
  /\ \E s \in Standings \ {standing[a]} :
       <<a, s>> \in Changes /\ standing' = [standing EXCEPT ![a] = s]
  /\ UNCHANGED <<verifying, room, work, cache, banned, sinceSweep>>

\* A minute passes; what expires is erased before it is next looked up.
Tick ==
  /\ verifying
  /\ \/ sinceSweep < SweepMinutes
     \/ \E a \in Accounts : fresh[a] > 0
  /\ sinceSweep' = IF sinceSweep < SweepMinutes THEN sinceSweep + 1 ELSE sinceSweep
  /\ fresh' = [a \in Accounts |-> IF fresh[a] > 0 THEN fresh[a] - 1 ELSE 0]
  /\ cached' = [a \in Accounts |-> IF fresh[a] > 1 THEN cached[a] ELSE "player"]
  /\ UNCHANGED <<verifying, room, work, banned, standing>>

ConnNext(c) ==
  \/ Dial(c) \/ Handshake(c) \/ Drop(c) \/ HandleAuthentication(c)
  \/ \E by \in Conns : KickCommand(by, c) \/ BanCommand(by, c)

Worker(job) == FromCache(job) \/ FromDiscord(job) \/ NoAnswer(job)

Drain(t) == FinishAuthentication(t) \/ FinishReverify(t)

Next ==
  \/ \E c \in Conns : ConnNext(c)
  \/ \E job \in asking : Worker(job)
  \/ \E t \in tasks : Drain(t)
  \/ ReverifyPlayers
  \/ \E by \in Conns, a \in Accounts : UnbanCommand(by, a)
  \/ \E a \in Accounts : StandingChanges(a)
  \/ Tick

\* The threads answer, the server ticks and drains its queue, and a Discord
\* that the sweep asks again and again answers some time.
Fairness ==
  /\ \A c \in Conns :
       WF_vars(Worker(JoinJob(c))) /\ SF_vars(FromDiscord(SweepJob(c)))
  /\ \A c \in Conns :
       WF_vars(\E t \in {u \in tasks : u.job.conn = c} : Drain(t))
  /\ WF_vars(ReverifyPlayers) /\ WF_vars(Tick)

Spec == Init /\ [][Next]_vars /\ Fairness

-----------------------------------------------------------------------------
(* Invariants. *)

TypeOK ==
  /\ verifying \in BOOLEAN
  /\ link \in [Conns -> {"new", "queued", "open", "gone"}]
  /\ pending \subseteq Conns /\ players \subseteq Conns
  /\ rank \in [Conns -> Ranks]
  /\ asking \subseteq Jobs /\ tasks \subseteq Tasks
  /\ cached \in [Accounts -> Ranks]
  /\ fresh \in [Accounts -> 0 .. CacheMinutes]
  /\ banned \subseteq Accounts
  /\ standing \in [Accounts -> Standings]
  /\ sinceSweep \in 0 .. SweepMinutes

\* Two people racing for the last seat never both get it.
NeverOverFull == Cardinality(players) <= MaxPlayer

\* Nobody who has gone is still being verified or still plays, and a verdict
\* finds its connection either waiting or gone, never already in.
NoGhosts ==
  /\ \A c \in pending \cup players : IsAlive(c)
  /\ pending \cap players = {}

Asked(c) == JoinJob(c) \in asking
Told(c) == \E t \in tasks : t.job = JoinJob(c)

\* A join that waits has exactly one answer on its way, and a connection that is
\* in has none left that could throw it out again.
OneVerdictEach ==
  /\ \A c \in pending : Asked(c) \/ Told(c)
  /\ \A c \in Conns : ~(Asked(c) /\ Told(c))
  /\ \A t, u \in tasks : t.job = u.job /\ t.job.join = "join" => t = u
  /\ \A c \in Conns : Asked(c) \/ Told(c) => c \in pending \/ link[c] = "gone"

\* Only a connection that was in is swept, and an unreachable Discord is no
\* verdict on somebody who is playing.
SweepsAreDefinite ==
  \A t \in tasks : t.job.join = "sweep" => t.verdict \in Standings

IInv == TypeOK /\ NeverOverFull /\ NoGhosts /\ OneVerdictEach /\ SweepsAreDefinite

-----------------------------------------------------------------------------
(* Action and liveness properties. *)

\* Whoever gets in was waiting on a live connection, and its account, verified,
\* is not on the ban list at that moment - however long ago Discord was asked.
AdmissionIsEarned ==
  [][\A c \in players' \ players :
       /\ IsAlive(c)
       /\ verifying => c \in pending /\ Owner[c] \notin banned]_vars

\* Everybody who waits for Discord is answered, or leaves.
EverybodyIsAnswered == \A c \in Conns : c \in pending ~> c \notin pending

\* Who stops being a member for good is removed, the cache notwithstanding.
RevokedLeave ==
  \A c \in Conns : <>[](standing[Owner[c]] = Out) => <>[](c \notin players)
=============================================================================
