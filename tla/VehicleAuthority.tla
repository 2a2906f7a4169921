-------------------------- MODULE VehicleAuthority --------------------------
(***************************************************************************)
(* Who sits in which car and whose machine simulates it.                   *)
(*                                                                         *)
(* The server keeps a seat per puppet, a simulator per car (the parent of  *)
(* the entity) and an epoch that names the simulator's grant.  A client    *)
(* keeps its own idea of all three, corrected by reliable notices and      *)
(* reported by reliable requests, both in order per connection.  Movement  *)
(* is unreliable and unordered.  A handler is one step; what is in flight  *)
(* is what makes it hard.                                                  *)
(*                                                                         *)
(* Positions and ticks are left out: a movement packet is who sent it and  *)
(* under which grant, and one dropped for its tick is one that got lost.   *)
(***************************************************************************)
EXTENDS Integers, Sequences, FiniteSets

CONSTANTS
  People, Cars,      \* Cars: the entities there is room to create (a bound)
  Seats, Driver,     \* kVehicleSeats, kDriverSeat
  Rank,              \* the order of NextOccupant; equal for seats it does not list
  NoOne, NoCar, NoSeat,
  OwnCar,            \* the car of a client's own world, which has no mirror
  Unpaired,          \* own car remembered, its server id not known yet
  MaxRequests,       \* bound: requests in flight per connection
  MaxMail,           \* bound: nobody boards while more notices than this are on their way
  MaxMoves,          \* bound: movement packets in flight
  MaxHandovers,      \* bound: nobody boards once cars have changed hands so often
  Others             \* bound: whether cars of its own world are boarded other than
                     \* the one a client remembers

ASSUME ConstantsAssumption ==
  /\ Driver \in Seats
  /\ Rank \in [Seats -> Nat]
  /\ NoOne \notin People /\ NoSeat \notin Seats
  /\ {NoCar, OwnCar, Unpaired} \cap Cars = {}
  /\ NoCar # OwnCar /\ NoCar # Unpaired
  /\ {MaxRequests, MaxMail, MaxMoves, MaxHandovers} \subseteq Nat
  /\ Others \in BOOLEAN

VARIABLES
  online,      \* players with a connection
  embodied,    \* players whose puppet is in the world
  life,        \* per car entity: not created yet, there, destroyed
  seat,        \* AttachmentComponent of each player's puppet
  owner,       \* parent of each car
  epoch,       \* AuthorityComponent::Epoch
  shown,       \* per car, the grant of the last movement accepted
  requests,    \* per player, what its client sent reliably
  mail,        \* per player, what the server sent it
  moves,       \* movement packets in flight
  inWorld,     \* per client, whether its world is attached
  mirrors,     \* ServerIdRegistry: cars it has a network copy of
  simulates,   \* m_vehicleRemoteId
  grant,       \* m_authorityEpoch
  holds,       \* m_vehicleGameId
  mounted,     \* m_mountedServerId
  slot,        \* m_mountedSlot
  own          \* m_lastOwnVehicleServerId

ledger == <<life, owner, epoch>>
server == <<online, embodied, seat, ledger, shown>>
ride == <<simulates, holds, mounted, slot>>
client == <<inWorld, mirrors, ride, grant, own>>
vars == <<server, requests, mail, moves, client>>

OnFoot == [car |-> NoCar, at |-> NoSeat]
Places == [car : Cars, at : Seats]

Requests ==
  [kind : {"enter"}, car : Cars \cup {NoCar}, at : Seats] \cup
  [kind : {"exit", "leave", "spawn"}, car : Cars \cup {NoCar}, at : Seats \cup {NoSeat}]
Notices == [kind : {"assigned", "revoked"}, car : Cars, epoch : Nat]
Packets == [from : People, car : Cars, epoch : Nat]

Init ==
  /\ online = {} /\ embodied = {}
  /\ life = [c \in Cars |-> "unmade"]
  /\ seat = [p \in People |-> OnFoot]
  /\ owner = [c \in Cars |-> NoOne]
  /\ epoch = [c \in Cars |-> 0]
  /\ shown = [c \in Cars |-> 0]
  /\ requests = [p \in People |-> <<>>]
  /\ mail = [p \in People |-> <<>>]
  /\ moves = {}
  /\ inWorld = [p \in People |-> FALSE]
  /\ mirrors = [p \in People |-> {}]
  /\ simulates = [p \in People |-> NoCar]
  /\ grant = [p \in People |-> 0]
  /\ holds = [p \in People |-> NoCar]
  /\ mounted = [p \in People |-> NoCar]
  /\ slot = [p \in People |-> NoSeat]
  /\ own = [p \in People |-> NoCar]

-----------------------------------------------------------------------------
(* The server: authority. *)

Assigned(c, e) == [kind |-> "assigned", car |-> c, epoch |-> e]
Revoked(c, e) == [kind |-> "revoked", car |-> c, epoch |-> e]

\* Wrong on purpose: only a new simulator gets a new epoch, parking does not.
BumpsForHeirsOnly(c, new) ==
  IF owner[c] = new \/ new = NoOne THEN epoch[c] ELSE epoch[c] + 1

\* Wrong on purpose: the epoch is counted down.
CountsDown(c, new) == IF owner[c] = new THEN epoch[c] ELSE epoch[c] - 1

\* TransferAuthority: the epoch names the grant, so it changes with the owner.
NextEpoch(c, new) == IF owner[c] = new THEN epoch[c] ELSE epoch[c] + 1

\* Wrong on purpose: the previous simulator is told nothing.
OnlyAssigns(p, c, new) ==
  IF p = new THEN <<Assigned(c, NextEpoch(c, new))>> ELSE <<>>

\* TransferAuthority tells the old owner to stop and the new one to start; an
\* owner confirmed in place is told its epoch again.
Told(p, c, new) ==
  IF p = new THEN <<Assigned(c, NextEpoch(c, new))>>
  ELSE IF p = owner[c] THEN <<Revoked(c, NextEpoch(c, new))>>
  ELSE <<>>

TransferAuthority(c, new) ==
  /\ owner' = [owner EXCEPT ![c] = new]
  /\ epoch' = [epoch EXCEPT ![c] = NextEpoch(c, new)]
  /\ mail' = [p \in People |-> mail[p] \o Told(p, c, new)]

\* Wrong on purpose: people in any car are counted.
InsideAny(c, p) == {q \in People \ {p} : seat[q] # OnFoot}

Inside(c, p) == {q \in People \ {p} : seat[q].car = c}

\* Wrong on purpose: the car is left ownerless with people in it.
NobodyInherits(c, p) == {NoOne}

\* Wrong on purpose: the one who leaves is still counted as inside.
CountsTheLeaver(c, p) ==
  LET inside == {q \in People : seat[q].car = c}
  IN  IF inside = {} THEN {NoOne} ELSE inside

\* NextOccupant: whoever of the others inside sits first in the order, or nobody.
Heirs(c, p) ==
  LET others == Inside(c, p)
  IN  IF others = {} THEN {NoOne}
      ELSE {q \in others : \A r \in others : Rank[seat[q].at] <= Rank[seat[r].at]}

-----------------------------------------------------------------------------
(* The server: requests.                                                   *)
(* A client hears of a new car at once: a load only makes boarding         *)
(* possible, and nobody is obliged to board.                               *)

Asks(p, kind) ==
  /\ requests[p] # <<>> /\ Head(requests[p]).kind = kind
  /\ requests' = [requests EXCEPT ![p] = Tail(@)]

\* Wrong on purpose: any seat of a car can be taken by anybody.
NeverTaken(p, c, s) == FALSE

Taken(p, c, s) == \E q \in People \ {p} : seat[q] = [car |-> c, at |-> s]

\* A car of the requester's own world enters the network, from its driver's seat.
EnterNew(p) ==
  /\ Asks(p, "enter")
  /\ LET r == Head(requests[p])
     IN  /\ p \in embodied /\ r.car = NoCar /\ r.at = Driver
         /\ \E c \in Cars :
              /\ life[c] = "unmade"
              /\ life' = [life EXCEPT ![c] = "there"]
              /\ owner' = [owner EXCEPT ![c] = p]
              /\ seat' = [seat EXCEPT ![p] = [car |-> c, at |-> Driver]]
              /\ mail' = [mail EXCEPT ![p] = Append(@, Assigned(c, epoch[c]))]
              /\ mirrors' = [q \in People |->
                               IF inWorld[q] /\ q # p THEN mirrors[q] \cup {c}
                               ELSE mirrors[q]]
  /\ UNCHANGED <<online, embodied, epoch, shown, moves, inWorld, ride, grant, own>>

Admits(p, r) ==
  /\ p \in embodied
  /\ r.car # NoCar /\ life[r.car] = "there"
  /\ ~Taken(p, r.car, r.at)

\* Wrong on purpose: authority does not follow the driver's seat.
SitsDown(p, c, s) ==
  /\ seat' = [seat EXCEPT ![p] = [car |-> c, at |-> s]]
  /\ UNCHANGED <<owner, epoch, mail>>

\* The attachment replaces any other; the driver's seat comes with authority.
TakeSeat(p, c, s) ==
  /\ seat' = [seat EXCEPT ![p] = [car |-> c, at |-> s]]
  /\ IF s = Driver THEN TransferAuthority(c, p) ELSE UNCHANGED <<owner, epoch, mail>>

EnterKnown(p) ==
  /\ Asks(p, "enter")
  /\ LET r == Head(requests[p])
     IN  Admits(p, r) /\ TakeSeat(p, r.car, r.at)
  /\ UNCHANGED <<online, embodied, life, shown, moves, client>>

\* A passenger's seat of an unknown car, a taken seat or a car that is gone.
EnterRefused(p) ==
  /\ Asks(p, "enter")
  /\ LET r == Head(requests[p])
     IN  ~Admits(p, r) /\ ~(p \in embodied /\ r.car = NoCar /\ r.at = Driver)
  /\ UNCHANGED <<server, mail, moves, client>>

\* The stale-exit guard: the exit names a mount they do not currently have.  An
\* exit with a car names a seat with it, be it slot 0 (NoSeat).
Stale(p, r) ==
  /\ r.car # NoCar /\ seat[p] # OnFoot
  /\ seat[p] # [car |-> r.car, at |-> r.at]

\* HandleExitVehicleRequest: hand the car over if they simulated it, park it if
\* nobody is left inside.
Vacate(p, c) ==
  /\ seat' = [seat EXCEPT ![p] = OnFoot]
  /\ IF c # NoCar /\ (owner[c] = p \/ Inside(c, p) = {})
       THEN \E q \in Heirs(c, p) : TransferAuthority(c, q)
       ELSE UNCHANGED <<owner, epoch, mail>>

Exit(p) ==
  /\ Asks(p, "exit")
  /\ IF p \in embodied /\ ~Stale(p, Head(requests[p]))
       THEN Vacate(p, seat[p].car)
       ELSE UNCHANGED <<seat, owner, epoch, mail>>
  /\ UNCHANGED <<online, embodied, life, shown, moves, client>>

\* HandleLeaveWorldRequest destroys the puppet and asks nothing about its cars.
Leave(p) ==
  /\ Asks(p, "leave")
  /\ embodied' = embodied \ {p}
  /\ seat' = [seat EXCEPT ![p] = OnFoot]
  /\ UNCHANGED <<online, ledger, shown, mail, moves, client>>

\* A puppet, and every car in the world replayed to its client.
Spawn(p) ==
  /\ Asks(p, "spawn")
  /\ embodied' = embodied \cup {p}
  /\ mirrors' = [mirrors EXCEPT ![p] = {c \in Cars : life[c] = "there"}]
  /\ UNCHANGED <<online, seat, ledger, shown, mail, moves, inWorld, ride, grant, own>>

-----------------------------------------------------------------------------
(* The server: movement. *)

\* Wrong on purpose: being the simulator is enough, whatever the grant.
FromSimulator(m) == life[m.car] = "there" /\ owner[m.car] = m.from

Accepts(m) ==
  /\ life[m.car] = "there" /\ owner[m.car] = m.from
  /\ epoch[m.car] = m.epoch

HandleMove ==
  \E m \in moves :
    /\ moves' = moves \ {m}
    /\ shown' = IF Accepts(m) THEN [shown EXCEPT ![m.car] = m.epoch] ELSE shown
    /\ UNCHANGED <<online, embodied, seat, ledger, requests, mail, client>>

\* The network loses a packet.
Lose ==
  \E m \in moves :
    /\ moves' = moves \ {m}
    /\ UNCHANGED <<server, requests, mail, client>>

-----------------------------------------------------------------------------
(* The client. *)

Send(p, kind, c, s) ==
  /\ p \in online /\ Len(requests[p]) < MaxRequests
  /\ requests' = [requests EXCEPT ![p] =
                    Append(@, [kind |-> kind, car |-> c, at |-> s])]

CanBoard(p) ==
  /\ inWorld[p]
  /\ Cardinality({h \in Cars \X (1 .. MaxHandovers) : h[2] <= epoch[h[1]]}) < MaxHandovers
  /\ \A q \in People : Len(mail[q]) <= MaxMail

\* OnVehicleEnter for the network copy of a car.
BoardMirror(p) ==
  /\ CanBoard(p)
  /\ \E c \in mirrors[p], s \in Seats :
       /\ Send(p, "enter", c, s)
       /\ mounted' = [mounted EXCEPT ![p] = c]
       /\ slot' = [slot EXCEPT ![p] = s]
  /\ holds' = [holds EXCEPT ![p] = NoCar]
  /\ UNCHANGED <<server, mail, moves, inWorld, mirrors, simulates, grant, own>>

\* OnVehicleEnter for a car of its own world: the one it remembers joins the
\* entity, any other asks for a new one and is remembered instead.
BoardOwn(p) ==
  /\ CanBoard(p)
  /\ \E c \in {NoCar} \cup ({own[p]} \cap Cars), s \in Seats :
       /\ c = NoCar => Others \/ own[p] \notin Cars
       /\ Send(p, "enter", c, s)
       /\ mounted' = [mounted EXCEPT ![p] = c]
       /\ slot' = [slot EXCEPT ![p] = s]
       /\ own' = [own EXCEPT ![p] = IF c = NoCar THEN Unpaired ELSE c]
  /\ holds' = [holds EXCEPT ![p] = OwnCar]
  /\ UNCHANGED <<server, mail, moves, inWorld, mirrors, simulates, grant>>

\* OnVehicleExit; a repeat of it finds nothing to leave and sends nothing.
Alight(p) ==
  /\ \/ simulates[p] # NoCar \/ holds[p] # NoCar
     \/ mounted[p] # NoCar \/ slot[p] # NoSeat
  /\ LET c == IF mounted[p] # NoCar THEN mounted[p] ELSE simulates[p]
     IN  Send(p, "exit", c, IF c = NoCar THEN NoSeat ELSE slot[p])
  /\ simulates' = [simulates EXCEPT ![p] = NoCar]
  /\ holds' = [holds EXCEPT ![p] = NoCar]
  /\ mounted' = [mounted EXCEPT ![p] = NoCar]
  /\ slot' = [slot EXCEPT ![p] = NoSeat]
  /\ UNCHANGED <<server, mail, moves, inWorld, mirrors, grant, own>>

Receives(p, kind) ==
  /\ mail[p] # <<>> /\ Head(mail[p]).kind = kind
  /\ mail' = [mail EXCEPT ![p] = Tail(@)]

\* HandleAuthorityAssigned.  A network copy is woken up and held; the client's
\* own car learns its server id.
HandleAssigned(p) ==
  /\ Receives(p, "assigned")
  /\ LET n == Head(mail[p])
     IN  /\ simulates' = [simulates EXCEPT ![p] = n.car]
         /\ grant' = [grant EXCEPT ![p] = n.epoch]
         /\ IF n.car \in mirrors[p]
              THEN holds' = [holds EXCEPT ![p] = n.car] /\ UNCHANGED own
              ELSE /\ own' = [own EXCEPT ![p] = IF @ = Unpaired THEN n.car ELSE @]
                   /\ UNCHANGED holds
  /\ UNCHANGED <<server, requests, moves, inWorld, mirrors, mounted, slot>>

Relinquish(p, c) ==
  /\ own' = [own EXCEPT ![p] = IF @ = c THEN NoCar ELSE @]
  /\ simulates' = [simulates EXCEPT ![p] = IF @ = c THEN NoCar ELSE @]

\* HandleAuthorityRevoked; what the client holds, it goes on holding.
HandleRevoked(p) ==
  /\ Receives(p, "revoked")
  /\ Relinquish(p, Head(mail[p]).car)
  /\ UNCHANGED <<server, requests, moves, inWorld, mirrors, holds, mounted, slot,
                 grant>>

\* UpdatePlayerLocation streams the car it both holds and simulates.
Stream(p) ==
  /\ p \in online /\ inWorld[p]
  /\ simulates[p] # NoCar /\ holds[p] # NoCar
  /\ Cardinality(moves) < MaxMoves
  /\ moves' = moves \cup {[from |-> p, car |-> simulates[p], epoch |-> grant[p]]}
  /\ UNCHANGED <<server, requests, mail, client>>

\* OnDisconnected, which also runs when the world detaches.  What the client
\* remembers of its own car stays.
DropVehicleState(p) ==
  /\ inWorld' = [inWorld EXCEPT ![p] = FALSE]
  /\ mirrors' = [mirrors EXCEPT ![p] = {}]
  /\ simulates' = [simulates EXCEPT ![p] = NoCar]
  /\ grant' = [grant EXCEPT ![p] = 0]
  /\ holds' = [holds EXCEPT ![p] = NoCar]
  /\ mounted' = [mounted EXCEPT ![p] = NoCar]
  /\ slot' = [slot EXCEPT ![p] = NoSeat]
  /\ UNCHANGED own

\* Back to the selector, still connected.
LeaveWorld(p) ==
  /\ inWorld[p]
  /\ Send(p, "leave", NoCar, NoSeat)
  /\ DropVehicleState(p)
  /\ UNCHANGED <<server, mail, moves>>

\* Loading a world takes long enough to hear everything first.
EnterWorld(p) ==
  /\ ~inWorld[p] /\ mail[p] = <<>>
  /\ Send(p, "spawn", NoCar, NoSeat)
  /\ inWorld' = [inWorld EXCEPT ![p] = TRUE]
  /\ UNCHANGED <<server, mail, moves, mirrors, ride, grant, own>>

-----------------------------------------------------------------------------
(* Connections. *)

Connect(p) ==
  /\ p \notin online
  /\ online' = online \cup {p}
  /\ UNCHANGED <<embodied, seat, ledger, shown, requests, mail, moves, client>>

\* Everything p simulated goes to somebody inside it or is parked.
HandOver(p, heir) ==
  LET mine == {c \in Cars : owner[c] = p}
      NoticeTo(q) == {c \in mine : heir[c] = q}
  IN  /\ owner' = [c \in Cars |-> IF c \in mine THEN heir[c] ELSE owner[c]]
      /\ epoch' = [c \in Cars |-> IF c \in mine THEN NextEpoch(c, heir[c]) ELSE epoch[c]]
      /\ mail' = [q \in People |->
                    IF q = p THEN <<>>
                    ELSE IF NoticeTo(q) = {} THEN mail[q]
                    ELSE LET c == CHOOSE c \in NoticeTo(q) : TRUE
                         IN  Append(mail[q], Assigned(c, NextEpoch(c, heir[c])))]

\* OnDisconnection, RemoveOwnedVehicles and, for the last one out,
\* ClearAbandonedVehicles.  What the connection carried is lost.
Disconnect(p) ==
  /\ p \in online
  /\ online' = online \ {p}
  /\ embodied' = embodied \ {p}
  /\ seat' = [seat EXCEPT ![p] = OnFoot]
  /\ \E heir \in [Cars -> People \cup {NoOne}] :
       /\ \A c \in Cars : heir[c] \in Heirs(c, p)
       /\ HandOver(p, heir)
  /\ life' = IF online = {p}
               THEN [c \in Cars |-> IF life[c] = "there" THEN "gone" ELSE life[c]]
               ELSE life
  /\ requests' = [requests EXCEPT ![p] = <<>>]
  /\ moves' = {m \in moves : m.from # p}
  /\ DropVehicleState(p)
  /\ UNCHANGED shown

-----------------------------------------------------------------------------

Next ==
  \/ HandleMove \/ Lose
  \/ \E p \in People :
       \/ EnterNew(p) \/ EnterKnown(p) \/ EnterRefused(p)
       \/ Exit(p) \/ Leave(p) \/ Spawn(p)
       \/ BoardMirror(p) \/ BoardOwn(p) \/ Alight(p)
       \/ HandleAssigned(p) \/ HandleRevoked(p)
       \/ Stream(p) \/ LeaveWorld(p) \/ EnterWorld(p)
       \/ Connect(p) \/ Disconnect(p)

Spec == Init /\ [][Next]_vars

-----------------------------------------------------------------------------
(* Properties. *)

TypeOK ==
  /\ embodied \subseteq online /\ online \subseteq People
  /\ life \in [Cars -> {"unmade", "there", "gone"}]
  /\ seat \in [People -> Places \cup {OnFoot}]
  /\ owner \in [Cars -> People \cup {NoOne}]
  /\ epoch \in [Cars -> Nat]
  /\ shown \in [Cars -> Nat]
  /\ requests \in [People -> Seq(Requests)]
  /\ mail \in [People -> Seq(Notices)]
  /\ moves \subseteq Packets
  /\ inWorld \in [People -> BOOLEAN]
  /\ mirrors \in [People -> SUBSET Cars]
  /\ simulates \in [People -> Cars \cup {NoCar}]
  /\ grant \in [People -> Nat]
  /\ holds \in [People -> Cars \cup {NoCar, OwnCar}]
  /\ mounted \in [People -> Cars \cup {NoCar}]
  /\ slot \in [People -> Seats \cup {NoSeat}]
  /\ own \in [People -> Cars \cup {NoCar, Unpaired}]

\* One person per seat, however two requests for it cross (Level.cpp, "One
\* person per seat").
OnePersonPerSeat ==
  \A p, q \in People : p # q /\ seat[p] # OnFoot => seat[p] # seat[q]

\* "The driver's machine simulates the car": whoever sits at the wheel is the
\* simulator, whatever others do with the car (AttachmentComponent.cpp).
DriverSimulates ==
  \A p \in People : seat[p].at = Driver => owner[seat[p].car] = p

\* A car is simulated by a machine that is connected: nobody takes a car with
\* them when their connection ends (RemoveOwnedVehicles).
SimulatorsAreOnline == \A c \in Cars : owner[c] # NoOne => owner[c] \in online

\* Who sits where and who simulates agree, whatever requests, departures and
\* notices cross: the three together, with the types.
SeatsSound == TypeOK /\ OnePersonPerSeat /\ DriverSimulates /\ SimulatorsAreOnline

\* A packet of a previous simulator is recognisable as stale: whatever is in
\* flight under the current epoch comes from the current simulator, and so
\* will whatever a client still sends (HandleMoveEntityRequest).
LatePacketsAreStale ==
  /\ \A m \in moves : m.epoch = epoch[m.car] => m.from = owner[m.car]
  /\ \A p \in People :
       simulates[p] # NoCar /\ grant[p] = epoch[simulates[p]]
         => owner[simulates[p]] = p

\* Once a client has heard everything, it simulates nothing that is not its to
\* simulate: two machines cannot settle on one car.
NobodySimulatesInVain ==
  \A p \in People :
    mail[p] = <<>> /\ simulates[p] # NoCar => owner[simulates[p]] = p

\* What is shown of a car never goes back to an earlier grant.
NoEarlierGrantShown ==
  [][\A c \in Cars : shown'[c] >= shown[c]]_vars

\* A car changes hands only to somebody who sits in it, at the wheel if they
\* asked for it and wherever they sit if they inherit it, or to nobody.
HeirsSitInside ==
  [][\A c \in Cars :
       owner'[c] # owner[c] /\ owner'[c] # NoOne => seat'[owner'[c]].car = c]_vars

\* A car that nobody simulates any more has been left by everybody at once:
\* handing over and parking never take a simulator from the people inside.
ParkedOnlyWhenEmpty ==
  [][\A c \in Cars :
       owner'[c] # owner[c] /\ owner'[c] = NoOne
         => \A p \in People : seat'[p].car # c]_vars
=============================================================================
