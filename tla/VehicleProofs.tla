---------------------------- MODULE VehicleProofs ----------------------------
(***************************************************************************)
(* Theorems about VehicleAuthority for every set of players, cars and      *)
(* seats.                                                                  *)
(*                                                                         *)
(* The argument: a grant is a car and an epoch.  Every grant that is on    *)
(* its way, believed or stamped on a packet is either the current one and  *)
(* its bearer is the owner, or an earlier one; and whoever still believes  *)
(* in, or will be told of, a car that is not theirs has the revocation     *)
(* behind it in their mail.                                                *)
(***************************************************************************)
EXTENDS VehicleAuthority, SequenceTheorems, TLAPS

\* A puppet that sits is in the world; requests come from connections.
Riders ==
  /\ \A p \in People : seat[p] # OnFoot => p \in embodied
  /\ \A p \in People : requests[p] # <<>> => p \in online

\* Nobody has anything to do with an entity before it is made.
UnmadeUntouched ==
  \A c \in Cars :
    life[c] = "unmade" => /\ owner[c] = NoOne
                          /\ \A p \in People : seat[p].car # c

\* A grant of c to p under epoch e, current or over.
Granted(p, c, e) ==
  /\ life[c] # "unmade"
  /\ e <= epoch[c]
  /\ e = epoch[c] => owner[c] = p

IsAssigned(n) == n.kind = "assigned"
Revokes(n, c) == n.kind = "revoked" /\ n.car = c

GrantsOf(p) ==
  /\ \A i \in 1 .. Len(mail[p]) :
       IsAssigned(mail[p][i]) => Granted(p, mail[p][i].car, mail[p][i].epoch)
  /\ simulates[p] # NoCar => Granted(p, simulates[p], grant[p])

\* What p believes or is about to believe, and should not, is revoked later.
RevokesOf(p) ==
  /\ \A i \in 1 .. Len(mail[p]) :
       IsAssigned(mail[p][i]) /\ owner[mail[p][i].car] # p
         => \E j \in i + 1 .. Len(mail[p]) : Revokes(mail[p][j], mail[p][i].car)
  /\ simulates[p] # NoCar /\ owner[simulates[p]] # p
       => \E j \in 1 .. Len(mail[p]) : Revokes(mail[p][j], simulates[p])

Listens(p) == GrantsOf(p) /\ RevokesOf(p)

PacketsGranted == \A m \in moves : Granted(m.from, m.car, m.epoch)

ShownUnderAGrant == \A c \in Cars : shown[c] <= epoch[c]

Seating == Riders /\ UnmadeUntouched /\ OnePersonPerSeat /\ DriverSimulates
           /\ SimulatorsAreOnline

Grants == (\A p \in People : Listens(p)) /\ PacketsGranted /\ ShownUnderAGrant

IInv == TypeOK /\ Seating /\ Grants

-----------------------------------------------------------------------------

\* A transfer leaves the ledger and the mail well formed.
LEMMA TransferType ==
  ASSUME TypeOK, NEW c \in Cars, NEW new \in People \cup {NoOne},
         TransferAuthority(c, new)
  PROVE  /\ owner' \in [Cars -> People \cup {NoOne}]
         /\ epoch' \in [Cars -> Nat]
         /\ mail' \in [People -> Seq(Notices)]
<1>1. NextEpoch(c, new) \in Nat
  BY DEF TypeOK, NextEpoch
<1>2. owner' \in [Cars -> People \cup {NoOne}] /\ epoch' \in [Cars -> Nat]
  BY <1>1 DEF TypeOK, TransferAuthority
<1>3. ASSUME NEW p \in People PROVE Told(p, c, new) \in Seq(Notices)
  <2>1. Assigned(c, NextEpoch(c, new)) \in Notices /\ Revoked(c, NextEpoch(c, new)) \in Notices
    BY <1>1 DEF Assigned, Revoked, Notices
  <2> HIDE DEF Notices
  <2> QED BY <2>1 DEF Told
<1>4. ASSUME NEW p \in People PROVE mail[p] \o Told(p, c, new) \in Seq(Notices)
  <2>1. mail[p] \in Seq(Notices) BY DEF TypeOK
  <2> HIDE DEF Notices
  <2> QED BY <1>3, <2>1
<1> QED BY <1>2, <1>4 DEF TransferAuthority

\* Who inherits is a player inside or nobody.
LEMMA HeirsType ==
  ASSUME NEW c, NEW p, NEW q \in Heirs(c, p)
  PROVE  /\ q \in People \cup {NoOne}
         /\ q = NoOne \/ (q \in People /\ q # p /\ seat[q].car = c)
         /\ q = NoOne /\ NoOne \notin People => Inside(c, p) = {}
BY DEF Heirs, Inside

\* The head of a queue of requests is a request from a connection, and one to
\* enter names a seat.
LEMMA AsksType ==
  ASSUME TypeOK, Riders, NEW p \in People, NEW k, Asks(p, k)
  PROVE  /\ Head(requests[p]).car \in Cars \cup {NoCar}
         /\ k = "enter" => Head(requests[p]).at \in Seats
         /\ requests' \in [People -> Seq(Requests)]
         /\ p \in online
         /\ \A q \in People : requests'[q] # <<>> => q \in online
<1>1. requests \in [People -> Seq(Requests)] /\ requests[p] \in Seq(Requests)
  BY DEF TypeOK
<1>2. Head(requests[p]) \in Requests /\ Head(requests[p]).kind = k
  <2> HIDE DEF Requests
  <2> QED BY <1>1 DEF Asks
<1>3. /\ Head(requests[p]).car \in Cars \cup {NoCar}
      /\ k = "enter" => Head(requests[p]).at \in Seats
  BY <1>2 DEF Requests
<1>4. /\ requests' \in [People -> Seq(Requests)]
      /\ p \in online
      /\ \A q \in People : requests'[q] # <<>> => q \in online
  <2> HIDE DEF Requests
  <2> QED BY <1>1 DEF Asks, Riders
<1> QED BY <1>3, <1>4

\* Sending appends a request, over a connection.
LEMMA SendType ==
  ASSUME TypeOK, Riders, NEW p \in People, NEW k \in {"enter", "exit", "leave", "spawn"},
         NEW c \in Cars \cup {NoCar}, NEW s \in Seats \cup {NoSeat}, Send(p, k, c, s),
         k = "enter" => s \in Seats
  PROVE  /\ requests' \in [People -> Seq(Requests)]
         /\ p \in online
         /\ \A q \in People : requests'[q] # <<>> => q \in online
<1>1. requests \in [People -> Seq(Requests)] /\ requests[p] \in Seq(Requests)
  BY DEF TypeOK
<1>2. [kind |-> k, car |-> c, at |-> s] \in Requests
  BY DEF Requests
<1> HIDE DEF Requests
<1> QED BY <1>1, <1>2 DEF Send, Riders

\* The head of the mail is a notice.
LEMMA ReceivesType ==
  ASSUME TypeOK, NEW p \in People, NEW k, Receives(p, k)
  PROVE  /\ Head(mail[p]) \in Notices /\ Head(mail[p]).kind = k
         /\ mail' \in [People -> Seq(Notices)]
         /\ mail[p] # <<>> /\ mail'[p] = Tail(mail[p])
         /\ \A q \in People \ {p} : mail'[q] = mail[q]
<1>1. mail \in [People -> Seq(Notices)] /\ mail[p] \in Seq(Notices)
  BY DEF TypeOK
<1> HIDE DEF Notices
<1> QED BY <1>1 DEF Receives

-----------------------------------------------------------------------------
(* Type correctness, an action at a time. *)

\* The handlers of requests keep every variable in its type.
LEMMA ServerTypes ==
  ASSUME TypeOK, Riders, NEW p \in People,
         EnterNew(p) \/ EnterKnown(p) \/ EnterRefused(p) \/ Exit(p) \/ Leave(p) \/ Spawn(p)
  PROVE  TypeOK'
<1> USE ConstantsAssumption
<1>1. CASE EnterNew(p)
  <2>1. PICK c \in Cars :
          /\ life' = [life EXCEPT ![c] = "there"]
          /\ owner' = [owner EXCEPT ![c] = p]
          /\ seat' = [seat EXCEPT ![p] = [car |-> c, at |-> Driver]]
          /\ mail' = [mail EXCEPT ![p] = Append(@, Assigned(c, epoch[c]))]
          /\ mirrors' = [q \in People |-> IF inWorld[q] /\ q # p THEN mirrors[q] \cup {c}
                                          ELSE mirrors[q]]
    BY <1>1 DEF EnterNew
  <2>2. seat' \in [People -> Places \cup {OnFoot}]
    <3>1. [car |-> c, at |-> Driver] \in Places BY DEF Places
    <3> HIDE DEF Places
    <3> QED BY <2>1, <3>1 DEF TypeOK
  <2>3. mail' \in [People -> Seq(Notices)]
    <3>1. Assigned(c, epoch[c]) \in Notices BY DEF Assigned, Notices, TypeOK
    <3> HIDE DEF Notices
    <3>2. mail[p] \in Seq(Notices) BY DEF TypeOK
    <3>3. Append(mail[p], Assigned(c, epoch[c])) \in Seq(Notices) BY <3>1, <3>2
    <3> QED BY <2>1, <3>3 DEF TypeOK
  <2>4. requests' \in [People -> Seq(Requests)] BY <1>1, AsksType DEF EnterNew
  <2>5. life' \in [Cars -> {"unmade", "there", "gone"}] /\ owner' \in [Cars -> People \cup {NoOne}]
        /\ mirrors' \in [People -> SUBSET Cars]
    BY <2>1 DEF TypeOK
  <2> QED BY <1>1, <2>2, <2>3, <2>4, <2>5 DEF EnterNew, TypeOK, ride
<1>2. CASE EnterKnown(p)
  <2> DEFINE r == Head(requests[p])
  <2>1. r.car \in Cars \cup {NoCar} /\ r.at \in Seats /\ requests' \in [People -> Seq(Requests)]
    BY <1>2, AsksType DEF EnterKnown
  <2>2. r.car \in Cars /\ TakeSeat(p, r.car, r.at)
    BY <1>2, <2>1 DEF EnterKnown, Admits
  <2>3. seat' \in [People -> Places \cup {OnFoot}]
    <3>1. [car |-> r.car, at |-> r.at] \in Places BY <2>1, <2>2 DEF Places
    <3> HIDE DEF r, Places
    <3> QED BY <2>2, <3>1 DEF TypeOK, TakeSeat
  <2>4. /\ owner' \in [Cars -> People \cup {NoOne}]
        /\ epoch' \in [Cars -> Nat]
        /\ mail' \in [People -> Seq(Notices)]
    BY <2>2, TransferType DEF TakeSeat, TypeOK
  <2> HIDE DEF r
  <2> QED BY <1>2, <2>1, <2>3, <2>4 DEF EnterKnown, TypeOK, client, ride
<1>3. CASE EnterRefused(p)
  BY <1>3, AsksType DEF EnterRefused, TypeOK, server, ledger, client, ride
<1>4. CASE Exit(p)
  <2>1. requests' \in [People -> Seq(Requests)]
    BY <1>4, AsksType DEF Exit
  <2>2. CASE UNCHANGED <<seat, owner, epoch, mail>>
    BY <1>4, <2>1, <2>2 DEF Exit, TypeOK, client, ride
  <2>3. CASE Vacate(p, seat[p].car)
    <3>1. seat[p].car \in Cars \cup {NoCar}
      BY DEF TypeOK, Places, OnFoot
    <3>2. /\ owner' \in [Cars -> People \cup {NoOne}]
          /\ epoch' \in [Cars -> Nat]
          /\ mail' \in [People -> Seq(Notices)]
      BY <2>3, <3>1, TransferType, HeirsType DEF Vacate, TypeOK
    <3>3. seat' \in [People -> Places \cup {OnFoot}]
      BY <2>3 DEF Vacate, TypeOK
    <3> QED BY <1>4, <2>1, <3>2, <3>3 DEF Exit, TypeOK, client, ride
  <2> QED BY <1>4, <2>2, <2>3 DEF Exit
<1>5. CASE Leave(p)
  BY <1>5, AsksType DEF Leave, TypeOK, ledger, client, ride
<1>6. CASE Spawn(p)
  BY <1>6, AsksType DEF Spawn, TypeOK, ledger, ride
<1> QED BY <1>1, <1>2, <1>3, <1>4, <1>5, <1>6

\* What a client does, and what the network does, keeps every variable in its type.
LEMMA ClientTypes ==
  ASSUME TypeOK, Riders, NEW p \in People,
         \/ HandleMove \/ Lose \/ BoardMirror(p) \/ BoardOwn(p) \/ Alight(p)
         \/ HandleAssigned(p) \/ HandleRevoked(p) \/ Stream(p)
         \/ LeaveWorld(p) \/ EnterWorld(p) \/ Connect(p)
  PROVE  TypeOK'
<1> USE ConstantsAssumption
<1>1. CASE HandleMove
  <2>1. PICK m \in moves :
          /\ moves' = moves \ {m}
          /\ shown' = IF Accepts(m) THEN [shown EXCEPT ![m.car] = m.epoch] ELSE shown
    BY <1>1 DEF HandleMove
  <2>2. m.epoch \in Nat BY DEF TypeOK, Packets
  <2>3. shown' \in [Cars -> Nat] BY <2>1, <2>2 DEF TypeOK
  <2>4. moves' \subseteq Packets BY <2>1 DEF TypeOK
  <2> HIDE DEF Packets
  <2> QED BY <1>1, <2>3, <2>4 DEF HandleMove, TypeOK, ledger, client, ride
<1>2. CASE Lose
  BY <1>2 DEF Lose, TypeOK, server, ledger, client, ride
<1>3. CASE BoardMirror(p)
  <2>1. PICK c \in mirrors[p], s \in Seats :
          /\ Send(p, "enter", c, s)
          /\ mounted' = [mounted EXCEPT ![p] = c]
          /\ slot' = [slot EXCEPT ![p] = s]
    BY <1>3 DEF BoardMirror
  <2>2. c \in Cars BY DEF TypeOK
  <2>3. requests' \in [People -> Seq(Requests)] BY <2>1, <2>2, SendType
  <2> QED BY <1>3, <2>1, <2>2, <2>3 DEF BoardMirror, TypeOK, server, ledger
<1>4. CASE BoardOwn(p)
  <2>1. PICK c \in Cars \cup {NoCar}, s \in Seats :
          /\ Send(p, "enter", c, s)
          /\ mounted' = [mounted EXCEPT ![p] = c]
          /\ slot' = [slot EXCEPT ![p] = s]
          /\ own' = [own EXCEPT ![p] = IF c = NoCar THEN Unpaired ELSE c]
    BY <1>4 DEF BoardOwn
  <2>2. requests' \in [People -> Seq(Requests)] BY <2>1, SendType
  <2>3. (IF c = NoCar THEN Unpaired ELSE c) \in Cars \cup {NoCar, Unpaired} OBVIOUS
  <2> QED BY <1>4, <2>1, <2>2, <2>3 DEF BoardOwn, TypeOK, server, ledger
<1>5. CASE Alight(p)
  <2>1. PICK c \in Cars \cup {NoCar}, s \in Seats \cup {NoSeat} : Send(p, "exit", c, s)
    BY <1>5 DEF Alight, TypeOK
  <2>2. requests' \in [People -> Seq(Requests)] BY <2>1, SendType
  <2> QED BY <1>5, <2>2 DEF Alight, TypeOK, server, ledger
<1>6. CASE HandleAssigned(p)
  <2> DEFINE n == Head(mail[p])
  <2>1. n \in Notices /\ mail' \in [People -> Seq(Notices)]
    BY <1>6, ReceivesType DEF HandleAssigned
  <2>2. n.car \in Cars /\ n.epoch \in Nat BY <2>1 DEF Notices
  <2>3. /\ simulates' = [simulates EXCEPT ![p] = n.car]
        /\ grant' = [grant EXCEPT ![p] = n.epoch]
        /\ holds' = [holds EXCEPT ![p] = n.car] \/ UNCHANGED holds
        /\ own' = [own EXCEPT ![p] = IF @ = Unpaired THEN n.car ELSE @] \/ UNCHANGED own
    BY <1>6 DEF HandleAssigned
  <2> HIDE DEF n
  <2> QED BY <1>6, <2>1, <2>2, <2>3 DEF HandleAssigned, TypeOK, server, ledger
<1>7. CASE HandleRevoked(p)
  <2>1. mail' \in [People -> Seq(Notices)] BY <1>7, ReceivesType DEF HandleRevoked
  <2>2. PICK c : Relinquish(p, c) BY <1>7 DEF HandleRevoked
  <2>3. /\ simulates' \in [People -> Cars \cup {NoCar}]
        /\ own' \in [People -> Cars \cup {NoCar, Unpaired}]
    BY <2>2 DEF Relinquish, TypeOK
  <2> QED BY <1>7, <2>1, <2>3 DEF HandleRevoked, TypeOK, server, ledger
<1>8. CASE Stream(p)
  <2>1. [from |-> p, car |-> simulates[p], epoch |-> grant[p]] \in Packets
    BY <1>8 DEF Stream, TypeOK, Packets
  <2> HIDE DEF Packets
  <2> QED BY <1>8, <2>1 DEF Stream, TypeOK, server, ledger, client, ride
<1>9. CASE LeaveWorld(p)
  <2>1. requests' \in [People -> Seq(Requests)] BY <1>9, SendType DEF LeaveWorld
  <2> QED BY <1>9, <2>1 DEF LeaveWorld, DropVehicleState, TypeOK, server, ledger
<1>10. CASE EnterWorld(p)
  <2>1. requests' \in [People -> Seq(Requests)] BY <1>10, SendType DEF EnterWorld
  <2> QED BY <1>10, <2>1 DEF EnterWorld, TypeOK, server, ledger, ride
<1>11. CASE Connect(p)
  BY <1>11 DEF Connect, TypeOK, ledger, client, ride
<1> QED BY <1>1, <1>2, <1>3, <1>4, <1>5, <1>6, <1>7, <1>8, <1>9, <1>10, <1>11

\* What HandOver does to each car and each player's mail: a car of the one who
\* goes passes to an heir, any other stays; nobody is told more than one thing.
LEMMA HandOverEffect ==
  ASSUME TypeOK, NEW p \in People, NEW heir \in [Cars -> People \cup {NoOne}],
         \A c \in Cars : heir[c] \in Heirs(c, p), HandOver(p, heir)
  PROVE  /\ owner' = [c \in Cars |-> IF owner[c] = p THEN heir[c] ELSE owner[c]]
         /\ epoch' = [c \in Cars |-> IF owner[c] = p THEN epoch[c] + 1 ELSE epoch[c]]
         /\ mail' \in [People -> Seq(Notices)]
         /\ mail'[p] = <<>>
         /\ \A q \in People \ {p} :
              \/ mail'[q] = mail[q]
              \/ \E c \in Cars : /\ owner[c] = p /\ heir[c] = q
                                 /\ mail'[q] = Append(mail[q], Assigned(c, epoch[c] + 1))
<1> USE ConstantsAssumption
<1> DEFINE mine == {c \in Cars : owner[c] = p}
<1> DEFINE NoticeTo(q) == {c \in mine : heir[c] = q}
<1>1. ASSUME NEW c \in mine PROVE NextEpoch(c, heir[c]) = epoch[c] + 1
  <2>1. heir[c] # p BY HeirsType
  <2> QED BY <2>1 DEF NextEpoch
<1>2. /\ owner' = [c \in Cars |-> IF owner[c] = p THEN heir[c] ELSE owner[c]]
      /\ epoch' = [c \in Cars |-> IF owner[c] = p THEN epoch[c] + 1 ELSE epoch[c]]
  BY <1>1 DEF HandOver
<1>3. mail' = [q \in People |->
                 IF q = p THEN <<>>
                 ELSE IF NoticeTo(q) = {} THEN mail[q]
                 ELSE LET c == CHOOSE c \in NoticeTo(q) : TRUE
                      IN  Append(mail[q], Assigned(c, NextEpoch(c, heir[c])))]
  BY DEF HandOver
<1>4. ASSUME NEW q \in People \ {p}
      PROVE  \/ mail'[q] = mail[q]
             \/ \E c \in Cars : /\ owner[c] = p /\ heir[c] = q
                                /\ mail'[q] = Append(mail[q], Assigned(c, epoch[c] + 1))
  <2>1. CASE NoticeTo(q) = {}
    BY <1>3, <2>1
  <2>2. CASE NoticeTo(q) # {}
    <3>1. PICK c \in NoticeTo(q) :
            mail'[q] = Append(mail[q], Assigned(c, NextEpoch(c, heir[c])))
      <4> DEFINE d == CHOOSE c \in NoticeTo(q) : TRUE
      <4>1. d \in NoticeTo(q) BY <2>2
      <4>2. mail'[q] = Append(mail[q], Assigned(d, NextEpoch(d, heir[d])))
        BY <1>3, <2>2
      <4> HIDE DEF d
      <4> QED BY <4>1, <4>2
    <3>2. NextEpoch(c, heir[c]) = epoch[c] + 1 BY <1>1, <3>1
    <3> QED BY <3>1, <3>2
  <2> QED BY <2>1, <2>2
<1>5. ASSUME NEW q \in People PROVE mail'[q] \in Seq(Notices)
  <2>1. mail[q] \in Seq(Notices) /\ epoch \in [Cars -> Nat] BY DEF TypeOK
  <2>2. \A c \in Cars : Assigned(c, epoch[c] + 1) \in Notices
    BY <2>1 DEF Assigned, Notices
  <2>3. CASE q = p BY <1>3, <2>3
  <2>4. CASE q # p
    <3>1. CASE mail'[q] = mail[q] BY <2>1, <3>1
    <3>2. ASSUME NEW c \in Cars, mail'[q] = Append(mail[q], Assigned(c, epoch[c] + 1))
          PROVE  mail'[q] \in Seq(Notices)
      <4>1. Assigned(c, epoch[c] + 1) \in Notices BY <2>2
      <4> HIDE DEF Notices
      <4> QED BY <2>1, <3>2, <4>1
    <3> QED BY <1>4, <2>4, <3>1, <3>2
  <2> QED BY <2>3, <2>4
<1>6. mail' \in [People -> Seq(Notices)] /\ mail'[p] = <<>>
  <2> HIDE DEF NoticeTo, Notices
  <2> QED BY <1>3, <1>5
<1> QED BY <1>2, <1>4, <1>6

\* A connection that ends leaves every variable in its type.
LEMMA DisconnectTypes ==
  ASSUME TypeOK, NEW p \in People, Disconnect(p)
  PROVE  TypeOK'
<1> USE ConstantsAssumption
<1>1. PICK heir \in [Cars -> People \cup {NoOne}] :
        (\A c \in Cars : heir[c] \in Heirs(c, p)) /\ HandOver(p, heir)
  BY DEF Disconnect
<1>2. /\ owner' \in [Cars -> People \cup {NoOne}]
      /\ epoch' \in [Cars -> Nat]
      /\ mail' \in [People -> Seq(Notices)]
  <2>1. /\ owner' = [c \in Cars |-> IF owner[c] = p THEN heir[c] ELSE owner[c]]
        /\ epoch' = [c \in Cars |-> IF owner[c] = p THEN epoch[c] + 1 ELSE epoch[c]]
        /\ mail' \in [People -> Seq(Notices)]
    BY <1>1, HandOverEffect
  <2> HIDE DEF Notices
  <2> QED BY <2>1 DEF TypeOK
<1>3. /\ online' \subseteq People /\ embodied' \subseteq online'
      /\ seat' \in [People -> Places \cup {OnFoot}]
      /\ life' \in [Cars -> {"unmade", "there", "gone"}]
      /\ requests' \in [People -> Seq(Requests)]
      /\ moves' \subseteq Packets
      /\ shown' \in [Cars -> Nat]
  <2>1. <<>> \in Seq(Requests) OBVIOUS
  <2> HIDE DEF Requests
  <2> QED BY <2>1 DEF Disconnect, TypeOK
<1> QED BY <1>2, <1>3 DEF Disconnect, DropVehicleState, TypeOK

-----------------------------------------------------------------------------
(* Seating. *)

\* A seat belongs to one person, its driver simulates, whatever request is handled.
LEMMA SeatingServer ==
  ASSUME TypeOK, Seating, NEW p \in People,
         EnterNew(p) \/ EnterKnown(p) \/ EnterRefused(p) \/ Exit(p) \/ Leave(p) \/ Spawn(p)
  PROVE  Seating'
<1> USE ConstantsAssumption DEF OnFoot
<1>0. /\ Riders /\ UnmadeUntouched /\ OnePersonPerSeat /\ DriverSimulates
      /\ SimulatorsAreOnline
      /\ embodied \subseteq online /\ online \subseteq People
      /\ seat \in [People -> Places \cup {OnFoot}]
      /\ owner \in [Cars -> People \cup {NoOne}]
  BY DEF Seating, TypeOK
<1>00. \A q \in People : \/ seat[q] = OnFoot /\ seat[q].car = NoCar /\ seat[q].at = NoSeat
                         \/ seat[q].car \in Cars /\ seat[q].at \in Seats
                            /\ seat[q] = [car |-> seat[q].car, at |-> seat[q].at]
  BY <1>0 DEF Places
<1>1. CASE EnterNew(p)
  <2>1. PICK c \in Cars :
          /\ life[c] = "unmade"
          /\ life' = [life EXCEPT ![c] = "there"]
          /\ owner' = [owner EXCEPT ![c] = p]
          /\ seat' = [seat EXCEPT ![p] = [car |-> c, at |-> Driver]]
    BY <1>1 DEF EnterNew
  <2>2. /\ p \in embodied /\ UNCHANGED <<online, embodied>>
        /\ \A q \in People : requests'[q] # <<>> => q \in online
    BY <1>0, <1>1, AsksType DEF EnterNew
  <2>3. \A q \in People : seat[q].car # c BY <1>0, <2>1 DEF UnmadeUntouched
  <2>4. seat'[p] = [car |-> c, at |-> Driver] /\ \A q \in People \ {p} : seat'[q] = seat[q]
    BY <1>0, <2>1
  <2>5. Riders' BY <1>0, <2>2, <2>4 DEF Riders
  <2>6. UnmadeUntouched' BY <1>0, <2>1, <2>4 DEF UnmadeUntouched, TypeOK
  <2>7. OnePersonPerSeat' BY <1>0, <1>00, <2>3, <2>4 DEF OnePersonPerSeat
  <2>8. DriverSimulates' BY <1>0, <1>00, <2>1, <2>3, <2>4 DEF DriverSimulates
  <2>9. SimulatorsAreOnline' BY <1>0, <2>1, <2>2 DEF SimulatorsAreOnline
  <2> QED BY <2>5, <2>6, <2>7, <2>8, <2>9 DEF Seating
<1>2. CASE EnterKnown(p)
  <2>1. PICK c \in Cars, s \in Seats :
          p \in embodied /\ life[c] = "there" /\ ~Taken(p, c, s) /\ TakeSeat(p, c, s)
    BY <1>0, <1>2, AsksType DEF EnterKnown, Admits
  <2>2. /\ UNCHANGED <<online, embodied, life>>
        /\ \A q \in People : requests'[q] # <<>> => q \in online
    BY <1>0, <1>2, AsksType DEF EnterKnown
  <2>3. \A q \in People \ {p} : seat[q] # [car |-> c, at |-> s] BY <2>1 DEF Taken
  <2>4. seat'[p] = [car |-> c, at |-> s] /\ \A q \in People \ {p} : seat'[q] = seat[q]
    BY <1>0, <2>1 DEF TakeSeat
  <2>5. \/ UNCHANGED owner /\ s # Driver
        \/ owner' = [owner EXCEPT ![c] = p] /\ s = Driver
    BY <2>1 DEF TakeSeat, TransferAuthority
  <2>6. Riders' BY <1>0, <2>1, <2>2, <2>4 DEF Riders
  <2>7. UnmadeUntouched' BY <1>0, <2>1, <2>2, <2>4, <2>5 DEF UnmadeUntouched
  <2>8. OnePersonPerSeat' BY <1>0, <1>00, <2>3, <2>4 DEF OnePersonPerSeat
  <2>9. DriverSimulates'
    <3> SUFFICES ASSUME NEW q \in People, seat'[q].at = Driver
                 PROVE  owner'[seat'[q].car] = q
      BY DEF DriverSimulates
    <3>1. CASE q = p BY <1>0, <2>4, <2>5, <3>1
    <3>2. CASE q # p
      <4>1. seat'[q] = seat[q] /\ seat[q].car \in Cars /\ owner[seat[q].car] = q
        BY <1>0, <1>00, <2>4, <3>2 DEF DriverSimulates
      <4>2. s = Driver => seat[q].car # c BY <1>00, <2>3, <3>2, <4>1
      <4> QED BY <1>0, <2>5, <4>1, <4>2
    <3> QED BY <3>1, <3>2
  <2>10. SimulatorsAreOnline' BY <1>0, <2>1, <2>2, <2>5 DEF SimulatorsAreOnline
  <2> QED BY <2>6, <2>7, <2>8, <2>9, <2>10 DEF Seating
<1>3. CASE EnterRefused(p)
  <2>1. /\ UNCHANGED <<online, embodied, seat, life, owner>>
        /\ \A q \in People : requests'[q] # <<>> => q \in online
    BY <1>0, <1>3, AsksType DEF EnterRefused, server, ledger
  <2> QED BY <1>0, <2>1 DEF Seating, Riders, UnmadeUntouched, OnePersonPerSeat,
                            DriverSimulates, SimulatorsAreOnline
<1>4. CASE Exit(p)
  <2>1. /\ UNCHANGED <<online, embodied, life>>
        /\ \A q \in People : requests'[q] # <<>> => q \in online
    BY <1>0, <1>4, AsksType DEF Exit
  <2>2. CASE UNCHANGED <<seat, owner>>
    BY <1>0, <2>1, <2>2 DEF Seating, Riders, UnmadeUntouched, OnePersonPerSeat,
                            DriverSimulates, SimulatorsAreOnline
  <2>3. CASE Vacate(p, seat[p].car)
    <3> DEFINE c == seat[p].car
    <3>1. seat'[p] = OnFoot /\ \A q \in People \ {p} : seat'[q] = seat[q]
      BY <1>0, <2>3 DEF Vacate
    <3>2. \/ UNCHANGED owner
          \/ \E h \in People \cup {NoOne} :
               /\ c \in Cars /\ owner' = [owner EXCEPT ![c] = h]
               /\ owner[c] = p \/ Inside(c, p) = {}
               /\ h = NoOne \/ (h \in People /\ seat[h].car = c)
      <4>1. CASE c # NoCar /\ (owner[c] = p \/ Inside(c, p) = {})
        <5>1. PICK h \in Heirs(c, p) : TransferAuthority(c, h)
          BY <2>3, <4>1 DEF Vacate
        <5>2. h \in People \cup {NoOne} /\ (h = NoOne \/ (h \in People /\ seat[h].car = c))
          BY <5>1, HeirsType
        <5>3. c \in Cars BY <1>00, <4>1
        <5>4. owner' = [owner EXCEPT ![c] = h] BY <5>1 DEF TransferAuthority
        <5> QED BY <4>1, <5>2, <5>3, <5>4
      <4>2. CASE ~(c # NoCar /\ (owner[c] = p \/ Inside(c, p) = {}))
        BY <2>3, <4>2 DEF Vacate
      <4> QED BY <4>1, <4>2
    <3>3. Riders' BY <1>0, <2>1, <3>1 DEF Riders
    <3>4. UnmadeUntouched' BY <1>0, <2>1, <3>1, <3>2 DEF UnmadeUntouched
    <3>5. OnePersonPerSeat' BY <1>0, <3>1 DEF OnePersonPerSeat
    <3>6. DriverSimulates'
      <4> SUFFICES ASSUME NEW q \in People, seat'[q].at = Driver
                   PROVE  owner'[seat'[q].car] = q
        BY DEF DriverSimulates
      <4>1. q # p /\ seat'[q] = seat[q] BY <3>1
      <4>2. seat[q].car \in Cars /\ owner[seat[q].car] = q
        BY <1>0, <1>00, <4>1 DEF DriverSimulates
      <4>3. owner[c] = p \/ Inside(c, p) = {} => seat[q].car # c
        BY <4>1, <4>2 DEF Inside
      <4> QED BY <1>0, <3>2, <4>1, <4>2, <4>3
    <3>7. SimulatorsAreOnline'
      BY <1>0, <1>00, <2>1, <3>2 DEF SimulatorsAreOnline, Riders
    <3> QED BY <3>3, <3>4, <3>5, <3>6, <3>7 DEF Seating
  <2> QED BY <1>4, <2>2, <2>3 DEF Exit
<1>5. CASE Leave(p)
  <2>1. /\ UNCHANGED <<online, life, owner>> /\ embodied' = embodied \ {p}
        /\ seat'[p] = OnFoot /\ \A q \in People \ {p} : seat'[q] = seat[q]
        /\ \A q \in People : requests'[q] # <<>> => q \in online
    BY <1>0, <1>5, AsksType DEF Leave, ledger
  <2>2. Riders' BY <1>0, <2>1 DEF Riders
  <2>3. UnmadeUntouched' /\ OnePersonPerSeat' /\ DriverSimulates' /\ SimulatorsAreOnline'
    BY <1>0, <2>1 DEF UnmadeUntouched, OnePersonPerSeat, DriverSimulates, SimulatorsAreOnline
  <2> QED BY <2>2, <2>3 DEF Seating
<1>6. CASE Spawn(p)
  <2>1. /\ UNCHANGED <<online, life, owner, seat>> /\ embodied' = embodied \cup {p}
        /\ \A q \in People : requests'[q] # <<>> => q \in online
    BY <1>0, <1>6, AsksType DEF Spawn, ledger
  <2> QED BY <1>0, <2>1 DEF Seating, Riders, UnmadeUntouched, OnePersonPerSeat,
                            DriverSimulates, SimulatorsAreOnline
<1> QED BY <1>1, <1>2, <1>3, <1>4, <1>5, <1>6

\* What clients and the network do moves nobody.
LEMMA SeatingClient ==
  ASSUME TypeOK, Seating, NEW p \in People,
         \/ HandleMove \/ Lose \/ BoardMirror(p) \/ BoardOwn(p) \/ Alight(p)
         \/ HandleAssigned(p) \/ HandleRevoked(p) \/ Stream(p)
         \/ LeaveWorld(p) \/ EnterWorld(p) \/ Connect(p)
  PROVE  Seating'
<1> USE ConstantsAssumption
<1>1. online \subseteq online' /\ UNCHANGED <<embodied, seat, life, owner>>
  BY DEF HandleMove, Lose, BoardMirror, BoardOwn, Alight, HandleAssigned, HandleRevoked,
         Stream, LeaveWorld, EnterWorld, Connect, server, ledger
<1>2. Riders /\ \A q \in People : requests'[q] # <<>> => q \in online
  <2>1. CASE UNCHANGED requests BY <2>1 DEF Seating, Riders
  <2>2. CASE \E k \in {"enter", "exit", "leave", "spawn"}, c \in Cars \cup {NoCar},
                s \in Seats \cup {NoSeat} : Send(p, k, c, s) /\ (k = "enter" => s \in Seats)
    BY <2>2, SendType DEF Seating
  <2>3. CASE BoardMirror(p)
    <3>1. mirrors[p] \subseteq Cars BY DEF TypeOK
    <3> QED BY <2>2, <2>3, <3>1 DEF BoardMirror
  <2>4. CASE Alight(p)
    <3>1. mounted[p] \in Cars \cup {NoCar} /\ simulates[p] \in Cars \cup {NoCar}
          /\ slot[p] \in Seats \cup {NoSeat}
      BY DEF TypeOK
    <3> QED BY <2>2, <2>4, <3>1 DEF Alight
  <2>5. CASE BoardOwn(p) BY <2>2, <2>5 DEF BoardOwn
  <2>6. CASE LeaveWorld(p) BY <2>2, <2>6 DEF LeaveWorld
  <2>7. CASE EnterWorld(p) BY <2>2, <2>7 DEF EnterWorld
  <2> QED BY <2>1, <2>3, <2>4, <2>5, <2>6, <2>7 DEF HandleMove, Lose, HandleAssigned,
             HandleRevoked, Stream, Connect
<1> QED BY <1>1, <1>2 DEF Seating, Riders, UnmadeUntouched, OnePersonPerSeat,
                          DriverSimulates, SimulatorsAreOnline, TypeOK

\* A connection that ends takes its player out of their seat and no car with it.
LEMMA SeatingDisconnect ==
  ASSUME TypeOK, Seating, NEW p \in People, Disconnect(p)
  PROVE  Seating'
<1> USE ConstantsAssumption DEF OnFoot
<1>0. /\ Riders /\ UnmadeUntouched /\ OnePersonPerSeat /\ DriverSimulates
      /\ SimulatorsAreOnline
      /\ embodied \subseteq online /\ online \subseteq People
      /\ seat \in [People -> Places \cup {OnFoot}]
      /\ owner \in [Cars -> People \cup {NoOne}]
      /\ requests \in [People -> Seq(Requests)]
      /\ life \in [Cars -> {"unmade", "there", "gone"}]
  BY DEF Seating, TypeOK
<1>1. PICK heir \in [Cars -> People \cup {NoOne}] :
        (\A c \in Cars : heir[c] \in Heirs(c, p)) /\ HandOver(p, heir)
  BY DEF Disconnect
<1>2. owner' = [c \in Cars |-> IF owner[c] = p THEN heir[c] ELSE owner[c]]
  BY <1>1, HandOverEffect
<1>3. /\ online' = online \ {p} /\ embodied' = embodied \ {p}
      /\ seat'[p] = OnFoot /\ \A q \in People \ {p} : seat'[q] = seat[q]
      /\ \A c \in Cars : life'[c] = "unmade" => life[c] = "unmade"
      /\ requests'[p] = <<>> /\ \A q \in People \ {p} : requests'[q] = requests[q]
  BY <1>0 DEF Disconnect
<1>4. \A c \in Cars : heir[c] = NoOne \/ (heir[c] \in People \ {p} /\ seat[heir[c]].car = c)
  BY <1>1, HeirsType
<1>5. Riders' BY <1>0, <1>3 DEF Riders
<1>6. UnmadeUntouched'
  <2> SUFFICES ASSUME NEW c \in Cars, life'[c] = "unmade"
               PROVE  owner'[c] = NoOne /\ \A q \in People : seat'[q].car # c
    BY DEF UnmadeUntouched
  <2>1. owner[c] = NoOne /\ \A q \in People : seat[q].car # c
    BY <1>0, <1>3 DEF UnmadeUntouched
  <2>2. owner'[c] = NoOne BY <1>2, <2>1
  <2>3. ASSUME NEW q \in People PROVE seat'[q].car # c
    BY <1>3, <2>1
  <2> QED BY <2>2, <2>3
<1>7. OnePersonPerSeat' BY <1>0, <1>3 DEF OnePersonPerSeat
<1>8. DriverSimulates'
  <2> SUFFICES ASSUME NEW q \in People, seat'[q].at = Driver
               PROVE  owner'[seat'[q].car] = q
    BY DEF DriverSimulates
  <2>1. q # p /\ seat'[q] = seat[q] BY <1>3
  <2>2. seat[q].car \in Cars /\ owner[seat[q].car] = q
    BY <1>0, <2>1 DEF DriverSimulates, Places
  <2> QED BY <1>2, <2>1, <2>2
<1>9. SimulatorsAreOnline'
  <2> SUFFICES ASSUME NEW c \in Cars, owner'[c] # NoOne PROVE owner'[c] \in online'
    BY DEF SimulatorsAreOnline
  <2>1. CASE owner[c] = p
    <3>1. heir[c] \in People \ {p} /\ seat[heir[c]].car = c BY <1>2, <1>4, <2>1
    <3>2. seat[heir[c]] # OnFoot BY <3>1
    <3> QED BY <1>0, <1>2, <1>3, <2>1, <3>1, <3>2 DEF Riders
  <2>2. CASE owner[c] # p BY <1>0, <1>2, <1>3, <2>2 DEF SimulatorsAreOnline
  <2> QED BY <2>1, <2>2
<1> QED BY <1>5, <1>6, <1>7, <1>8, <1>9 DEF Seating

-----------------------------------------------------------------------------
(* Grants. *)

\* Epochs only grow, and a car that is made changes hands only with its epoch.
LedgerGrows ==
  \A c \in Cars :
    /\ epoch'[c] >= epoch[c]
    /\ life[c] # "unmade" => /\ life'[c] # "unmade"
                             /\ epoch'[c] = epoch[c] => owner'[c] = owner[c]

\* What a step owes p: a revocation of the car it takes away, a valid grant of
\* the car it gives.
Hears(p, t) ==
  /\ mail'[p] = mail[p] \o t
  /\ t = <<>> \/ \E n \in Notices : t = <<n>>
  /\ \A c \in Cars : life[c] # "unmade" /\ owner[c] = p /\ owner'[c] # p
       => \E n \in Notices : t = <<n>> /\ Revokes(n, c)
  /\ \A n \in Notices : t = <<n>> /\ IsAssigned(n)
       => /\ life'[n.car] # "unmade" /\ n.epoch <= epoch'[n.car]
          /\ owner'[n.car] = p

\* A grant stays one as the ledger grows.
LEMMA GrantsLast ==
  ASSUME TypeOK, TypeOK', LedgerGrows, NEW p, NEW c \in Cars, NEW e \in Nat, Granted(p, c, e)
  PROVE  life'[c] # "unmade" /\ e <= epoch'[c] /\ (e = epoch'[c] => owner'[c] = p)
<1>1. epoch[c] \in Nat /\ epoch'[c] \in Nat BY DEF TypeOK
<1> QED BY <1>1 DEF LedgerGrows, Granted

\* Who is told what a step owes them goes on listening.
LEMMA HearsEnough ==
  ASSUME TypeOK, TypeOK', LedgerGrows, NEW p \in People, Listens(p), NEW t, Hears(p, t),
         simulates'[p] = simulates[p], grant'[p] = grant[p]
  PROVE  Listens(p)'
<1> DEFINE L == Len(mail[p])
<1>0. /\ mail[p] \in Seq(Notices) /\ L \in Nat
      /\ simulates[p] \in Cars \cup {NoCar} /\ grant[p] \in Nat
  BY DEF TypeOK
<1>1. \A i \in 1 .. L : mail[p][i].car \in Cars /\ mail[p][i].epoch \in Nat
  <2>1. \A i \in 1 .. L : mail[p][i] \in Notices
    <3> HIDE DEF Notices
    <3> QED BY <1>0
  <2> QED BY <2>1 DEF Notices
<1>2. /\ L <= Len(mail'[p]) /\ Len(mail'[p]) \in Nat
      /\ \A i \in 1 .. L : mail'[p][i] = mail[p][i]
      /\ \/ t = <<>> /\ Len(mail'[p]) = L
         \/ \E n \in Notices : t = <<n>> /\ Len(mail'[p]) = L + 1 /\ mail'[p][L + 1] = n
  <2> HIDE DEF Notices
  <2>1. t \in Seq(Notices)
    <3>1. t = <<>> \/ \E n \in Notices : t = <<n>> BY DEF Hears
    <3>2. CASE t = <<>> BY <3>2
    <3>3. ASSUME NEW n \in Notices, t = <<n>> PROVE t \in Seq(Notices) BY <3>3
    <3> QED BY <3>1, <3>2, <3>3
  <2>2. /\ Len(mail'[p]) = L + Len(t)
        /\ \A i \in 1 .. L : mail'[p][i] = mail[p][i]
        /\ \A i \in L + 1 .. L + Len(t) : mail'[p][i] = t[i - L]
    BY <1>0, <2>1 DEF Hears
  <2>3. CASE t = <<>> BY <1>0, <2>2, <2>3
  <2>4. ASSUME NEW n \in Notices, t = <<n>>
        PROVE  Len(mail'[p]) = L + 1 /\ mail'[p][L + 1] = n
    <3>1. Len(t) = 1 /\ t[1] = n BY <2>4
    <3> QED BY <1>0, <2>2, <3>1
  <2> QED BY <1>0, <2>2, <2>3, <2>4 DEF Hears
<1>3. \A i \in 1 .. Len(mail'[p]) :
        \/ i \in 1 .. L
        \/ \E n \in Notices : t = <<n>> /\ i = L + 1 /\ mail'[p][i] = n
  BY <1>0, <1>2
<1>4. GrantsOf(p)'
  <2>1. ASSUME NEW i \in 1 .. Len(mail'[p]), IsAssigned(mail'[p][i])
        PROVE  Granted(p, mail[p][i].car, mail[p][i].epoch)'
    <3>1. CASE i \in 1 .. L
      <4>1. Granted(p, mail[p][i].car, mail[p][i].epoch)
        BY <1>2, <2>1, <3>1 DEF Listens, GrantsOf
      <4> DEFINE c == mail[p][i].car
                 e == mail[p][i].epoch
      <4>2. c' = c /\ e' = e BY <1>2, <3>1
      <4>3. c \in Cars /\ e \in Nat BY <1>1, <3>1
      <4>4. Granted(p, c, e) BY <4>1
      <4> HIDE DEF c, e
      <4>5. Granted(p, c, e)' BY <4>2, <4>3, <4>4, GrantsLast DEF Granted
      <4> QED BY <4>5 DEF c, e
    <3>2. CASE \E n \in Notices : t = <<n>> /\ i = L + 1 /\ mail'[p][i] = n
      BY <2>1, <3>2 DEF Hears, Granted
    <3> QED BY <1>3, <3>1, <3>2
  <2>2. ASSUME simulates'[p] # NoCar PROVE Granted(p, simulates[p], grant[p])'
    <3>1. simulates[p] \in Cars /\ Granted(p, simulates[p], grant[p])
      BY <1>0, <2>2 DEF Listens, GrantsOf
    <3> QED BY <1>0, <3>1, GrantsLast DEF Granted
  <2> QED BY <2>1, <2>2 DEF GrantsOf
<1>5. ASSUME NEW c \in Cars, owner[c] = p, owner'[c] # p, life[c] # "unmade"
      PROVE  Len(mail'[p]) = L + 1 /\ Revokes(mail'[p][L + 1], c)
  <2>1. PICK n \in Notices : t = <<n>> /\ Revokes(n, c) BY <1>5 DEF Hears
  <2>2. PICK m \in Notices : t = <<m>> /\ Len(mail'[p]) = L + 1 /\ mail'[p][L + 1] = m
    <3>1. t # <<>>  BY <2>1
    <3> QED BY <1>2, <3>1
  <2>3. m = n BY <2>1, <2>2
  <2> QED BY <2>1, <2>2, <2>3
<1>6. RevokesOf(p)'
  <2>1. ASSUME NEW i \in 1 .. Len(mail'[p]), IsAssigned(mail'[p][i]),
               owner'[mail'[p][i].car] # p
        PROVE  \E j \in i + 1 .. Len(mail'[p]) : Revokes(mail'[p][j], mail'[p][i].car)
    <3>1. CASE i \in 1 .. L
      <4>1. mail'[p][i] = mail[p][i] BY <1>2, <3>1
      <4>2. CASE owner[mail[p][i].car] # p
        <5>1. PICK j \in i + 1 .. L : Revokes(mail[p][j], mail[p][i].car)
          BY <2>1, <3>1, <4>1, <4>2 DEF Listens, RevokesOf
        <5>2. j \in 1 .. L /\ j \in i + 1 .. Len(mail'[p]) BY <1>0, <1>2, <3>1
        <5> QED BY <1>2, <4>1, <5>1, <5>2
      <4>3. CASE owner[mail[p][i].car] = p
        <5>1. life[mail[p][i].car] # "unmade"
          BY <2>1, <3>1, <4>1 DEF Listens, GrantsOf, Granted
        <5>2. Len(mail'[p]) = L + 1 /\ Revokes(mail'[p][L + 1], mail[p][i].car)
          BY <1>1, <1>5, <2>1, <3>1, <4>1, <4>3, <5>1
        <5>3. L + 1 \in i + 1 .. Len(mail'[p]) BY <1>0, <3>1, <5>2
        <5> QED BY <4>1, <5>2, <5>3
      <4> QED BY <4>2, <4>3
    <3>2. CASE \E n \in Notices : t = <<n>> /\ i = L + 1 /\ mail'[p][i] = n
      BY <2>1, <3>2 DEF Hears
    <3> QED BY <1>3, <3>1, <3>2
  <2>2. ASSUME simulates'[p] # NoCar, owner'[simulates'[p]] # p
        PROVE  \E j \in 1 .. Len(mail'[p]) : Revokes(mail'[p][j], simulates'[p])
    <3>1. CASE owner[simulates[p]] # p
      <4>1. PICK j \in 1 .. L : Revokes(mail[p][j], simulates[p])
        BY <2>2, <3>1 DEF Listens, RevokesOf
      <4>2. j \in 1 .. Len(mail'[p]) BY <1>0, <1>2
      <4> QED BY <1>2, <4>1, <4>2
    <3>2. CASE owner[simulates[p]] = p
      <4>1. simulates[p] \in Cars /\ life[simulates[p]] # "unmade"
        BY <1>0, <2>2 DEF Listens, GrantsOf, Granted
      <4>2. Len(mail'[p]) = L + 1 /\ Revokes(mail'[p][L + 1], simulates[p])
        BY <1>5, <2>2, <3>2, <4>1
      <4>3. L + 1 \in 1 .. Len(mail'[p]) BY <1>0, <4>2
      <4> QED BY <4>2, <4>3
    <3> QED BY <3>1, <3>2
  <2> QED BY <2>1, <2>2 DEF RevokesOf
<1> QED BY <1>4, <1>6 DEF Listens

\* Whoever keeps their mail and their cars goes on listening.
LEMMA HearsNothing ==
  ASSUME TypeOK, NEW p \in People, mail'[p] = mail[p],
         \A c \in Cars : life[c] # "unmade" /\ owner[c] = p => owner'[c] = p
  PROVE  Hears(p, <<>>)
<1>1. mail[p] \in Seq(Notices) BY DEF TypeOK
<1>2. mail[p] \o <<>> = mail[p]
  <2> HIDE DEF Notices
  <2> QED BY <1>1
<1>3. \A n \in Notices : <<>> # <<n>> OBVIOUS
<1> QED BY <1>2, <1>3 DEF Hears

\* A transfer of a car that is made tells everybody what it owes them.
LEMMA TransferIsHeard ==
  ASSUME TypeOK, NEW c \in Cars, NEW new \in People \cup {NoOne}, life[c] # "unmade",
         UNCHANGED life, TransferAuthority(c, new)
  PROVE  LedgerGrows /\ \A p \in People : Hears(p, Told(p, c, new))
<1> USE ConstantsAssumption
<1>1. /\ owner' = [owner EXCEPT ![c] = new]
      /\ epoch' = [epoch EXCEPT ![c] = NextEpoch(c, new)]
      /\ \A p \in People : mail'[p] = mail[p] \o Told(p, c, new)
  BY DEF TransferAuthority
<1>2. NextEpoch(c, new) \in Nat /\ owner[c] \in People \cup {NoOne}
      /\ NextEpoch(c, new) = IF owner[c] = new THEN epoch[c] ELSE epoch[c] + 1
  BY DEF TypeOK, NextEpoch
<1>3. LedgerGrows BY <1>1, <1>2 DEF LedgerGrows, TypeOK
<1>4. ASSUME NEW p \in People PROVE Hears(p, Told(p, c, new))
  <2> DEFINE a == Assigned(c, NextEpoch(c, new))
             r == Revoked(c, NextEpoch(c, new))
  <2>1. a \in Notices /\ r \in Notices /\ a.kind = "assigned" /\ a.car = c
        /\ a.epoch = NextEpoch(c, new) /\ r.kind = "revoked" /\ r.car = c
    BY <1>2 DEF Assigned, Revoked, Notices
  <2>2. owner'[c] = new /\ epoch'[c] = NextEpoch(c, new)
        /\ \A d \in Cars \ {c} : owner'[d] = owner[d]
    BY <1>1 DEF TypeOK
  <2> HIDE DEF a, r, Notices
  <2>3. CASE p = new
    <3>1. Told(p, c, new) = <<a>> BY <2>3 DEF Told, a
    <3>2. \A d \in Cars : owner[d] = p => owner'[d] = p BY <2>2, <2>3
    <3>3. \A n \in Notices : <<a>> = <<n>> => n = a OBVIOUS
    <3>4. life'[a.car] # "unmade" /\ a.epoch <= epoch'[a.car] /\ owner'[a.car] = p
      BY <1>2, <2>1, <2>2, <2>3
    <3>5. \A n \in Notices : <<a>> = <<n>> => life'[n.car] # "unmade"
            /\ n.epoch <= epoch'[n.car] /\ owner'[n.car] = p
      BY <3>3, <3>4
    <3> QED BY <1>1, <2>1, <3>1, <3>2, <3>5 DEF Hears
  <2>4. CASE p # new /\ p = owner[c]
    <3>1. Told(p, c, new) = <<r>> BY <2>4 DEF Told, r
    <3>2. \A d \in Cars : owner[d] = p /\ owner'[d] # p => d = c BY <2>2
    <3>3. Revokes(r, c) /\ ~IsAssigned(r) BY <2>1 DEF Revokes, IsAssigned
    <3>4. \A n \in Notices : <<r>> = <<n>> => n = r OBVIOUS
    <3> QED BY <1>1, <2>1, <3>1, <3>2, <3>3, <3>4 DEF Hears
  <2>5. CASE p # new /\ p # owner[c]
    <3>1. Told(p, c, new) = <<>> BY <2>5 DEF Told
    <3>2. \A d \in Cars : owner[d] = p => owner'[d] = p BY <2>2, <2>5
    <3>3. \A n \in Notices : <<>> # <<n>> OBVIOUS
    <3> QED BY <1>1, <3>1, <3>2, <3>3 DEF Hears
  <2> QED BY <2>3, <2>4, <2>5
<1> QED BY <1>3, <1>4

\* Nobody has to listen who simulates nothing and has no mail.
LEMMA NothingToHear ==
  ASSUME NEW p, mail'[p] = <<>>, simulates'[p] = NoCar
  PROVE  Listens(p)'
BY DEF Listens, GrantsOf, RevokesOf

\* Who gives up simulating, or goes on as before, goes on listening.
LEMMA LetsGo ==
  ASSUME NEW p, Listens(p), UNCHANGED ledger, mail'[p] = mail[p],
         simulates'[p] = NoCar \/ (simulates'[p] = simulates[p] /\ grant'[p] = grant[p])
  PROVE  Listens(p)'
BY DEF Listens, GrantsOf, RevokesOf, Granted, ledger

\* A step that tells everybody what it owes them, or leaves them nothing to be
\* told, keeps the grants.
LEMMA GrantsByHearing ==
  ASSUME TypeOK, TypeOK', Grants, LedgerGrows, UNCHANGED shown, moves' \subseteq moves,
         \A p \in People :
           \/ mail'[p] = <<>> /\ simulates'[p] = NoCar
           \/ /\ simulates'[p] = simulates[p] /\ grant'[p] = grant[p]
              /\ \E t : Hears(p, t)
  PROVE  Grants'
<1>1. ASSUME NEW p \in People PROVE Listens(p)'
  <2>1. CASE mail'[p] = <<>> /\ simulates'[p] = NoCar
    BY <2>1, NothingToHear
  <2>2. ASSUME simulates'[p] = simulates[p], grant'[p] = grant[p], NEW t, Hears(p, t)
        PROVE  Listens(p)'
    <3>1. Listens(p) BY DEF Grants
    <3> QED BY <2>2, <3>1, HearsEnough
  <2> QED BY <2>1, <2>2
<1>2. PacketsGranted'
  <2> SUFFICES ASSUME NEW m \in moves PROVE Granted(m.from, m.car, m.epoch)'
    BY DEF PacketsGranted
  <2>1. m.car \in Cars /\ m.epoch \in Nat BY DEF TypeOK, Packets
  <2>2. Granted(m.from, m.car, m.epoch) BY DEF Grants, PacketsGranted
  <2> QED BY <2>1, <2>2, GrantsLast DEF Granted
<1>3. ShownUnderAGrant'
  <2> SUFFICES ASSUME NEW c \in Cars PROVE shown'[c] <= epoch'[c]
    BY DEF ShownUnderAGrant
  <2>1. shown[c] <= epoch[c] /\ shown'[c] = shown[c] /\ epoch'[c] >= epoch[c]
    BY DEF Grants, ShownUnderAGrant, LedgerGrows
  <2> QED BY <2>1 DEF TypeOK
<1> QED BY <1>1, <1>2, <1>3 DEF Grants

\* The handlers of requests keep the grants.
LEMMA GrantsServer ==
  ASSUME TypeOK, TypeOK', Seating, Grants, NEW p \in People,
         EnterNew(p) \/ EnterKnown(p) \/ EnterRefused(p) \/ Exit(p) \/ Leave(p) \/ Spawn(p)
  PROVE  Grants'
<1> USE ConstantsAssumption
<1>1. UNCHANGED <<simulates, grant, shown, moves>>
  BY DEF EnterNew, EnterKnown, EnterRefused, Exit, Leave, Spawn, server, client, ride
<1>2. CASE UNCHANGED <<ledger, mail>>
  <2>1. LedgerGrows BY <1>2 DEF LedgerGrows, ledger, TypeOK
  <2>2. \A q \in People : Hears(q, <<>>) BY <1>2, HearsNothing DEF ledger
  <2> QED BY <1>1, <2>1, <2>2, GrantsByHearing
<1>3. ASSUME NEW c \in Cars, NEW q \in People \cup {NoOne}, life[c] # "unmade",
             UNCHANGED life, TransferAuthority(c, q)
      PROVE  Grants'
  <2>1. LedgerGrows /\ \A r \in People : Hears(r, Told(r, c, q))
    BY <1>3, TransferIsHeard
  <2> QED BY <1>1, <2>1, GrantsByHearing
<1>4. CASE EnterNew(p)
  <2>1. PICK c \in Cars :
          /\ life[c] = "unmade"
          /\ life' = [life EXCEPT ![c] = "there"]
          /\ owner' = [owner EXCEPT ![c] = p]
          /\ mail' = [mail EXCEPT ![p] = Append(@, Assigned(c, epoch[c]))]
    BY <1>4 DEF EnterNew
  <2>2. epoch' = epoch BY <1>4 DEF EnterNew
  <2>3. LedgerGrows BY <2>1, <2>2 DEF LedgerGrows, TypeOK
  <2>4. \A q \in People \ {p} : Hears(q, <<>>)
    BY <2>1, HearsNothing DEF TypeOK
  <2>5. Hears(p, <<Assigned(c, epoch[c])>>)
    <3> DEFINE a == Assigned(c, epoch[c])
    <3>1. a \in Notices /\ a.car = c /\ a.epoch = epoch[c] /\ epoch[c] \in Nat
      BY DEF Assigned, Notices, TypeOK
    <3> HIDE DEF a, Notices
    <3>2. mail'[p] = mail[p] \o <<a>>
      <4>1. mail[p] \in Seq(Notices) BY DEF TypeOK
      <4>2. mail'[p] = Append(mail[p], a) BY <2>1 DEF TypeOK, a
      <4>3. Append(mail[p], a) = mail[p] \o <<a>> BY <3>1, <4>1, AppendIsConcat
      <4> QED BY <4>2, <4>3
    <3>3. \A d \in Cars : life[d] # "unmade" /\ owner[d] = p => owner'[d] = p
      BY <2>1 DEF TypeOK
    <3>4. life'[a.car] # "unmade" /\ a.epoch <= epoch'[a.car] /\ owner'[a.car] = p
      BY <2>1, <2>2, <3>1 DEF TypeOK
    <3>5. \A n \in Notices : <<a>> = <<n>> => life'[n.car] # "unmade"
            /\ n.epoch <= epoch'[n.car] /\ owner'[n.car] = p
      <4>1. \A n \in Notices : <<a>> = <<n>> => n = a OBVIOUS
      <4> QED BY <3>4, <4>1
    <3>6. Hears(p, <<a>>) BY <3>1, <3>2, <3>3, <3>5 DEF Hears
    <3> QED BY <3>6 DEF a
  <2> QED BY <1>1, <2>3, <2>4, <2>5, GrantsByHearing
<1>5. CASE EnterKnown(p)
  <2>1. PICK c \in Cars, s \in Seats : life[c] = "there" /\ TakeSeat(p, c, s)
    BY <1>5, AsksType DEF EnterKnown, Admits, Seating
  <2>2. UNCHANGED life BY <1>5 DEF EnterKnown
  <2> QED BY <1>2, <1>3, <2>1, <2>2 DEF TakeSeat, ledger
<1>6. CASE Exit(p)
  <2>1. UNCHANGED life BY <1>6 DEF Exit
  <2>2. CASE UNCHANGED <<owner, epoch, mail>> BY <1>2, <2>1, <2>2 DEF ledger
  <2>3. CASE Vacate(p, seat[p].car)
    <3>1. seat[p].car \in Cars \cup {NoCar}
      BY DEF TypeOK, Places, OnFoot
    <3>2. CASE seat[p].car = NoCar BY <2>2, <2>3, <3>2 DEF Vacate
    <3>3. CASE seat[p].car \in Cars
      <4>1. life[seat[p].car] # "unmade"
        BY <3>3 DEF Seating, UnmadeUntouched
      <4>2. \/ UNCHANGED <<owner, epoch, mail>>
            \/ \E q \in People \cup {NoOne} : TransferAuthority(seat[p].car, q)
        BY <2>3, HeirsType DEF Vacate
      <4> QED BY <1>3, <2>1, <2>2, <3>3, <4>1, <4>2
    <3> QED BY <3>1, <3>2, <3>3
  <2> QED BY <1>6, <2>2, <2>3 DEF Exit
<1>7. CASE EnterRefused(p) \/ Leave(p) \/ Spawn(p)
  BY <1>2, <1>7 DEF EnterRefused, Leave, Spawn, server, ledger
<1> QED BY <1>4, <1>5, <1>6, <1>7

\* A connection that ends takes its grants with it and hands its cars over.
LEMMA GrantsDisconnect ==
  ASSUME TypeOK, TypeOK', Seating, Grants, NEW p \in People, Disconnect(p)
  PROVE  Grants'
<1> USE ConstantsAssumption
<1>1. PICK heir \in [Cars -> People \cup {NoOne}] :
        (\A c \in Cars : heir[c] \in Heirs(c, p)) /\ HandOver(p, heir)
  BY DEF Disconnect
<1>2. /\ owner' = [c \in Cars |-> IF owner[c] = p THEN heir[c] ELSE owner[c]]
      /\ epoch' = [c \in Cars |-> IF owner[c] = p THEN epoch[c] + 1 ELSE epoch[c]]
      /\ mail'[p] = <<>>
      /\ \A q \in People \ {p} :
           \/ mail'[q] = mail[q]
           \/ \E c \in Cars : /\ owner[c] = p /\ heir[c] = q
                              /\ mail'[q] = Append(mail[q], Assigned(c, epoch[c] + 1))
  BY <1>1, HandOverEffect
<1>3. /\ \A c \in Cars : life[c] # "unmade" => life'[c] # "unmade"
      /\ moves' \subseteq moves /\ UNCHANGED shown
      /\ simulates'[p] = NoCar
      /\ \A q \in People \ {p} : simulates'[q] = simulates[q] /\ grant'[q] = grant[q]
  BY DEF Disconnect, DropVehicleState, TypeOK
<1>4. LedgerGrows BY <1>2, <1>3 DEF LedgerGrows, TypeOK
<1>5. ASSUME NEW q \in People \ {p} PROVE \E t : Hears(q, t)
  <2>1. \A d \in Cars : owner[d] = q => owner'[d] = q BY <1>2
  <2>2. CASE mail'[q] = mail[q] BY <2>1, <2>2, HearsNothing
  <2>3. ASSUME NEW c \in Cars, owner[c] = p, heir[c] = q,
               mail'[q] = Append(mail[q], Assigned(c, epoch[c] + 1))
        PROVE  \E t : Hears(q, t)
    <3> DEFINE a == Assigned(c, epoch[c] + 1)
    <3>1. a \in Notices /\ a.car = c /\ a.epoch = epoch[c] + 1 /\ epoch[c] \in Nat
      <4>1. epoch[c] \in Nat BY DEF TypeOK
      <4> QED BY <4>1 DEF Assigned, Notices
    <3>2. life[c] # "unmade" BY <2>3 DEF Seating, UnmadeUntouched
    <3>3. life'[a.car] # "unmade" /\ a.epoch <= epoch'[a.car] /\ owner'[a.car] = q
      BY <1>2, <1>3, <2>3, <3>1, <3>2
    <3> HIDE DEF a, Notices
    <3>4. mail'[q] = mail[q] \o <<a>>
      <4>1. mail[q] \in Seq(Notices) BY DEF TypeOK
      <4>2. mail'[q] = Append(mail[q], a) BY <2>3 DEF a
      <4>3. Append(mail[q], a) = mail[q] \o <<a>> BY <3>1, <4>1, AppendIsConcat
      <4> QED BY <4>2, <4>3
    <3>5. \A n \in Notices : <<a>> = <<n>> => life'[n.car] # "unmade"
            /\ n.epoch <= epoch'[n.car] /\ owner'[n.car] = q
      <4>1. \A n \in Notices : <<a>> = <<n>> => n = a OBVIOUS
      <4> QED BY <3>3, <4>1
    <3>6. Hears(q, <<a>>) BY <2>1, <3>1, <3>4, <3>5 DEF Hears
    <3> QED BY <3>6
  <2> QED BY <1>2, <2>2, <2>3
<1> QED BY <1>2, <1>3, <1>4, <1>5, GrantsByHearing

\* What remains of somebody's mail once they heard the first notice.
LEMMA MailTail ==
  ASSUME TypeOK, NEW p \in People, NEW k, Receives(p, k)
  PROVE  /\ Len(mail[p]) \in Nat /\ Len(mail[p]) >= 1
         /\ mail[p][1] = Head(mail[p])
         /\ Len(mail'[p]) = Len(mail[p]) - 1
         /\ \A i \in 1 .. Len(mail'[p]) : mail'[p][i] = mail[p][i + 1]
<1>1. mail[p] \in Seq(Notices) BY DEF TypeOK
<1>2. mail[p] # <<>> /\ mail'[p] = Tail(mail[p]) BY ReceivesType
<1> HIDE DEF Notices
<1> QED BY <1>1, <1>2

\* Hearing an assignment, a client believes a grant it was given.
LEMMA AssignedIsHeard ==
  ASSUME TypeOK, NEW p \in People, Listens(p), HandleAssigned(p)
  PROVE  Listens(p)'
<1> DEFINE n == Head(mail[p])
           L == Len(mail[p])
<1>1. /\ L \in Nat /\ L >= 1 /\ mail[p][1] = n /\ Len(mail'[p]) = L - 1
      /\ \A i \in 1 .. Len(mail'[p]) : mail'[p][i] = mail[p][i + 1]
  BY MailTail DEF HandleAssigned
<1>2. UNCHANGED <<life, owner, epoch>> BY DEF HandleAssigned, server, ledger
<1>3. simulates'[p] = n.car /\ grant'[p] = n.epoch /\ IsAssigned(n)
  BY ReceivesType DEF HandleAssigned, TypeOK, IsAssigned
<1> HIDE DEF n
<1>4. GrantsOf(p)'
  <2>1. ASSUME NEW i \in 1 .. Len(mail'[p]), IsAssigned(mail'[p][i])
        PROVE  Granted(p, mail[p][i].car, mail[p][i].epoch)'
    <3>1. i + 1 \in 1 .. L /\ mail'[p][i] = mail[p][i + 1] BY <1>1
    <3>2. Granted(p, mail[p][i + 1].car, mail[p][i + 1].epoch)
      BY <2>1, <3>1 DEF Listens, GrantsOf
    <3> QED BY <1>2, <3>1, <3>2 DEF Granted
  <2>2. Granted(p, simulates[p], grant[p])'
    <3>1. Granted(p, n.car, n.epoch)
      <4>1. 1 \in 1 .. L BY <1>1
      <4> QED BY <1>1, <1>3, <4>1 DEF Listens, GrantsOf
    <3> QED BY <1>2, <1>3, <3>1 DEF Granted
  <2> QED BY <2>1, <2>2 DEF GrantsOf
<1>5. RevokesOf(p)'
  <2>1. ASSUME NEW i \in 1 .. Len(mail'[p]), IsAssigned(mail'[p][i]),
               owner'[mail'[p][i].car] # p
        PROVE  \E j \in i + 1 .. Len(mail'[p]) : Revokes(mail'[p][j], mail'[p][i].car)
    <3>1. i + 1 \in 1 .. L /\ mail'[p][i] = mail[p][i + 1] BY <1>1
    <3>2. PICK j \in (i + 1) + 1 .. L : Revokes(mail[p][j], mail[p][i + 1].car)
      BY <1>2, <2>1, <3>1 DEF Listens, RevokesOf
    <3>3. /\ j - 1 \in i + 1 .. Len(mail'[p]) /\ j - 1 \in 1 .. Len(mail'[p])
          /\ (j - 1) + 1 = j
      BY <1>1, <3>2
    <3>4. mail'[p][j - 1] = mail[p][j] BY <1>1, <3>3
    <3> QED BY <3>1, <3>2, <3>3, <3>4
  <2>2. ASSUME owner'[simulates'[p]] # p
        PROVE  \E j \in 1 .. Len(mail'[p]) : Revokes(mail'[p][j], simulates'[p])
    <3>1. 1 \in 1 .. L BY <1>1
    <3>2. PICK j \in 1 + 1 .. L : Revokes(mail[p][j], mail[p][1].car)
      BY <1>1, <1>2, <1>3, <2>2, <3>1 DEF Listens, RevokesOf
    <3>3. j - 1 \in 1 .. Len(mail'[p]) /\ (j - 1) + 1 = j BY <1>1, <3>2
    <3>4. mail'[p][j - 1] = mail[p][j] BY <1>1, <3>3
    <3> QED BY <1>1, <1>3, <3>2, <3>3, <3>4
  <2> QED BY <2>1, <2>2 DEF RevokesOf
<1> QED BY <1>4, <1>5 DEF Listens

\* Hearing a revocation, a client forgets the car it names and no other.
LEMMA RevokedIsHeard ==
  ASSUME TypeOK, NEW p \in People, Listens(p), HandleRevoked(p)
  PROVE  Listens(p)'
<1> DEFINE n == Head(mail[p])
           L == Len(mail[p])
<1>1. /\ L \in Nat /\ L >= 1 /\ mail[p][1] = n /\ Len(mail'[p]) = L - 1
      /\ \A i \in 1 .. Len(mail'[p]) : mail'[p][i] = mail[p][i + 1]
  BY MailTail DEF HandleRevoked
<1>2. UNCHANGED <<life, owner, epoch, grant>> BY DEF HandleRevoked, server, ledger
<1>3. simulates'[p] = IF simulates[p] = n.car THEN NoCar ELSE simulates[p]
  BY DEF HandleRevoked, Relinquish, TypeOK
<1> HIDE DEF n
<1>4. GrantsOf(p)'
  <2>1. ASSUME NEW i \in 1 .. Len(mail'[p]), IsAssigned(mail'[p][i])
        PROVE  Granted(p, mail[p][i].car, mail[p][i].epoch)'
    <3>1. i + 1 \in 1 .. L /\ mail'[p][i] = mail[p][i + 1] BY <1>1
    <3>2. Granted(p, mail[p][i + 1].car, mail[p][i + 1].epoch)
      BY <2>1, <3>1 DEF Listens, GrantsOf
    <3> QED BY <1>2, <3>1, <3>2 DEF Granted
  <2>2. ASSUME simulates'[p] # NoCar PROVE Granted(p, simulates[p], grant[p])'
    <3>1. simulates'[p] = simulates[p] BY <1>3, <2>2
    <3>2. Granted(p, simulates[p], grant[p]) BY <2>2, <3>1 DEF Listens, GrantsOf
    <3> QED BY <1>2, <3>1, <3>2 DEF Granted
  <2> QED BY <2>1, <2>2 DEF GrantsOf
<1>5. RevokesOf(p)'
  <2>1. ASSUME NEW i \in 1 .. Len(mail'[p]), IsAssigned(mail'[p][i]),
               owner'[mail'[p][i].car] # p
        PROVE  \E j \in i + 1 .. Len(mail'[p]) : Revokes(mail'[p][j], mail'[p][i].car)
    <3>1. i + 1 \in 1 .. L /\ mail'[p][i] = mail[p][i + 1] BY <1>1
    <3>2. PICK j \in (i + 1) + 1 .. L : Revokes(mail[p][j], mail[p][i + 1].car)
      BY <1>2, <2>1, <3>1 DEF Listens, RevokesOf
    <3>3. /\ j - 1 \in i + 1 .. Len(mail'[p]) /\ j - 1 \in 1 .. Len(mail'[p])
          /\ (j - 1) + 1 = j
      BY <1>1, <3>2
    <3>4. mail'[p][j - 1] = mail[p][j] BY <1>1, <3>3
    <3> QED BY <3>1, <3>2, <3>3, <3>4
  <2>2. ASSUME simulates'[p] # NoCar, owner'[simulates'[p]] # p
        PROVE  \E j \in 1 .. Len(mail'[p]) : Revokes(mail'[p][j], simulates'[p])
    <3>1. simulates'[p] = simulates[p] /\ simulates[p] # n.car BY <1>3, <2>2
    <3>2. PICK j \in 1 .. L : Revokes(mail[p][j], simulates[p])
      BY <1>2, <2>2, <3>1 DEF Listens, RevokesOf
    <3>3. j # 1 BY <1>1, <3>1, <3>2 DEF Revokes
    <3>4. j - 1 \in 1 .. Len(mail'[p]) /\ (j - 1) + 1 = j BY <1>1, <3>2, <3>3
    <3>5. mail'[p][j - 1] = mail[p][j] BY <1>1, <3>4
    <3> QED BY <3>1, <3>2, <3>4, <3>5
  <2> QED BY <2>1, <2>2 DEF RevokesOf
<1> QED BY <1>4, <1>5 DEF Listens

\* What clients and the network do keeps the grants.
LEMMA GrantsClient ==
  ASSUME TypeOK, Grants, NEW p \in People,
         \/ HandleMove \/ Lose \/ BoardMirror(p) \/ BoardOwn(p) \/ Alight(p)
         \/ HandleAssigned(p) \/ HandleRevoked(p) \/ Stream(p)
         \/ LeaveWorld(p) \/ EnterWorld(p) \/ Connect(p)
  PROVE  Grants'
<1>1. UNCHANGED ledger
  BY DEF HandleMove, Lose, BoardMirror, BoardOwn, Alight, HandleAssigned, HandleRevoked,
         Stream, LeaveWorld, EnterWorld, Connect, server
<1>2. UNCHANGED <<life, owner, epoch>> BY <1>1 DEF ledger
<1>3. ASSUME NEW q \in People PROVE Listens(q)'
  <2>0. Listens(q) BY DEF Grants
  <2>1. CASE HandleAssigned(p)
    <3>1. CASE q = p BY <2>0, <2>1, <3>1, AssignedIsHeard
    <3>2. CASE q # p
      <4>1. mail'[q] = mail[q] BY <2>1, <3>2, ReceivesType DEF HandleAssigned
      <4>2. simulates'[q] = simulates[q] /\ grant'[q] = grant[q]
        BY <2>1, <3>2 DEF HandleAssigned, TypeOK
      <4> QED BY <1>1, <2>0, <4>1, <4>2, LetsGo
    <3> QED BY <3>1, <3>2
  <2>2. CASE HandleRevoked(p)
    <3>1. CASE q = p BY <2>0, <2>2, <3>1, RevokedIsHeard
    <3>2. CASE q # p
      <4>1. mail'[q] = mail[q] BY <2>2, <3>2, ReceivesType DEF HandleRevoked
      <4>2. simulates'[q] = simulates[q] /\ grant'[q] = grant[q]
        BY <2>2, <3>2 DEF HandleRevoked, Relinquish, TypeOK
      <4> QED BY <1>1, <2>0, <4>1, <4>2, LetsGo
    <3> QED BY <3>1, <3>2
  <2>3. CASE /\ mail'[q] = mail[q]
             /\ simulates'[q] = NoCar \/ (simulates'[q] = simulates[q] /\ grant'[q] = grant[q])
    BY <1>1, <2>0, <2>3, LetsGo
  <2>4. CASE Alight(p) BY <2>3, <2>4 DEF Alight, TypeOK
  <2>5. CASE LeaveWorld(p) BY <2>3, <2>5 DEF LeaveWorld, DropVehicleState, TypeOK
  <2>6. CASE UNCHANGED <<mail, simulates, grant>> BY <2>3, <2>6
  <2> QED BY <2>1, <2>2, <2>4, <2>5, <2>6 DEF HandleMove, Lose, BoardMirror, BoardOwn,
             Stream, EnterWorld, Connect, server, client, ride
<1>4. PacketsGranted'
  <2>1. PacketsGranted BY DEF Grants
  <2>2. CASE moves' \subseteq moves BY <1>2, <2>1, <2>2 DEF PacketsGranted, Granted
  <2>3. CASE Stream(p)
    <3>1. Granted(p, simulates[p], grant[p]) BY <2>3 DEF Stream, Grants, Listens, GrantsOf
    <3>2. moves' = moves \cup {[from |-> p, car |-> simulates[p], epoch |-> grant[p]]}
      BY <2>3 DEF Stream
    <3> QED BY <1>2, <2>1, <3>1, <3>2 DEF PacketsGranted, Granted
  <2> QED BY <2>2, <2>3 DEF HandleMove, Lose, BoardMirror, BoardOwn, Alight,
             HandleAssigned, HandleRevoked, LeaveWorld, EnterWorld, Connect
<1>5. ShownUnderAGrant'
  <2>1. ShownUnderAGrant BY DEF Grants
  <2>2. CASE UNCHANGED shown BY <1>2, <2>1, <2>2 DEF ShownUnderAGrant
  <2>3. CASE HandleMove
    <3>1. PICK m \in moves :
            shown' = IF Accepts(m) THEN [shown EXCEPT ![m.car] = m.epoch] ELSE shown
      BY <2>3 DEF HandleMove
    <3>2. Accepts(m) => m.epoch = epoch[m.car] BY DEF Accepts
    <3>3. shown \in [Cars -> Nat] /\ epoch \in [Cars -> Nat] BY DEF TypeOK
    <3> QED BY <1>2, <2>1, <3>1, <3>2, <3>3 DEF ShownUnderAGrant
  <2> QED BY <2>2, <2>3 DEF Lose, BoardMirror, BoardOwn, Alight, HandleAssigned,
             HandleRevoked, Stream, LeaveWorld, EnterWorld, Connect, server
<1> QED BY <1>3, <1>4, <1>5 DEF Grants

-----------------------------------------------------------------------------
(* Theorems. *)

\* The server starts with nobody in the world and no grant.
LEMMA Initially == Init => IInv
<1> USE ConstantsAssumption
<1> SUFFICES ASSUME Init PROVE IInv OBVIOUS
<1>1. TypeOK
  <2>1. <<>> \in Seq(Requests) /\ <<>> \in Seq(Notices) OBVIOUS
  <2> HIDE DEF Requests, Notices
  <2> QED BY <2>1 DEF Init, TypeOK
<1>2. Seating
  BY DEF Init, Seating, Riders, UnmadeUntouched, OnePersonPerSeat, DriverSimulates,
         SimulatorsAreOnline, OnFoot
<1>3. Grants
  BY DEF Init, Grants, Listens, GrantsOf, RevokesOf, PacketsGranted, ShownUnderAGrant
<1> QED BY <1>1, <1>2, <1>3 DEF IInv

\* Every step keeps types, seats and grants.
LEMMA Inductive == IInv /\ [Next]_vars => IInv'
<1> SUFFICES ASSUME IInv, [Next]_vars PROVE IInv' OBVIOUS
<1>0. TypeOK /\ Seating /\ Riders /\ Grants BY DEF IInv, Seating
<1>1. ASSUME NEW p \in People,
             EnterNew(p) \/ EnterKnown(p) \/ EnterRefused(p) \/ Exit(p) \/ Leave(p) \/ Spawn(p)
      PROVE  IInv'
  <2>1. TypeOK' /\ Seating' BY <1>0, <1>1, ServerTypes, SeatingServer
  <2> QED BY <1>0, <1>1, <2>1, GrantsServer DEF IInv
<1>2. ASSUME NEW p \in People,
             \/ HandleMove \/ Lose \/ BoardMirror(p) \/ BoardOwn(p) \/ Alight(p)
             \/ HandleAssigned(p) \/ HandleRevoked(p) \/ Stream(p)
             \/ LeaveWorld(p) \/ EnterWorld(p) \/ Connect(p)
      PROVE  IInv'
  BY <1>0, <1>2, ClientTypes, SeatingClient, GrantsClient DEF IInv
<1>3. ASSUME NEW p \in People, Disconnect(p) PROVE IInv'
  <2>1. TypeOK' /\ Seating' BY <1>0, <1>3, DisconnectTypes, SeatingDisconnect
  <2> QED BY <1>0, <1>3, <2>1, GrantsDisconnect DEF IInv
<1>4. CASE HandleMove \/ Lose
  <2>1. \E p : p \in People BY <1>0, <1>4 DEF HandleMove, Lose, TypeOK, Packets
  <2> QED BY <1>2, <1>4, <2>1
<1>5. CASE UNCHANGED vars
  <2>1. UNCHANGED <<online, embodied, life, seat, owner, epoch, shown, requests, mail,
                    moves, inWorld, mirrors, simulates, grant, holds, mounted, slot, own>>
    BY <1>5 DEF vars, server, ledger, client, ride
  <2>2. TypeOK' BY <1>0, <2>1 DEF TypeOK
  <2>3. Seating'
    BY <1>0, <2>1 DEF Seating, Riders, UnmadeUntouched, OnePersonPerSeat, DriverSimulates,
                      SimulatorsAreOnline
  <2>4. Grants'
    BY <1>0, <2>1 DEF Grants, Listens, GrantsOf, RevokesOf, Granted, PacketsGranted,
                      ShownUnderAGrant
  <2> QED BY <2>2, <2>3, <2>4 DEF IInv
<1> QED BY <1>1, <1>2, <1>3, <1>4, <1>5 DEF Next

\* The inductive invariant holds throughout.
THEOREM Invariance == Spec => []IInv
BY Initially, Inductive, PTL DEF Spec

\* Every variable keeps its type.
THEOREM TypeCorrect == Spec => []TypeOK
BY Invariance, PTL DEF IInv

\* One person per seat, the driver is the simulator, simulators are connected.
THEOREM SeatsAreSafe == Spec => []SeatsSound
<1>1. IInv => SeatsSound
  BY DEF IInv, Seating, SeatsSound
<1> QED BY <1>1, Invariance, PTL

\* No movement of a previous simulator, in flight or still to be sent, can pass
\* for one of the current simulator.
THEOREM EpochsFence == Spec => []LatePacketsAreStale
<1>1. IInv => LatePacketsAreStale
  <2> SUFFICES ASSUME IInv PROVE LatePacketsAreStale OBVIOUS
  <2>1. ASSUME NEW m \in moves, m.epoch = epoch[m.car] PROVE m.from = owner[m.car]
    BY <2>1 DEF IInv, Grants, PacketsGranted, Granted
  <2>2. ASSUME NEW p \in People, simulates[p] # NoCar, grant[p] = epoch[simulates[p]]
        PROVE  owner[simulates[p]] = p
    BY <2>2 DEF IInv, Grants, Listens, GrantsOf, Granted
  <2> QED BY <2>1, <2>2 DEF LatePacketsAreStale
<1> QED BY <1>1, Invariance, PTL

\* A client that heard everything simulates a car only if it is the simulator.
THEOREM SimulatorsAgree == Spec => []NobodySimulatesInVain
<1>1. IInv => NobodySimulatesInVain
  <2> SUFFICES ASSUME IInv, NEW p \in People, mail[p] = <<>>, simulates[p] # NoCar
               PROVE  owner[simulates[p]] = p
    BY DEF NobodySimulatesInVain
  <2>1. 1 .. Len(mail[p]) = {} OBVIOUS
  <2> QED BY <2>1 DEF IInv, Grants, Listens, RevokesOf
<1> QED BY <1>1, Invariance, PTL

\* What is shown of a car never goes back to an earlier grant.
THEOREM ShownGoesForward == Spec => NoEarlierGrantShown
<1>1. IInv /\ [Next]_vars => \A c \in Cars : shown'[c] >= shown[c]
  <2> SUFFICES ASSUME IInv, [Next]_vars, NEW c \in Cars PROVE shown'[c] >= shown[c]
    OBVIOUS
  <2>1. shown \in [Cars -> Nat] /\ shown[c] \in Nat /\ shown[c] <= epoch[c]
    BY DEF IInv, TypeOK, Grants, ShownUnderAGrant
  <2>2. CASE UNCHANGED shown BY <2>1, <2>2
  <2>3. CASE HandleMove
    <3>1. PICK m \in moves :
            shown' = IF Accepts(m) THEN [shown EXCEPT ![m.car] = m.epoch] ELSE shown
      BY <2>3 DEF HandleMove
    <3>2. Accepts(m) => m.epoch = epoch[m.car] BY DEF Accepts
    <3> QED BY <2>1, <3>1, <3>2
  <2>4. CASE Next BY <2>2, <2>3, <2>4 DEF Next, Lose, EnterNew, EnterKnown, EnterRefused,
             Exit, Leave, Spawn, BoardMirror, BoardOwn, Alight, HandleAssigned,
             HandleRevoked, Stream, LeaveWorld, EnterWorld, Connect, Disconnect, server
  <2>5. CASE UNCHANGED vars BY <2>2, <2>5 DEF vars, server
  <2> QED BY <2>4, <2>5
<1> QED BY <1>1, Invariance, PTL DEF Spec, NoEarlierGrantShown

\* A step that changes a car's simulator gives the car to somebody who sits in
\* it, or parks it when everybody has left.
LEMMA Handovers ==
  ASSUME IInv, Next, NEW c \in Cars, owner'[c] # owner[c]
  PROVE  /\ owner'[c] # NoOne => seat'[owner'[c]].car = c
         /\ owner'[c] = NoOne => \A p \in People : seat'[p].car # c
<1> USE ConstantsAssumption
<1>1. /\ TypeOK /\ Riders
      /\ seat \in [People -> Places \cup {OnFoot}]
      /\ owner \in [Cars -> People \cup {NoOne}]
      /\ OnFoot.car = NoCar
  BY DEF IInv, Seating, TypeOK, OnFoot
<1>2. ASSUME NEW p \in People, NEW q \in Heirs(c, p), owner'[c] = q,
             seat'[p] = OnFoot, \A r \in People \ {p} : seat'[r] = seat[r]
      PROVE  /\ owner'[c] # NoOne => seat'[owner'[c]].car = c
             /\ owner'[c] = NoOne => \A r \in People : seat'[r].car # c
  <2>1. q = NoOne \/ (q \in People /\ q # p /\ seat[q].car = c) BY HeirsType
  <2>2. q = NoOne => Inside(c, p) = {} BY HeirsType
  <2>3. ASSUME q = NoOne, NEW r \in People PROVE seat'[r].car # c
    BY <1>1, <1>2, <2>2, <2>3 DEF Inside
  <2> QED BY <1>2, <2>1, <2>3
<1>3. ASSUME NEW p \in People, EnterNew(p) PROVE owner'[c] = p /\ seat'[p].car = c
  BY <1>1, <1>3 DEF EnterNew
<1>4. ASSUME NEW p \in People, EnterKnown(p) PROVE owner'[c] = p /\ seat'[p].car = c
  BY <1>1, <1>4 DEF EnterKnown, TakeSeat, TransferAuthority
<1>5. ASSUME NEW p \in People, Exit(p)
      PROVE  /\ owner'[c] # NoOne => seat'[owner'[c]].car = c
             /\ owner'[c] = NoOne => \A r \in People : seat'[r].car # c
  <2>1. Vacate(p, seat[p].car) BY <1>5 DEF Exit
  <2>2. PICK q \in Heirs(seat[p].car, p) : TransferAuthority(seat[p].car, q)
    BY <2>1 DEF Vacate
  <2>3. seat[p].car = c /\ owner'[c] = q BY <1>1, <2>2 DEF TransferAuthority
  <2>4. seat'[p] = OnFoot /\ \A r \in People \ {p} : seat'[r] = seat[r]
    BY <1>1, <2>1 DEF Vacate
  <2> QED BY <1>2, <2>2, <2>3, <2>4
<1>6. ASSUME NEW p \in People, Disconnect(p)
      PROVE  /\ owner'[c] # NoOne => seat'[owner'[c]].car = c
             /\ owner'[c] = NoOne => \A r \in People : seat'[r].car # c
  <2>1. PICK heir \in [Cars -> People \cup {NoOne}] :
          (\A d \in Cars : heir[d] \in Heirs(d, p)) /\ HandOver(p, heir)
    BY <1>6 DEF Disconnect
  <2>2. owner' = [d \in Cars |-> IF owner[d] = p THEN heir[d] ELSE owner[d]]
    BY <1>1, <2>1, HandOverEffect
  <2>3. owner'[c] = heir[c] /\ heir[c] \in Heirs(c, p) BY <2>1, <2>2
  <2>4. seat'[p] = OnFoot /\ \A r \in People \ {p} : seat'[r] = seat[r]
    BY <1>1, <1>6 DEF Disconnect
  <2> QED BY <1>2, <2>3, <2>4
<1>7. ASSUME UNCHANGED owner PROVE FALSE BY <1>7
<1>8. ASSUME NEW p \in People,
             \/ EnterRefused(p) \/ Leave(p) \/ Spawn(p) \/ BoardMirror(p) \/ BoardOwn(p)
             \/ Alight(p) \/ HandleAssigned(p) \/ HandleRevoked(p) \/ Stream(p)
             \/ LeaveWorld(p) \/ EnterWorld(p) \/ Connect(p)
      PROVE  FALSE
  BY <1>7, <1>8 DEF EnterRefused, Leave, Spawn, BoardMirror, BoardOwn, Alight,
     HandleAssigned, HandleRevoked, Stream, LeaveWorld, EnterWorld, Connect, server, ledger
<1>9. ASSUME HandleMove \/ Lose PROVE FALSE
  BY <1>7, <1>9 DEF HandleMove, Lose, server, ledger
<1>10. \A p \in People : p # NoOne OBVIOUS
<1> QED BY <1>3, <1>4, <1>5, <1>6, <1>8, <1>9, <1>10 DEF Next

\* A car changes hands only to somebody who sits in it.
THEOREM HeirsAreInside == Spec => HeirsSitInside
<1>1. IInv /\ [Next]_vars =>
        \A c \in Cars : owner'[c] # owner[c] /\ owner'[c] # NoOne => seat'[owner'[c]].car = c
  BY Handovers DEF vars, server, ledger
<1> QED BY <1>1, Invariance, PTL DEF Spec, HeirsSitInside

\* A car is parked only when nobody is left in it.
THEOREM ParkingIsLast == Spec => ParkedOnlyWhenEmpty
<1>1. IInv /\ [Next]_vars =>
        \A c \in Cars : owner'[c] # owner[c] /\ owner'[c] = NoOne
                          => \A p \in People : seat'[p].car # c
  BY Handovers DEF vars, server, ledger
<1> QED BY <1>1, Invariance, PTL DEF Spec, ParkedOnlyWhenEmpty
=============================================================================
