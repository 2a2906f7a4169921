------------------------- MODULE PossessionsProofs -------------------------
(***************************************************************************)
(* Proofs about Possessions, for any number of slots, characters and       *)
(* messages on the way: the invariant the runs check, and that nobody is   *)
(* put out of a slot while one is free.                                    *)
(*                                                                         *)
(* IInv is inductive as it stands.  No action but the restore says Live,   *)
(* and the only ways out of a world revoke it; nothing is Live while there *)
(* is no world, which carries it through WorldReady, where the body is the *)
(* template's again.  That a Live body has what the server sent last needs *)
(* that both messages that bring belongings arm a restore: the spawn's     *)
(* answer takes Live back besides, the kit's leaves it and is pending.     *)
(***************************************************************************)
EXTENDS Possessions, TLAPS

(* The type invariant in two: what is true or false, and the rest. *)
Flags ==
  /\ intent \in BOOLEAN /\ held \in BOOLEAN
  /\ join \in BOOLEAN /\ fresh \in BOOLEAN /\ failed \in BOOLEAN
  /\ pending \in BOOLEAN
  /\ open \in BOOLEAN /\ puppet \in BOOLEAN

Values ==
  /\ net \in {"off", "dialing", "on"}
  /\ state \in {"Connected", "Selected", "Restoring", "Live", "Detached"}
  /\ captured \in Things
  /\ ticks \in Nat /\ readyAt \in Nat /\ load \in Things
  /\ world \in {"menu", "creator", "loading", "in"}
  /\ body \in Things /\ age \in 0..Settle /\ restored \in {"none", "early", "settled"}
  /\ active \in Slots /\ slots \in [Slots -> Records] /\ born \in 0..MaxChars
  /\ up \in Seq(Requests) /\ down \in Seq(Answers)

\* The two are the invariant.
LEMMA TypeParts == TypeOK <=> Flags /\ Values
  BY Zenon DEF TypeOK, Flags, Values

\* The same after a step.
LEMMA TypePartsNext == TypeOK' <=> Flags' /\ Values'
  BY Zenon DEF TypeOK, Flags, Values

(* Messages. *)

\* What a client captures is somebody's belongings, and so its save a request.
LEMMA CaptureIsAThing ==
  ASSUME TypeOK PROVE Capture \in Things /\ Save \in Requests
  BY DEF TypeOK, Capture, Save, Things, Requests

\* The other requests and the answers.
LEMMA Kinds ==
  /\ [t |-> "spawn"] \in Requests /\ [t |-> "new"] \in Requests
  /\ [t |-> "leave"] \in Requests
  /\ \A s \in Slots : [t |-> "select", slot |-> s] \in Requests
  /\ [t |-> "capture"] \in Answers
  /\ \A x \in Things : [t |-> "spawned", of |-> x] \in Answers
  /\ \A x \in Things : [t |-> "kit", of |-> x] \in Answers
  BY DEF Requests, Answers

\* What a message holds is told by its kind.
LEMMA Contents ==
  /\ \A m \in Requests : m.t = "select" => m.slot \in Slots
  /\ \A m \in Requests : m.t = "save" => m.of \in Things
  /\ \A m \in Answers : m.t \in {"spawned", "kit"} => m.of \in Things
  BY DEF Requests, Answers

\* A queue read from the front.
LEMMA QueueEnds ==
  ASSUME NEW S, NEW q \in Seq(S), q # <<>>
  PROVE Head(q) \in S /\ Tail(q) \in Seq(S)
  OBVIOUS

\* A record's parts, and a record from its parts.
LEMMA RecordParts ==
  /\ \A r \in Records : r.id \in 0..MaxChars /\ r.of \in Things /\ r.kit \in {"granted", "owed"}
  /\ \A i \in 0..MaxChars, x \in Things, k \in {"granted", "owed"} :
       [id |-> i, of |-> x, kit |-> k] \in Records
  BY DEF Records

\* A save of a character leaves records of that character.
LEMMA SavedIsARecord ==
  ASSUME NEW r \in Records, NEW i \in 1..MaxChars, NEW x \in Things
  PROVE \A saved \in Saved(r, i, x) : saved \in Records /\ saved.id = i
<1>1. i \in 0..MaxChars /\ i \in Things BY PossessionsAssumption DEF Things
<1>2. r.of \in Things /\ r.kit \in {"granted", "owed"} BY RecordParts
<1>3. (IF x = Nothing THEN r.of ELSE x) \in Things BY <1>2
<1>4. [id |-> i, of |-> i, kit |-> "granted"] \in Records BY <1>1, RecordParts
<1>5. [id |-> i, of |-> IF x = Nothing THEN r.of ELSE x, kit |-> r.kit] \in Records
  BY <1>1, <1>2, <1>3, RecordParts
<1> QED BY <1>4, <1>5 DEF Saved

-----------------------------------------------------------------------------
(* The client's saves and its connection. *)

\* The timer sends what the body has.
LEMMA AutosaveKeeps == ASSUME IInv, Autosave PROVE IInv'
<1> USE DEF Autosave, SaveCharacterAppearance, dialled, character, restore, scene, store, server
<1>0. Capture \in Things /\ Save \in Requests BY CaptureIsAThing DEF IInv
<1>1. TypeOK' BY <1>0 DEF IInv, TypeOK
<1>2. LiveIsTheCharacter' BY DEF IInv, LiveIsTheCharacter
<1>3. CountdownsEnd' BY DEF IInv, CountdownsEnd
<1>4. SessionsHold' BY DEF IInv, SessionsHold
<1> QED BY <1>1, <1>2, <1>3, <1>4 DEF IInv

\* A closed mirror sends what the body has.
LEMMA PollKeeps == ASSUME IInv, PollAppearanceChanges PROVE IInv'
<1> USE DEF PollAppearanceChanges, SaveCharacterAppearance, dialled, character, restore, scene, store, server
<1>0. Capture \in Things /\ Save \in Requests BY CaptureIsAThing DEF IInv
<1>1. TypeOK' BY <1>0 DEF IInv, TypeOK
<1>2. LiveIsTheCharacter' BY DEF IInv, LiveIsTheCharacter
<1>3. CountdownsEnd' BY DEF IInv, CountdownsEnd
<1>4. SessionsHold' BY DEF IInv, SessionsHold
<1> QED BY <1>1, <1>2, <1>3, <1>4 DEF IInv

\* A dial touches only the connection.
LEMMA DialKeeps == ASSUME IInv, Dial PROVE IInv'
<1> USE DEF Dial, Connect, dialled, character, restore, scene, store, server
<1>1. TypeOK' BY DEF IInv, TypeOK
<1>2. LiveIsTheCharacter' BY DEF IInv, LiveIsTheCharacter
<1>3. CountdownsEnd' BY DEF IInv, CountdownsEnd
<1>4. SessionsHold' BY DEF IInv, SessionsHold
<1> QED BY <1>1, <1>2, <1>3, <1>4 DEF IInv

\* The session starts on both ends, and the spawn goes out or is held.
LEMMA AuthenticatedKeeps == ASSUME IInv, Authenticated PROVE IInv'
<1> USE DEF Authenticated, SpawnOrHold, dialled, character, restore, scene, store, server
<1>0. [t |-> "spawn"] \in Requests BY Kinds
<1>w. up' = up \/ up' = Append(up, [t |-> "spawn"]) BY Zenon
<1>u. up' \in Seq(Requests)
  <2> HIDE DEF Authenticated
  <2> QED BY <1>0, <1>w DEF IInv, TypeOK
<1>f. Flags' BY Zenon DEF IInv, TypeOK, Flags
<1>v. Values' BY <1>u, PossessionsAssumption DEF IInv, TypeOK, Values, Things
<1>1. TypeOK' BY <1>f, <1>v, TypePartsNext
<1>2. LiveIsTheCharacter' BY DEF IInv, LiveIsTheCharacter
<1>3. CountdownsEnd' BY DEF IInv, CountdownsEnd
<1>4. SessionsHold' BY DEF IInv, SessionsHold
<1> QED BY <1>1, <1>2, <1>3, <1>4 DEF IInv

\* The save on the way out; then no answer is expected.
LEMMA DisconnectKeeps == ASSUME IInv, Disconnect PROVE IInv'
<1> USE DEF Disconnect, LastSave, SaveCharacterAppearance, HangUp, dialled, character, restore, scene, store, server
<1>0. Capture \in Things /\ Save \in Requests BY CaptureIsAThing DEF IInv
<1>w. (up' = up \/ up' = Append(up, Save)) /\ (captured' = captured \/ captured' = Capture)
  BY Zenon
<1>u. up' \in Seq(Requests) /\ captured' \in Things BY <1>0, <1>w DEF IInv, TypeOK
<1>f. Flags' BY Zenon DEF IInv, TypeOK, Flags
<1>v. Values' BY <1>u, PossessionsAssumption DEF IInv, TypeOK, Values, Things
<1>1. TypeOK' BY <1>f, <1>v, TypePartsNext
<1>2. LiveIsTheCharacter' BY DEF IInv, LiveIsTheCharacter
<1>3. CountdownsEnd' BY DEF IInv, CountdownsEnd
<1>4. SessionsHold' BY DEF IInv, SessionsHold
<1> QED BY <1>1, <1>2, <1>3, <1>4 DEF IInv

\* The connection goes; what was on the way is forgotten with it.
LEMMA LostKeeps == ASSUME IInv, Lost PROVE IInv'
<1> USE DEF Lost, HangUp, dialled, character, restore, scene, store, server
<1>f. Flags' BY Zenon DEF IInv, TypeOK, Flags
<1>v. Values' BY PossessionsAssumption DEF IInv, TypeOK, Values, Things
<1>1. TypeOK' BY <1>f, <1>v, TypePartsNext
<1>2. LiveIsTheCharacter' BY DEF IInv, LiveIsTheCharacter
<1>3. CountdownsEnd' BY DEF IInv, CountdownsEnd
<1>4. SessionsHold' BY DEF IInv, SessionsHold
<1> QED BY <1>1, <1>2, <1>3, <1>4 DEF IInv

\* The puppet goes with its session.
LEMMA ClosedKeeps == ASSUME IInv, ConnectionClosed PROVE IInv'
<1> USE DEF ConnectionClosed, dialled, character, restore, scene, store, server
<1>f. Flags' BY Zenon DEF IInv, TypeOK, Flags
<1>v. Values' BY PossessionsAssumption DEF IInv, TypeOK, Values, Things
<1>1. TypeOK' BY <1>f, <1>v, TypePartsNext
<1>2. LiveIsTheCharacter' BY DEF IInv, LiveIsTheCharacter
<1>3. CountdownsEnd' BY DEF IInv, CountdownsEnd
<1>4. SessionsHold' BY DEF IInv, SessionsHold
<1> QED BY <1>1, <1>2, <1>3, <1>4 DEF IInv

-----------------------------------------------------------------------------
(* The menus and the world. *)

\* A slot that is one is asked for.
LEMMA ClickKeeps == ASSUME IInv, NEW s \in Slots, ClickSlot(s) PROVE IInv'
<1> USE DEF ClickSlot, dialled, character, restore, scene, store, server
<1>0. [t |-> "select", slot |-> s] \in Requests BY Kinds
<1>1. TypeOK' BY <1>0 DEF IInv, TypeOK
<1>2. LiveIsTheCharacter' BY DEF IInv, LiveIsTheCharacter
<1>3. CountdownsEnd' BY DEF IInv, CountdownsEnd
<1>4. SessionsHold' BY DEF IInv, SessionsHold
<1> QED BY <1>1, <1>2, <1>3, <1>4 DEF IInv

\* The puppet is given back.
LEMMA LeaveKeeps == ASSUME IInv, LeaveWorld PROVE IInv'
<1> USE DEF LeaveWorld, dialled, character, restore, scene, store, server
<1>0. [t |-> "leave"] \in Requests BY Kinds
<1>1. TypeOK' BY <1>0 DEF IInv, TypeOK
<1>2. LiveIsTheCharacter' BY DEF IInv, LiveIsTheCharacter
<1>3. CountdownsEnd' BY DEF IInv, CountdownsEnd
<1>4. SessionsHold' BY DEF IInv, SessionsHold
<1> QED BY <1>1, <1>2, <1>3, <1>4 DEF IInv

\* There is no body in a menu, so nothing is Live.
LEMMA PlayKeeps == ASSUME IInv, Play PROVE IInv'
<1> USE DEF Play, dialled, character, restore, scene, store, server
<1>1. TypeOK' BY DEF IInv, TypeOK
<1>2. LiveIsTheCharacter' BY DEF IInv, LiveIsTheCharacter
<1>3. CountdownsEnd' BY DEF IInv, CountdownsEnd
<1>4. SessionsHold' BY DEF IInv, SessionsHold
<1> QED BY <1>1, <1>2, <1>3, <1>4 DEF IInv

\* As Play, with a slot asked for.
LEMMA NewCharacterKeeps == ASSUME IInv, NewCharacter PROVE IInv'
<1> USE DEF NewCharacter, dialled, character, restore, scene, store, server
<1>0. \A s \in Slots : [t |-> "select", slot |-> s] \in Requests BY Kinds
<1>w. up' = up \/ \E s \in Slots : up' = Append(up, [t |-> "select", slot |-> s]) BY Zenon
<1>u. up' \in Seq(Requests)
  <2> HIDE DEF NewCharacter
  <2>1. up \in Seq(Requests) BY DEF IInv, TypeOK
  <2>2. \A q \in Requests : Append(up, q) \in Seq(Requests) BY <2>1
  <2> QED BY Zenon, <1>0, <1>w, <2>1, <2>2
<1>f. Flags' BY Zenon DEF IInv, TypeOK, Flags
<1>v. Values' BY <1>u, PossessionsAssumption DEF IInv, TypeOK, Values, Things
<1>1. TypeOK' BY <1>f, <1>v, TypePartsNext
<1>2. LiveIsTheCharacter' BY DEF IInv, LiveIsTheCharacter
<1>3. CountdownsEnd' BY DEF IInv, CountdownsEnd
<1>4. SessionsHold' BY DEF IInv, SessionsHold
<1> QED BY <1>1, <1>2, <1>3, <1>4 DEF IInv

\* A command typed in the world.
LEMMA TypeKeeps == ASSUME IInv, Type PROVE IInv'
<1> USE DEF Type, dialled, character, restore, scene, store, server
<1>0. \A command \in Commands : [t |-> command] \in Requests
  BY PossessionsAssumption DEF Requests
<1>1. TypeOK' BY <1>0 DEF IInv, TypeOK
<1>2. LiveIsTheCharacter' BY DEF IInv, LiveIsTheCharacter
<1>3. CountdownsEnd' BY DEF IInv, CountdownsEnd
<1>4. SessionsHold' BY DEF IInv, SessionsHold
<1> QED BY <1>1, <1>2, <1>3, <1>4 DEF IInv

\* From the creator one is still not in a world.
LEMMA CreatorKeeps == ASSUME IInv, LeaveCreator PROVE IInv'
<1> USE DEF LeaveCreator, dialled, character, restore, scene, store, server
<1>1. TypeOK' BY DEF IInv, TypeOK
<1>2. LiveIsTheCharacter' BY DEF IInv, LiveIsTheCharacter
<1>3. CountdownsEnd' BY DEF IInv, CountdownsEnd
<1>4. SessionsHold' BY DEF IInv, SessionsHold
<1> QED BY <1>1, <1>2, <1>3, <1>4 DEF IInv

\* A save is loaded from the menu, where nothing is Live.
LEMMA LoadKeeps == ASSUME IInv, LoadSave PROVE IInv'
<1> USE DEF LoadSave, dialled, character, restore, scene, store, server
<1>1. TypeOK' BY DEF IInv, TypeOK
<1>2. LiveIsTheCharacter' BY DEF IInv, LiveIsTheCharacter
<1>3. CountdownsEnd' BY DEF IInv, CountdownsEnd
<1>4. SessionsHold' BY DEF IInv, SessionsHold
<1> QED BY <1>1, <1>2, <1>3, <1>4 DEF IInv

\* The new body is the template's: nothing was Live while the world was loading.
LEMMA WorldReadyKeeps == ASSUME IInv, WorldReady PROVE IInv'
<1> USE DEF WorldReady, SpawnOrHold, Connect, dialled, character, restore, scene, store, server
<1>0. [t |-> "spawn"] \in Requests BY Kinds
<1>w. up' = up \/ up' = Append(up, [t |-> "spawn"]) BY Zenon
<1>u. up' \in Seq(Requests)
  <2> HIDE DEF WorldReady
  <2> QED BY <1>0, <1>w DEF IInv, TypeOK
<1>f. Flags' BY Zenon DEF IInv, TypeOK, Flags
<1>v. Values' BY <1>u, PossessionsAssumption DEF IInv, TypeOK, Values, Things
<1>1. TypeOK' BY <1>f, <1>v, TypePartsNext
<1>2. LiveIsTheCharacter' BY DEF IInv, LiveIsTheCharacter
<1>3. CountdownsEnd' BY DEF IInv, CountdownsEnd
<1>4. SessionsHold' BY DEF IInv, SessionsHold
<1> QED BY <1>1, <1>2, <1>3, <1>4 DEF IInv

\* The claim to the body goes with the body.
LEMMA DetachKeeps == ASSUME IInv, Detach PROVE IInv'
<1> USE DEF Detach, LastSave, SaveCharacterAppearance, dialled, character, restore, scene, store, server
<1>0. Capture \in Things /\ Save \in Requests BY CaptureIsAThing DEF IInv
<1>w. (up' = up \/ up' = Append(up, Save)) /\ (captured' = captured \/ captured' = Capture)
  BY Zenon
<1>u. up' \in Seq(Requests) /\ captured' \in Things BY <1>0, <1>w DEF IInv, TypeOK
<1>f. Flags' BY Zenon DEF IInv, TypeOK, Flags
<1>v. Values' BY <1>u, PossessionsAssumption DEF IInv, TypeOK, Values, Things
<1>1. TypeOK' BY <1>f, <1>v, TypePartsNext
<1>2. LiveIsTheCharacter' BY DEF IInv, LiveIsTheCharacter
<1>3. CountdownsEnd' BY DEF IInv, CountdownsEnd
<1>4. SessionsHold' BY DEF IInv, SessionsHold
<1> QED BY <1>1, <1>2, <1>3, <1>4 DEF IInv

-----------------------------------------------------------------------------
(* The restore and what the server says. *)

\* The next tick is a number.
LEMMA CountedIsANumber == ASSUME TypeOK PROVE Counted \in Nat
  BY PossessionsAssumption DEF TypeOK, Counted

\* The restore: it applies, says Live and ends its own countdown in one step.
LEMMA TickKeeps == ASSUME IInv, Tick PROVE IInv'
<1> USE DEF Tick, Restore, dialled, character, restore, scene, store, server
<1>0. Counted \in Nat BY CountedIsANumber DEF IInv
<1>a. age' \in 0..Settle BY PossessionsAssumption DEF IInv, TypeOK
<1>b. body' \in Things /\ load' \in Things
  <2>1. body \in Things /\ load \in Things BY DEF IInv, TypeOK
  <2> QED BY <2>1
<1>c. ticks' \in Nat /\ readyAt' \in Nat
  <2>1. ticks \in Nat /\ readyAt \in Nat BY DEF IInv, TypeOK
  <2>2. ticks' \in {ticks, Counted} /\ readyAt' \in {readyAt, Counted, 0} BY Zenon
  <2> QED BY <1>0, <2>1, <2>2
<1>f. Flags' BY Zenon DEF IInv, TypeOK, Flags
<1>v. Values' BY <1>a, <1>b, <1>c, PossessionsAssumption DEF IInv, TypeOK, Values, Things
<1>1. TypeOK' BY <1>f, <1>v, TypePartsNext
<1>2. LiveIsTheCharacter'
  <2>1. CASE pending /\ world = "in" /\ readyAt # 0 /\ CountdownOver
    <3>1. world' = "in" /\ load' = load /\ restored' = IF age = Settle THEN "settled" ELSE "early"
      BY <2>1
    <3>2. age = Settle => body' = IF load = Nothing THEN body ELSE load
      BY <2>1, PossessionsAssumption
    <3> QED BY <3>1, <3>2 DEF LiveIsTheCharacter
  <2>2. CASE ~(pending /\ world = "in" /\ readyAt # 0 /\ CountdownOver)
    <3>1. state' = state /\ world' = world /\ body' = body /\ load' = load
          /\ restored' = restored /\ pending' = pending
      BY Zenon, <2>2
    <3> QED BY <3>1 DEF IInv, LiveIsTheCharacter
  <2> QED BY <2>1, <2>2
<1>3. CountdownsEnd' BY DEF IInv, CountdownsEnd
<1>4. SessionsHold' BY DEF IInv, SessionsHold
<1> QED BY <1>1, <1>2, <1>3, <1>4 DEF IInv

\* The save the server asked for.
LEMMA OpenCreatorKeeps == ASSUME IInv, HandleOpenCharacterCreator PROVE IInv'
<1> USE DEF HandleOpenCharacterCreator, SaveCharacterAppearance, dialled, character, restore, scene, store, server
<1>0. Capture \in Things /\ Save \in Requests BY CaptureIsAThing DEF IInv
<1>a. Tail(down) \in Seq(Answers) BY QueueEnds DEF IInv, TypeOK
<1>w. (up' = up \/ up' = Append(up, Save)) /\ (captured' = captured \/ captured' = Capture)
  BY Zenon
<1>u. up' \in Seq(Requests) /\ captured' \in Things
  <2> HIDE DEF HandleOpenCharacterCreator, SaveCharacterAppearance
  <2>1. up \in Seq(Requests) /\ captured \in Things BY DEF IInv, TypeOK
  <2>2. Append(up, Save) \in Seq(Requests) BY <1>0, <2>1
  <2> QED BY <1>0, <1>w, <2>1, <2>2
<1>f. Flags' BY Zenon DEF IInv, TypeOK, Flags
<1>v. Values' BY <1>a, <1>u, PossessionsAssumption DEF IInv, TypeOK, Values, Things
<1>1. TypeOK' BY <1>f, <1>v, TypePartsNext
<1>2. LiveIsTheCharacter' BY DEF IInv, LiveIsTheCharacter
<1>3. CountdownsEnd' BY DEF IInv, CountdownsEnd
<1>4. SessionsHold' BY DEF IInv, SessionsHold
<1> QED BY <1>1, <1>2, <1>3, <1>4 DEF IInv

\* A spawn takes Live back; a countdown goes on only under a pending restore.
LEMMA SpawnResponseKeeps == ASSUME IInv, HandleSpawnCharacterResponse PROVE IInv'
<1> USE DEF HandleSpawnCharacterResponse, dialled, character, restore, scene, store, server
<1>0. Capture \in Things /\ Save \in Requests BY CaptureIsAThing DEF IInv
<1>a. Head(down).of \in Things /\ Tail(down) \in Seq(Answers)
  BY QueueEnds, Contents DEF IInv, TypeOK
<1>b. [t |-> "new"] \in Requests BY Kinds
<1>c. up' \in Seq(Requests)
  <2>1. up \in Seq(Requests) /\ <<>> \in Seq(Requests) /\ <<Save>> \in Seq(Requests)
        /\ <<[t |-> "new"]>> \in Seq(Requests)
    BY <1>0, <1>b DEF IInv, TypeOK
  <2>2. \A a, b \in Seq(Requests) : a \o b \in Seq(Requests) OBVIOUS
  <2> HIDE DEF Save
  <2>3. PICK first \in {<<>>, <<Save>>}, second \in {<<>>, <<Save>>} :
          up' = up \o first \o (IF fresh THEN <<[t |-> "new"]>> ELSE <<>>) \o second
    OBVIOUS
  <2> HIDE DEF HandleSpawnCharacterResponse
  <2>4. up \o first \in Seq(Requests) BY <2>1, <2>2
  <2>5. (IF fresh THEN <<[t |-> "new"]>> ELSE <<>>) \in Seq(Requests) BY <2>1
  <2>6. (up \o first) \o (IF fresh THEN <<[t |-> "new"]>> ELSE <<>>) \in Seq(Requests)
    BY <2>2, <2>4, <2>5
  <2>7. second \in Seq(Requests) BY <2>1
  <2> QED BY <2>2, <2>3, <2>6, <2>7
<1>d. captured' \in Things BY <1>0 DEF IInv, TypeOK
<1>e. load' \in Things BY <1>a, PossessionsAssumption DEF IInv, TypeOK, Things
<1>f. Flags' BY Zenon DEF IInv, TypeOK, Flags
<1>v. Values' BY <1>a, <1>c, <1>d, <1>e, PossessionsAssumption DEF IInv, TypeOK, Values, Things
<1>1. TypeOK' BY <1>f, <1>v, TypePartsNext
<1>2. LiveIsTheCharacter' BY DEF IInv, LiveIsTheCharacter
<1>3. CountdownsEnd' BY DEF IInv, CountdownsEnd
<1>4. SessionsHold' BY DEF IInv, SessionsHold
<1> QED BY <1>1, <1>2, <1>3, <1>4 DEF IInv

\* A granted kit makes a restore pending again.
LEMMA KitKeeps == ASSUME IInv, HandleNotifyPossessions PROVE IInv'
<1> USE DEF HandleNotifyPossessions, dialled, character, restore, scene, store, server
<1>a. Head(down).of \in Things /\ Tail(down) \in Seq(Answers)
  BY QueueEnds, Contents DEF IInv, TypeOK
<1>f. Flags' BY Zenon DEF IInv, TypeOK, Flags
<1>v. Values' BY <1>a, PossessionsAssumption DEF IInv, TypeOK, Values, Things
<1>1. TypeOK' BY <1>f, <1>v, TypePartsNext
<1>2. LiveIsTheCharacter' BY DEF IInv, LiveIsTheCharacter
<1>3. CountdownsEnd' BY DEF IInv, CountdownsEnd
<1>4. SessionsHold' BY DEF IInv, SessionsHold
<1> QED BY <1>1, <1>2, <1>3, <1>4 DEF IInv

-----------------------------------------------------------------------------
(* The server. *)

\* A puppet is spawned in a session only, and answered.
LEMMA SpawnRequestKeeps == ASSUME IInv, HandleSpawnCharacterRequest PROVE IInv'
<1> USE DEF HandleSpawnCharacterRequest, Receives, Tell, dialled, character, restore, scene, store, server
<1>t. Tail(up) \in Seq(Requests) BY QueueEnds DEF IInv, TypeOK
<1>a. active \in Slots /\ slots[active] \in Records BY DEF IInv, TypeOK
<1>b. slots[active].of \in Things BY <1>a, RecordParts
<1>c. [t |-> "capture"] \in Answers /\ [t |-> "spawned", of |-> slots[active].of] \in Answers
  BY <1>b, Kinds
<1>w. \/ down' = down
      \/ down' = down \o ((IF slots[active].id = 0 THEN <<[t |-> "capture"]>> ELSE <<>>)
                           \o <<[t |-> "spawned", of |-> slots[active].of]>>)
  BY Zenon
<1>d. down' \in Seq(Answers)
  <2> HIDE DEF HandleSpawnCharacterRequest
  <2>1. down \in Seq(Answers) /\ <<>> \in Seq(Answers) /\ <<[t |-> "capture"]>> \in Seq(Answers)
        /\ <<[t |-> "spawned", of |-> slots[active].of]>> \in Seq(Answers)
    BY <1>c DEF IInv, TypeOK
  <2>2. \A a, b \in Seq(Answers) : a \o b \in Seq(Answers) OBVIOUS
  <2> QED BY <1>w, <2>1, <2>2
<1>f. Flags' BY Zenon DEF IInv, TypeOK, Flags
<1>v. Values' BY <1>t, <1>d, PossessionsAssumption DEF IInv, TypeOK, Values, Things
<1>1. TypeOK' BY <1>f, <1>v, TypePartsNext
<1>2. LiveIsTheCharacter' BY DEF IInv, LiveIsTheCharacter
<1>3. CountdownsEnd' BY DEF IInv, CountdownsEnd
<1>4. SessionsHold' BY DEF IInv, SessionsHold
<1> QED BY <1>1, <1>2, <1>3, <1>4 DEF IInv

\* The client is asked for what it has.
LEMMA CharacterSaveKeeps == ASSUME IInv, CharacterSave PROVE IInv'
<1> USE DEF CharacterSave, Receives, Tell, dialled, character, restore, scene, store, server
<1>t. Tail(up) \in Seq(Requests) BY QueueEnds DEF IInv, TypeOK
<1>d. down' \in Seq(Answers) BY Kinds DEF IInv, TypeOK
<1>1. TypeOK' BY <1>t, <1>d DEF IInv, TypeOK
<1>2. LiveIsTheCharacter' BY DEF IInv, LiveIsTheCharacter
<1>3. CountdownsEnd' BY DEF IInv, CountdownsEnd
<1>4. SessionsHold' BY DEF IInv, SessionsHold
<1> QED BY <1>1, <1>2, <1>3, <1>4 DEF IInv

\* A puppet is released.
LEMMA LeaveRequestKeeps == ASSUME IInv, HandleLeaveWorldRequest PROVE IInv'
<1> USE DEF HandleLeaveWorldRequest, Receives, dialled, character, restore, scene, store, server
<1>t. Tail(up) \in Seq(Requests) BY QueueEnds DEF IInv, TypeOK
<1>f. Flags' BY Zenon DEF IInv, TypeOK, Flags
<1>v. Values' BY <1>t, PossessionsAssumption DEF IInv, TypeOK, Values, Things
<1>1. TypeOK' BY <1>f, <1>v, TypePartsNext
<1>2. LiveIsTheCharacter' BY DEF IInv, LiveIsTheCharacter
<1>3. CountdownsEnd' BY DEF IInv, CountdownsEnd
<1>4. SessionsHold' BY DEF IInv, SessionsHold
<1> QED BY <1>1, <1>2, <1>3, <1>4 DEF IInv

\* The account is pointed at a slot.
LEMMA SelectKeeps == ASSUME IInv, HandleSelectCharacterRequest PROVE IInv'
<1> USE DEF HandleSelectCharacterRequest, Receives, dialled, character, restore, scene, store, server
<1>t. Tail(up) \in Seq(Requests) BY QueueEnds DEF IInv, TypeOK
<1>a. Head(up).slot \in Slots BY QueueEnds, Contents DEF IInv, TypeOK
<1>1. TypeOK' BY <1>t, <1>a DEF IInv, TypeOK
<1>2. LiveIsTheCharacter' BY DEF IInv, LiveIsTheCharacter
<1>3. CountdownsEnd' BY DEF IInv, CountdownsEnd
<1>4. SessionsHold' BY DEF IInv, SessionsHold
<1> QED BY <1>1, <1>2, <1>3, <1>4 DEF IInv

\* A free slot, or an emptied one.
LEMMA NewKeeps == ASSUME IInv, CharacterNew PROVE IInv'
<1> USE DEF CharacterNew, Receives, dialled, character, restore, scene, store, server
<1>t. Tail(up) \in Seq(Requests) BY QueueEnds DEF IInv, TypeOK
<1>a. Empty \in Records BY PossessionsAssumption DEF Empty, Records, Things
<1>b. Free \subseteq Slots BY DEF Free
<1>1. TypeOK' BY <1>t, <1>a, <1>b DEF IInv, TypeOK
<1>2. LiveIsTheCharacter' BY DEF IInv, LiveIsTheCharacter
<1>3. CountdownsEnd' BY DEF IInv, CountdownsEnd
<1>4. SessionsHold' BY DEF IInv, SessionsHold
<1> QED BY <1>1, <1>2, <1>3, <1>4 DEF IInv

\* What a save leaves is a record, whoever's it is.
LEMMA SaveRequestKeeps == ASSUME IInv, HandleSaveCharacterRequest PROVE IInv'
<1> USE DEF HandleSaveCharacterRequest, Receives, Tell, dialled, character, restore, scene, store, server
<1>t. Tail(up) \in Seq(Requests) BY QueueEnds DEF IInv, TypeOK
<1>a. active \in Slots /\ slots[active] \in Records /\ born \in 0..MaxChars
  BY DEF IInv, TypeOK
<1>b. slots[active].id \in 0..MaxChars BY <1>a, RecordParts
<1>c. Head(up).of \in Things BY QueueEnds, Contents DEF IInv, TypeOK
<1> DEFINE id == IF slots[active].id = 0 THEN born + 1 ELSE slots[active].id
<1>d. id <= MaxChars => id \in 1..MaxChars /\ id \in Things
  BY <1>a, <1>b, PossessionsAssumption DEF Things
<1>e. id <= MaxChars => Saved(slots[active], id, Head(up).of) \subseteq Records
  BY <1>a, <1>c, <1>d, SavedIsARecord
<1>f. id <= MaxChars => [t |-> "kit", of |-> id] \in Answers BY <1>d, Kinds
<1>i. slots \in [Slots -> Records] /\ down \in Seq(Answers) BY DEF IInv, TypeOK
<1>j. \/ \E saved \in Saved(slots[active], id, Head(up).of) :
          /\ id <= MaxChars
          /\ slots' = [slots EXCEPT ![active] = saved]
          /\ born' = IF slots[active].id = 0 THEN id ELSE born
          /\ down' = IF net = "on"
                     THEN down \o IF slots[active].kit # saved.kit
                                  THEN <<[t |-> "kit", of |-> id]>> ELSE <<>>
                     ELSE down
      \/ slots' = slots /\ born' = born /\ down' = down
  BY Zenon
<1> HIDE DEF HandleSaveCharacterRequest
<1>k. id <= MaxChars => id \in 0..MaxChars BY <1>d
<1> HIDE DEF id
<1>g. slots' \in [Slots -> Records] /\ born' \in 0..MaxChars
  BY <1>a, <1>k, <1>e, <1>i, <1>j
<1>h. down' \in Seq(Answers)
  <2>1. id <= MaxChars => <<[t |-> "kit", of |-> id]>> \in Seq(Answers) BY <1>f
  <2>2. <<>> \in Seq(Answers) OBVIOUS
  <2>3. \A a, b \in Seq(Answers) : a \o b \in Seq(Answers) OBVIOUS
  <2> QED BY <1>i, <1>j, <2>1, <2>2, <2>3
<1> USE DEF HandleSaveCharacterRequest
<1>1. TypeOK' BY <1>t, <1>g, <1>h DEF IInv, TypeOK
<1>2. LiveIsTheCharacter' BY DEF IInv, LiveIsTheCharacter
<1>3. CountdownsEnd' BY DEF IInv, CountdownsEnd
<1>4. SessionsHold' BY DEF IInv, SessionsHold
<1> QED BY <1>1, <1>2, <1>3, <1>4 DEF IInv

-----------------------------------------------------------------------------
(* The theorems. *)

\* It starts so.
LEMMA InitHolds == ASSUME Init PROVE IInv
<1>1. Empty \in Records BY PossessionsAssumption DEF Empty, Records, Things
<1>f. Flags BY Zenon DEF Init, Flags
<1>v. Values BY <1>1, PossessionsAssumption DEF Init, Values, Slots, Things
<1>2. TypeOK BY <1>f, <1>v, TypeParts
<1> QED BY <1>2 DEF Init, IInv, LiveIsTheCharacter, CountdownsEnd, SessionsHold

\* And every step keeps it.
LEMMA StepKeeps == ASSUME IInv, [Next]_vars PROVE IInv'
<1>1. CASE Menus
  BY <1>1, ClickKeeps, LeaveKeeps, PlayKeeps, NewCharacterKeeps, TypeKeeps, CreatorKeeps, LoadKeeps DEF Menus
<1>2. CASE Session
  BY <1>2, DialKeeps, AuthenticatedKeeps, DisconnectKeeps, LostKeeps, ClosedKeeps DEF Session
<1>3. CASE Saving
  BY <1>3, AutosaveKeeps, PollKeeps DEF Saving
<1>4. CASE WorldReady BY <1>4, WorldReadyKeeps
<1>5. CASE Detach BY <1>5, DetachKeeps
<1>6. CASE Tick BY <1>6, TickKeeps
<1>7. CASE ClientHandles
  BY <1>7, OpenCreatorKeeps, SpawnResponseKeeps, KitKeeps DEF ClientHandles
<1>8. CASE ServerHandles
  BY <1>8, SpawnRequestKeeps, LeaveRequestKeeps, SelectKeeps, NewKeeps,
      CharacterSaveKeeps, SaveRequestKeeps DEF ServerHandles
<1>9. CASE UNCHANGED vars
  BY <1>9 DEF vars, dialled, character, restore, scene, store, server, IInv, TypeOK,
      LiveIsTheCharacter, CountdownsEnd, SessionsHold, Things
<1> QED BY <1>1, <1>2, <1>3, <1>4, <1>5, <1>6, <1>7, <1>8, <1>9 DEF Next

\* Live is only said of a body that a restore was applied to in its world, and
\* one restored settled with nothing pending has what the server sent last, so
\* that is what MaySaveCharacter lets out; no countdown outlives its restore, and
\* puppets and answers have a session: for any number of slots, ticks, characters
\* and messages.
THEOREM OnlyTheRestoredAreLive == Spec => []IInv
<1>1. Init => IInv BY InitHolds
<1>2. IInv /\ [Next]_vars => IInv' BY StepKeeps
<1> QED BY <1>1, <1>2, PTL DEF Spec

\* SlotsKeepTheirCharacters, of one step.
SlotsStep ==
  \A s \in Slots :
    slots[s].id # 0 /\ slots'[s].id # slots[s].id =>
      /\ \A r \in Slots : slots[r].id # 0
      /\ up # <<>> /\ Head(up).t = "new"

\* A save keeps the id of whom it finds.
LEMMA SaveKeepsSlots == ASSUME IInv, HandleSaveCharacterRequest PROVE SlotsStep
<1> DEFINE id == IF slots[active].id = 0 THEN born + 1 ELSE slots[active].id
<1>1. \A saved \in Saved(slots[active], id, Head(up).of) : saved.id = id BY DEF Saved
<1>2. slots \in [Slots -> Records] BY DEF IInv, TypeOK
<1>3. CASE slots' = slots BY <1>3 DEF SlotsStep
<1>4. ASSUME NEW saved \in Saved(slots[active], id, Head(up).of),
             slots' = [slots EXCEPT ![active] = saved]
      PROVE SlotsStep
  <2> SUFFICES ASSUME NEW s \in Slots, slots[s].id # 0 PROVE slots'[s].id = slots[s].id
    BY DEF SlotsStep
  <2>1. CASE s = active BY <1>1, <1>2, <1>4, <2>1
  <2>2. CASE s # active BY <1>2, <1>4, <2>2
  <2> QED BY <2>1, <2>2
<1> QED BY <1>3, <1>4 DEF HandleSaveCharacterRequest

\* A character is retired only where no slot is free.
LEMMA NewKeepsSlots == ASSUME IInv, CharacterNew PROVE SlotsStep
<1>1. up # <<>> /\ Head(up).t = "new" BY DEF CharacterNew, Receives
<1>2. CASE Free # {} BY <1>2 DEF CharacterNew, SlotsStep
<1>3. CASE Free = {} BY <1>1, <1>3 DEF SlotsStep, Free
<1> QED BY <1>2, <1>3

\* Whatever is created, selected, saved or restored, nobody is put out of a slot
\* while one is free (FirstFreeSlot before RetireCharacter), for any number of
\* slots.
THEOREM NobodyIsReplaced == Spec => SlotsKeepTheirCharacters
<1>1. IInv /\ [Next]_vars => [SlotsStep]_vars
  <2> SUFFICES ASSUME IInv, [Next]_vars PROVE SlotsStep \/ UNCHANGED vars OBVIOUS
  <2>1. slots' = slots => SlotsStep BY DEF SlotsStep
  <2>2. CASE CharacterNew BY <2>2, NewKeepsSlots
  <2>3. CASE HandleSaveCharacterRequest BY <2>3, SaveKeepsSlots
  <2> USE DEF store, server
  <2>4. CASE Menus
    BY <2>1, <2>4 DEF Menus, ClickSlot, LeaveWorld, Play, NewCharacter, Type, LeaveCreator, LoadSave
  <2>5. CASE Session
    BY <2>1, <2>5 DEF Session, Dial, Authenticated, Disconnect, Lost, ConnectionClosed
  <2>6. CASE Saving BY <2>1, <2>6 DEF Saving, Autosave, PollAppearanceChanges
  <2>7. CASE WorldReady \/ Detach \/ Tick BY <2>1, <2>7 DEF WorldReady, Detach, Tick
  <2>8. CASE ClientHandles
    BY <2>1, <2>8 DEF ClientHandles, HandleOpenCharacterCreator, HandleSpawnCharacterResponse,
        HandleNotifyPossessions
  <2>9. CASE HandleSpawnCharacterRequest \/ HandleLeaveWorldRequest \/ HandleSelectCharacterRequest
            \/ CharacterSave
    BY <2>1, <2>9 DEF HandleSpawnCharacterRequest, HandleLeaveWorldRequest,
        HandleSelectCharacterRequest, CharacterSave
  <2> QED BY <2>2, <2>3, <2>4, <2>5, <2>6, <2>7, <2>8, <2>9 DEF Next, ServerHandles
<1>2. Spec => []IInv BY OnlyTheRestoredAreLive
<1> QED BY <1>1, <1>2, PTL DEF Spec, SlotsKeepTheirCharacters, SlotsStep
=============================================================================
