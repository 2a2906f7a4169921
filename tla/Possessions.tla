---------------------------- MODULE Possessions ----------------------------
(***************************************************************************)
(* Whose belongings end up in whose record: the client's character         *)
(* lifecycle (NetworkWorldSystem's m_characterState, its saves and its     *)
(* restore), the spawn that NetworkService holds back, the server's        *)
(* handlers for the spawn, the save and the slots, and the ordered         *)
(* messages between them.  One account, whose client is connected at most  *)
(* once.                                                                   *)
(*                                                                         *)
(* Every world is built from a local save, so the body in it starts out    *)
(* with the template's belongings; only a restore makes it the server's    *)
(* character.  Belongings are told apart by whose they are.                *)
(***************************************************************************)
EXTENDS Integers, Sequences

CONSTANTS
  SlotCount,    \* SlotsForLevel of the account
  Settle,       \* the restore's 180 ticks
  MaxChars,     \* bound: characters ever created
  Commands,     \* bound: what is typed, of /character save and new
  MaxQueue      \* bound: messages on the way, both ways together, when the client
                \* sends one that nothing asked for

ASSUME PossessionsAssumption ==
  /\ SlotCount \in Nat \ {0} /\ Settle \in Nat \ {0}
  /\ MaxChars \in Nat /\ MaxQueue \in Nat
  /\ Commands \subseteq {"ask", "new"}

Slots == 1..SlotCount
Template == 0
Nothing == -1        \* has_possessions is false; no capture was made
Things == {Nothing, Template} \cup 1..MaxChars

\* A slot: the character in it (0 for nobody), whose belongings its record
\* holds, and StarterKitGranted.
Records == [id : 0..MaxChars, of : Things, kit : {"granted", "owed"}]
Empty == [id |-> 0, of |-> Nothing, kit |-> "owed"]

Requests == [t : {"spawn", "new", "leave", "ask"}]
              \cup [t : {"select"}, slot : Slots]
              \cup [t : {"save"}, of : Things]
Answers == [t : {"capture"}] \cup [t : {"spawned", "kit"}, of : Things]

VARIABLES
  net,        \* the client's connection: off, dialing, on
  intent,     \* m_spawnAuthorized
  held,       \* m_spawnDeferred
  join,       \* m_joinRequested
  fresh,      \* m_newCharacterPending
  state,      \* m_characterState
  failed,     \* m_appearanceRestore is Failed
  captured,   \* the captured buffers
  pending,    \* m_restorePending
  ticks,      \* m_restoreTicks
  readyAt,    \* m_restoreReadyAt
  load,       \* the restore buffers
  world,      \* where the game is: menu, creator, loading, in
  body,       \* whose belongings the body in the world has
  age,        \* ticks since there is a body, up to Settle
  restored,   \* whether a restore was applied to this body: none, early (when the
              \* body was not yet settled) or settled
  open,       \* the server's end of the connection
  puppet,     \* PlayerComponent::Puppet is alive
  active,     \* ActiveSlot
  slots,      \* the account's characters, by slot
  born,       \* characters created so far
  up, down    \* messages on the way to the server and to the client

dialled == <<net, intent, held>>
character == <<fresh, state, failed, captured>>
restore == <<pending, ticks, readyAt, load>>
scene == <<world, body, age, restored>>
store == <<active, slots, born>>
server == <<open, puppet, store>>
vars == <<dialled, join, character, restore, scene, server, up, down>>

Init ==
  /\ net = "off" /\ intent = FALSE /\ held = FALSE /\ join = FALSE
  /\ fresh = FALSE /\ state = "Connected" /\ failed = FALSE /\ captured = Nothing
  /\ pending = FALSE /\ ticks = 0 /\ readyAt = 0 /\ load = Nothing
  /\ world = "menu" /\ body = Nothing /\ age = 0 /\ restored = "none"
  /\ open = FALSE /\ puppet = FALSE
  /\ active = 1 /\ slots = [s \in Slots |-> Empty] /\ born = 0
  /\ up = <<>> /\ down = <<>>

\* The bound on what the client sends of itself.
Room == Len(up) + Len(down) < MaxQueue

-----------------------------------------------------------------------------
(* The client's saves. *)

MaySaveCharacter == ~failed /\ (state = "Live" \/ fresh)

\* CaptureInventory: with no player the buffers stay as they were.
Capture == IF world = "in" THEN body ELSE captured

Save == [t |-> "save", of |-> Capture]

\* SaveCharacterAppearance, when there is a customization state to send; without
\* one it does nothing.
SaveCharacterAppearance ==
  /\ captured' = Capture
  /\ up' = Append(up, Save)

\* The ninety-second timer.
Autosave ==
  /\ net = "on" /\ ~pending /\ MaySaveCharacter /\ Room
  /\ SaveCharacterAppearance
  /\ UNCHANGED <<dialled, join, fresh, state, failed, restore, scene, server, down>>

\* A mirror or the creator was closed.
PollAppearanceChanges ==
  /\ net = "on" /\ MaySaveCharacter /\ Room
  /\ SaveCharacterAppearance
  /\ UNCHANGED <<dialled, join, fresh, state, failed, restore, scene, server, down>>

\* The save on the way out of a world and before the socket closes.
LastSave ==
  \/ /\ net = "on" /\ ~pending /\ MaySaveCharacter /\ Room
     /\ SaveCharacterAppearance
  \/ UNCHANGED <<captured, up>>

-----------------------------------------------------------------------------
(* Connecting. *)

\* SendSpawnCharacterRequest: held unless it was asked for and there is a player.
SpawnOrHold(asked) ==
  IF asked /\ world' = "in"
  THEN held' = FALSE /\ up' = Append(up, [t |-> "spawn"])
  ELSE held' = TRUE /\ up' = up

\* Connect: the intent is taken, and then Close forgets it if a dial was under
\* way.
Connect(inWorld) ==
  /\ ~open /\ net # "on"
  /\ net' = "dialing"
  /\ intent' = (inWorld /\ net = "off")
  /\ held' = FALSE

Dial ==
  /\ world \in {"menu", "in"}
  /\ Connect(world = "in")
  /\ UNCHANGED <<join, character, restore, scene, server, up, down>>

\* HandleAuthentication, of an answer that lets the player in.
Authenticated ==
  /\ net = "dialing"
  /\ net' = "on" /\ open' = TRUE
  /\ UNCHANGED <<intent, join, character, restore, scene, puppet, store, down>>
  /\ SpawnOrHold(intent)

\* OnDisconnected; the answers still on their way are not for the next session.
HangUp ==
  /\ net' = "off" /\ intent' = FALSE /\ held' = FALSE
  /\ down' = <<>>

\* Disconnect: what was sent still arrives.
Disconnect ==
  /\ net = "on" /\ world = "in"
  /\ LastSave
  /\ HangUp
  /\ UNCHANGED <<join, fresh, state, failed, restore, scene, server>>

\* Refused, timed out or crashed on the wire.
Lost ==
  /\ net # "off"
  /\ HangUp
  /\ up' = <<>>
  /\ UNCHANGED <<join, character, restore, scene, server>>

-----------------------------------------------------------------------------
(* The menus and the world. *)

\* A card with a character on it is clicked.
ClickSlot(s) ==
  /\ world = "menu" /\ net = "on" /\ Room
  /\ slots[s].id # 0
  /\ up' = Append(up, [t |-> "select", slot |-> s])
  /\ UNCHANGED <<dialled, join, character, restore, scene, server, down>>

\* The selector opens.
LeaveWorld ==
  /\ world = "menu" /\ net = "on" /\ Room
  /\ up' = Append(up, [t |-> "leave"])
  /\ UNCHANGED <<dialled, join, character, restore, scene, server, down>>

\* PLAY, once the roster is there: a character's world, or the creator.
Play ==
  /\ world = "menu" /\ net = "on" /\ up = <<>>
  /\ join' = TRUE
  /\ IF slots[active].id # 0
     THEN world' = "loading" /\ fresh' = fresh
     ELSE world' = "creator" /\ fresh' = TRUE
  /\ UNCHANGED <<dialled, state, failed, captured, restore, body, age, restored, server, up, down>>

\* MULTIPLAYER - NEW CHARACTER.  With a connection the account is pointed at an
\* empty slot first, and with none empty the creation is not armed.
NewCharacter ==
  /\ world = "menu" /\ net # "dialing" /\ up = <<>>
  /\ join' = TRUE
  /\ \/ /\ net = "off"
        /\ world' = "creator" /\ fresh' = TRUE /\ up' = up
     \/ \E s \in Slots :
          /\ net = "on" /\ slots[s].id = 0
          /\ world' = "creator" /\ fresh' = TRUE
          /\ up' = Append(up, [t |-> "select", slot |-> s])
     \/ /\ net = "on" /\ \A s \in Slots : slots[s].id # 0
        /\ UNCHANGED <<world, fresh, up>>
  /\ UNCHANGED <<dialled, state, failed, captured, restore, body, age, restored, server, down>>

\* /character save and /character new confirm, typed in the world.
Type ==
  /\ world = "in" /\ net = "on" /\ Room
  /\ \E command \in Commands : up' = Append(up, [t |-> command])
  /\ UNCHANGED <<dialled, join, character, restore, scene, server, down>>

LeaveCreator ==
  /\ world = "creator"
  /\ world' \in {"menu", "loading"}
  /\ UNCHANGED <<dialled, join, character, restore, body, age, restored, server, up, down>>

\* A single player save.
LoadSave ==
  /\ world = "menu"
  /\ world' = "loading"
  /\ UNCHANGED <<dialled, join, character, restore, body, age, restored, server, up, down>>

\* The HUD controller's OnInitialize and ConsumeJoinRequest: the held spawn goes
\* out (EnterWorld), or a dial is made from inside the world.
WorldReady ==
  /\ world = "loading"
  /\ world' = "in" /\ body' = Template /\ age' = 0 /\ restored' = "none"
  /\ join' = FALSE
  /\ IF ~join \/ (net = "on" /\ ~held) THEN UNCHANGED <<dialled, up>>
     ELSE IF net = "on"
     THEN net' = net /\ intent' = TRUE /\ SpawnOrHold(TRUE)
     ELSE Connect(TRUE) /\ up' = up
  /\ UNCHANGED <<character, restore, server, down>>

\* OnBeforeWorldDetach: quitting to the menu, loading a save, dying.
Detach ==
  /\ world = "in"
  /\ LastSave
  /\ world' \in {"menu", "loading"}
  /\ body' = Nothing /\ age' = 0 /\ restored' = "none"
  /\ state' = "Detached" /\ failed' = FALSE
  /\ UNCHANGED <<dialled, join, fresh, restore, server, down>>

-----------------------------------------------------------------------------
(* The restore. *)

\* Wrong on purpose: the restore leaves itself pending.
RestoreAgain ==
  /\ body' \in {IF load = Nothing THEN body ELSE load}
                 \cup IF age < Settle THEN {body} ELSE {}
  /\ restored' = IF age = Settle THEN "settled" ELSE "early"
  /\ failed' \in {failed, TRUE, FALSE}
  /\ state' = "Live"
  /\ pending' = pending /\ readyAt' = 0

\* RestorePossessions and ApplyStoredAppearance.  In a world that has not
\* settled the script may not run, though the call succeeds.
Restore ==
  /\ body' \in {IF load = Nothing THEN body ELSE load}
                 \cup IF age < Settle THEN {body} ELSE {}
  /\ restored' = IF age = Settle THEN "settled" ELSE "early"
  /\ failed' \in {failed, TRUE, FALSE}
  /\ state' = "Live"
  /\ pending' = FALSE /\ readyAt' = 0

\* While there is no player the ticks matter no more once they are past the
\* first.
Counted ==
  LET next == ticks + 1 IN
  IF readyAt = 0 /\ next > 2 THEN 2
  ELSE IF readyAt # 0 /\ next > readyAt + Settle THEN readyAt + Settle ELSE next

\* m_restoreTicks - m_restoreReadyAt >= 180, of unsigned numbers.
CountdownOver == Counted < readyAt \/ Counted - readyAt >= Settle

\* One frame of Update.
Tick ==
  /\ age' = IF world = "in" /\ age < Settle THEN age + 1 ELSE age
  /\ IF ~pending THEN UNCHANGED <<body, restored, failed, state, restore>>
     ELSE /\ ticks' = Counted /\ load' = load
          /\ IF world = "in" /\ readyAt # 0 /\ CountdownOver THEN Restore
             ELSE /\ readyAt' = IF world = "in" /\ readyAt = 0 THEN Counted ELSE readyAt
                  /\ UNCHANGED <<body, restored, failed, state, pending>>
  /\ UNCHANGED <<dialled, join, fresh, captured, world, server, up, down>>

-----------------------------------------------------------------------------
(* What the server says. *)

\* HandleOpenCharacterCreator with capture_only.
HandleOpenCharacterCreator ==
  /\ down # <<>> /\ Head(down).t = "capture"
  /\ down' = Tail(down)
  /\ SaveCharacterAppearance \/ UNCHANGED <<captured, up>>
  /\ UNCHANGED <<dialled, join, fresh, state, failed, restore, scene, server>>

\* HandleSpawnCharacterResponse: the character's belongings are kept for the
\* restore, those of a character that is to be replaced are not; with nothing
\* stored what the body has is sent up.  A creation then retires and saves.
HandleSpawnCharacterResponse ==
  /\ down # <<>> /\ Head(down).t = "spawned"
  /\ down' = Tail(down)
  /\ LET stored == Head(down).of # Nothing
         retire == [t |-> "new"] IN
     /\ state' = IF stored THEN "Restoring" ELSE "Selected"
     /\ pending' = (pending \/ stored)
     /\ load' = IF ~stored THEN load ELSE IF fresh THEN Nothing ELSE Head(down).of
     /\ fresh' = FALSE
     /\ \E first, second \in {<<>>, <<Save>>} :
          /\ stored => first = <<>>
          /\ ~fresh => second = <<>>
          /\ up' = up \o first \o (IF fresh THEN <<retire>> ELSE <<>>) \o second
          /\ captured' = IF first = <<>> /\ second = <<>> THEN captured ELSE Capture
  /\ UNCHANGED <<dialled, join, failed, ticks, readyAt, scene, server>>

\* Wrong on purpose: the kit is taken for the character's and nothing is armed.
KitWithoutRestore ==
  /\ down # <<>> /\ Head(down).t = "kit"
  /\ down' = Tail(down)
  /\ load' = Head(down).of
  /\ fresh' = FALSE
  /\ ticks' = 0
  /\ UNCHANGED <<dialled, join, state, failed, captured, pending, readyAt, scene, server, up>>

\* HandleNotifyPossessions: the ticks start again, what the countdown started at
\* stays.
HandleNotifyPossessions ==
  /\ down # <<>> /\ Head(down).t = "kit"
  /\ down' = Tail(down)
  /\ load' = Head(down).of
  /\ fresh' = FALSE
  /\ pending' = TRUE /\ ticks' = 0
  /\ UNCHANGED <<dialled, join, state, failed, captured, readyAt, scene, server, up>>

-----------------------------------------------------------------------------
(* The server. *)

Tell(answers) == down' = IF net = "on" THEN down \o answers ELSE down

Receives(t) == open /\ up # <<>> /\ Head(up).t = t /\ up' = Tail(up)

\* OnDisconnection, after what was still under way.
ConnectionClosed ==
  /\ open /\ net # "on" /\ up = <<>>
  /\ open' = FALSE /\ puppet' = FALSE
  /\ UNCHANGED <<dialled, join, character, restore, scene, store, up, down>>

\* Level::HandleSpawnCharacterRequest.  A position or a customization state that
\* makes no sense is refused: the answer has no id, and the client does nothing
\* with it.
HandleSpawnCharacterRequest ==
  /\ Receives("spawn")
  /\ \/ /\ puppet' = TRUE
        /\ Tell((IF slots[active].id = 0 THEN <<[t |-> "capture"]>> ELSE <<>>)
                  \o <<[t |-> "spawned", of |-> slots[active].of]>>)
     \/ UNCHANGED <<puppet, down>>
  /\ UNCHANGED <<dialled, join, character, restore, scene, open, store>>

\* /character save: the client is asked for what it has right now.
CharacterSave ==
  /\ Receives("ask")
  /\ Tell(<<[t |-> "capture"]>>)
  /\ UNCHANGED <<dialled, join, character, restore, scene, open, puppet, store>>

\* HandleLeaveWorldRequest.
HandleLeaveWorldRequest ==
  /\ Receives("leave")
  /\ puppet' = FALSE
  /\ UNCHANGED <<dialled, join, character, restore, scene, open, store, down>>

\* HandleSelectCharacterRequest: refused while the puppet is alive.
HandleSelectCharacterRequest ==
  /\ Receives("select")
  /\ active' = IF puppet THEN active ELSE Head(up).slot
  /\ UNCHANGED <<dialled, join, character, restore, scene, open, puppet, slots, born, down>>

Free == {s \in Slots : slots[s].id = 0}

\* /character new confirm: the first free slot if there is one, else the
\* character goes.
CharacterNew ==
  /\ Receives("new")
  /\ \/ \E s \in Free :
          /\ \A r \in Free : s <= r
          /\ active' = s /\ slots' = slots
     \/ /\ Free = {}
        /\ active' = active /\ slots' = [slots EXCEPT ![active] = Empty]
  /\ UNCHANGED <<dialled, join, character, restore, scene, open, puppet, born, down>>

\* The records a save may leave: what the client holds if it says, and the
\* starter kit instead where that is still owed, the client knows its life path
\* and the path has a kit.
Saved(record, id, of) ==
  {[id |-> id, of |-> IF of = Nothing THEN record.of ELSE of, kit |-> record.kit]}
    \cup IF record.kit = "owed" /\ of # Nothing
         THEN {[id |-> id, of |-> id, kit |-> "granted"]} ELSE {}

\* HandleSaveCharacterRequest.  The body of somebody else may be of the other
\* sex, and then an established character's save is refused whole.
HandleSaveCharacterRequest ==
  /\ Receives("save")
  /\ LET record == slots[active]
         of == Head(up).of
         id == IF record.id = 0 THEN born + 1 ELSE record.id IN
     \/ \E saved \in Saved(record, id, of) :
          /\ id <= MaxChars
          /\ slots' = [slots EXCEPT ![active] = saved]
          /\ born' = IF record.id = 0 THEN id ELSE born
          /\ Tell(IF record.kit # saved.kit THEN <<[t |-> "kit", of |-> id]>> ELSE <<>>)
     \/ /\ record.id # 0 /\ of # record.id
        /\ UNCHANGED <<slots, born, down>>
  /\ UNCHANGED <<dialled, join, character, restore, scene, open, puppet, active>>

-----------------------------------------------------------------------------
Menus ==
  \/ \E s \in Slots : ClickSlot(s)
  \/ LeaveWorld \/ Play \/ NewCharacter \/ Type \/ LeaveCreator \/ LoadSave

Session == Dial \/ Authenticated \/ Disconnect \/ Lost \/ ConnectionClosed

Saving == Autosave \/ PollAppearanceChanges

ClientHandles ==
  \/ HandleOpenCharacterCreator \/ HandleSpawnCharacterResponse
  \/ HandleNotifyPossessions

ServerHandles ==
  \/ HandleSpawnCharacterRequest \/ HandleLeaveWorldRequest
  \/ HandleSelectCharacterRequest \/ CharacterNew \/ CharacterSave
  \/ HandleSaveCharacterRequest

Next ==
  \/ Menus \/ Session \/ Saving \/ WorldReady \/ Detach \/ Tick
  \/ ClientHandles \/ ServerHandles

\* The game draws frames whatever happens.
Spec == Init /\ [][Next]_vars /\ WF_vars(Tick)

-----------------------------------------------------------------------------
(* Properties. *)

TypeOK ==
  /\ net \in {"off", "dialing", "on"} /\ intent \in BOOLEAN /\ held \in BOOLEAN
  /\ join \in BOOLEAN /\ fresh \in BOOLEAN
  /\ state \in {"Connected", "Selected", "Restoring", "Live", "Detached"}
  /\ failed \in BOOLEAN /\ captured \in Things
  /\ pending \in BOOLEAN /\ ticks \in Nat /\ readyAt \in Nat /\ load \in Things
  /\ world \in {"menu", "creator", "loading", "in"}
  /\ body \in Things /\ age \in 0..Settle /\ restored \in {"none", "early", "settled"}
  /\ open \in BOOLEAN /\ puppet \in BOOLEAN
  /\ active \in Slots /\ slots \in [Slots -> Records] /\ born \in 0..MaxChars
  /\ up \in Seq(Requests) /\ down \in Seq(Answers)

\* "Live ... the body in the world IS this character": Live is said only of a
\* body that a restore was applied to in this very world, and once a settled
\* restore was and none waits, that body has the belongings the server sent last.
\* What a save then carries is the character's.  (RestoresAreSettled is about the
\* early ones.)
LiveIsTheCharacter ==
  state = "Live" =>
    /\ world = "in" /\ restored # "none"
    /\ restored = "settled" /\ ~pending /\ load # Nothing => body = load

\* Only a counting restore has a tick it started at, so the next one counts anew
\* (Update's reset).
CountdownsEnd == ~pending => readyAt = 0

\* A puppet and a message to the client have a session.
SessionsHold ==
  /\ net = "on" => open
  /\ puppet => open
  /\ down # <<>> => net = "on"

IInv == TypeOK /\ LiveIsTheCharacter /\ CountdownsEnd /\ SessionsHold

\* Whoever is in a slot stays there, whatever is saved, created or selected,
\* unless every slot is taken and somebody asked for a new character: "a free
\* slot means nothing gets retired".
SlotsKeepTheirCharacters ==
  [][\A s \in Slots :
       slots[s].id # 0 /\ slots'[s].id # slots[s].id =>
         /\ \A r \in Slots : slots[r].id # 0
         /\ up # <<>> /\ Head(up).t = "new"]_vars


\* A restore that waits comes, as long as there is a body to give to.
RestoresCome == (pending /\ world = "in") ~> (~pending \/ world # "in")

\* "Every restore gets the same three seconds the first one gets."
RestoresAreSettled == [][state # "Live" /\ state' = "Live" => age = Settle]_vars
=============================================================================
