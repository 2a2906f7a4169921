------------------------------- MODULE Calls -------------------------------
(***************************************************************************)
(* Phone calls between characters: the sessions and the history of         *)
(* CallStore.h, BeginCall, ControlCall, EndCallFor and TickCalls of        *)
(* ChatSystem.cpp, and the phone of the client, which shows what the last  *)
(* NotifyCall said and sends its buttons with the id of the call it shows. *)
(*                                                                         *)
(* The server's handlers run one at a time.  Between a client and the      *)
(* server lie two reliable channels, so a notice is shown and a button     *)
(* arrives after whatever else happened meanwhile.                         *)
(***************************************************************************)
EXTENDS Naturals, Sequences, FiniteSets

CONSTANTS
  Accounts,        \* Discord accounts, at most one connection each
  Chars,           \* character ids; a character's number stands for it
  NoChar,          \* an empty slot
  Owner,           \* the account of each character
  StartSlot,       \* the character each account's slot holds at server start
  SlotCount,       \* how many slots each account is entitled to
  Blockable,       \* bound: who may block which number
  RingSeconds,     \* kCallRingSeconds
  HistoryCap,      \* kCallHistoryCap
  MaxCalls,        \* bound: calls begun
  Mortal,          \* bound: who may be retired
  MaxNotices,      \* bound: notices to one client before the next is caused
  MaxPressed       \* bound: clients with a button on its way

NoCall == 0        \* the empty call id
CallIds == 1 .. MaxCalls
Actions == {"answer", "decline", "hangup"}
Results == {"completed", "declined", "missed", "busy", "cancelled", "failed"}

ASSUME ConstantsAssumption ==
  /\ NoChar \notin Chars
  /\ Owner \in [Chars -> Accounts]
  /\ SlotCount \in [Accounts -> Nat]
  /\ StartSlot \in [Accounts -> Chars \cup {NoChar}]
  /\ \A acct \in Accounts : StartSlot[acct] \in Chars => Owner[StartSlot[acct]] = acct
  /\ Blockable \subseteq Chars \X Chars
  /\ RingSeconds \in Nat \ {0}
  /\ HistoryCap \in Nat \ {0}
  /\ MaxCalls \in Nat
  /\ MaxNotices \in Nat /\ MaxPressed \in Nat

VARIABLES
  online,     \* the accounts with a connection
  slot,       \* per account, the character in its ActiveSlot
  live,       \* the characters that have not been retired
  blocked,    \* per character, the numbers it has blocked
  sessions,   \* CallStore::m_sessions
  history,    \* per character, its lines of CallStore::m_history
  begun,      \* how many calls were begun; the last id given
  up,         \* per account, buttons pressed, on their way to the server
  down,       \* per account, notices on their way to the client
  phone       \* per account, the call its phone shows

people == <<online, slot, live>>
store == <<sessions, history, begun>>
vars == <<people, blocked, store, up, down, phone>>

-----------------------------------------------------------------------------
(* Reading the stores. *)

\* PlayerStore::FindCharacter
HasCharacter(acct) == slot[acct] \in live

\* ChatSystem::FindByActiveCharacter: somebody is holding this phone right now.
Holding(c) == c \in live /\ Owner[c] \in online /\ slot[Owner[c]] = c

Parties(s) == {s.caller, s.target}
Active(c, among) == {s \in among : c \in Parties(s)}

\* CallSession::Other
Other(s, c) == IF s.caller = c THEN s.target ELSE s.caller

\* CallStore::ConnectedPartner, what the voice relay asks for every frame.
ConnectedPartner(c) == {Other(s, c) : s \in {t \in Active(c, sessions) : t.state = "connected"}}

\* CallStore::Record drops the character's oldest line beyond the cap.
Recorded(lines, line) ==
  LET all == Append(lines, line)
  IN  IF Len(all) > HistoryCap THEN Tail(all) ELSE all

\* The line of c about s; a call has a duration once it was connected.
LineFor(s, c, result) ==
  [call |-> s.id, way |-> IF c = s.caller THEN "out" ELSE "in",
   other |-> Other(s, c), result |-> result, talked |-> s.state = "connected"]

\* Wrong on purpose: for whoever was rung the call was missed, however it ended.
FiledAsMissed(over, result) ==
  [c \in Chars |->
     IF \E s \in over : c \in Parties(s)
     THEN LET s == CHOOSE t \in over : c \in Parties(t)
          IN  Recorded(history[c], LineFor(s, c, IF c = s.target THEN "missed" ELSE result))
     ELSE history[c]]

\* The two lines CallStore::End writes for a call, one per participant.
Filed(over, result) ==
  [c \in Chars |->
     IF \E s \in over : c \in Parties(s)
     THEN Recorded(history[c], LineFor(CHOOSE s \in over : c \in Parties(s), c, result))
     ELSE history[c]]

\* CallStore::End and Sweep; a session that is over is not found again.
End(over, result) ==
  /\ sessions' = sessions \ over
  /\ history' = Filed(over, result)

-----------------------------------------------------------------------------
(* AnnounceCall: a NotifyCall to each side that is holding the phone, caller *)
(* first.                                                                    *)

Notice(s, state, c) == [call |-> s.id, state |-> state, incoming |-> c = s.target]

\* The holders of the calls, each with the notice it gets.
Announce(calls, state) ==
  down' = [acct \in Accounts |->
             IF Holding(slot[acct]) /\ Active(slot[acct], calls) # {}
             THEN Append(down[acct], Notice(CHOOSE s \in Active(slot[acct], calls) : TRUE,
                                            state, slot[acct]))
             ELSE down[acct]]

RoomForAll == \A acct \in Accounts : Len(down[acct]) < MaxNotices

-----------------------------------------------------------------------------
Init ==
  /\ online = {}
  /\ slot = StartSlot
  /\ live = Chars
  /\ blocked = [c \in Chars |-> {}]
  /\ sessions = {}
  /\ history = [c \in Chars |-> <<>>]
  /\ begun = 0
  /\ up = [acct \in Accounts |-> <<>>]
  /\ down = [acct \in Accounts |-> <<>>]
  /\ phone = [acct \in Accounts |-> {}]

-----------------------------------------------------------------------------
(* The client.  The phone is a set of at most one shown call. *)

\* SendCallControl: a button carries the id of the call being shown.
Press(acct, action) ==
  /\ acct \in online
  /\ Cardinality({a \in Accounts : up[a] # <<>>}) < MaxPressed
  /\ \E shown \in phone[acct] :
       up' = [up EXCEPT ![acct] = Append(@, [call |-> shown.call, action |-> action])]
  /\ UNCHANGED <<people, blocked, store, down, phone>>

\* HandleNotifyCall: replaced wholesale, and cleared by any call that is over.
Hear(acct) ==
  /\ down[acct] # <<>>
  /\ LET n == Head(down[acct])
     IN  phone' = [phone EXCEPT ![acct] =
                     IF n.state \in {"ringing", "connected"} THEN {n} ELSE {}]
  /\ down' = [down EXCEPT ![acct] = Tail(@)]
  /\ UNCHANGED <<people, blocked, store, up>>

-----------------------------------------------------------------------------
(* Ringing.  What is dialled is judged by what the server knows when it      *)
(* arrives, so dialling and BeginCall are one step.                          *)

Session(me, c) ==
  [id |-> begun + 1, caller |-> me, target |-> c, state |-> "ringing", age |-> 0]

\* The caller is free, the number exists, is not its own and not blocked.
MayRing(me, c) ==
  /\ Active(me, sessions) = {}
  /\ c \in live /\ c # me
  /\ c \notin blocked[me]

\* Offline and "they blocked you" answer identically.
Answers(me, c) == Holding(c) /\ me \notin blocked[c]

Dials(acct, c) ==
  /\ acct \in online /\ HasCharacter(acct)
  /\ MayRing(slot[acct], c) /\ Answers(slot[acct], c)
  /\ begun < MaxCalls /\ RoomForAll
  /\ begun' = begun + 1
  /\ UNCHANGED <<people, blocked, up, phone>>

\* Wrong on purpose: the target may be on another call.
RingsAnybody(acct, c) ==
  LET s == Session(slot[acct], c)
  IN  /\ Dials(acct, c)
      /\ sessions' = sessions \cup {s}
      /\ Announce({s}, "ringing")
      /\ UNCHANGED history

\* BeginCall: the phone rings.
BeginCall(acct, c) ==
  LET s == Session(slot[acct], c)
  IN  /\ Dials(acct, c)
      /\ Active(c, sessions) = {}
      /\ sessions' = sessions \cup {s}
      /\ Announce({s}, "ringing")
      /\ UNCHANGED history

\* BeginCall: begun and ended in one breath, so both histories show the attempt.
BeginBusyCall(acct, c) ==
  LET s == Session(slot[acct], c)
  IN  /\ Dials(acct, c)
      /\ Active(c, sessions) # {}
      /\ history' = Filed({s}, "busy")
      /\ Announce({s}, "busy")
      /\ UNCHANGED sessions

-----------------------------------------------------------------------------
(* ControlCall. *)

\* Wrong on purpose: the id that was sent is not compared.
TheCallIAmIn(acct, id) == IF HasCharacter(acct) THEN Active(slot[acct], sessions) ELSE {}

\* The sender's own call is found first and then compared with the id sent.
TheCallMeant(acct, id) ==
  IF HasCharacter(acct) THEN {s \in Active(slot[acct], sessions) : id \in {NoCall, s.id}}
  ELSE {}

\* Answer and decline are the target's, and only while it rings.
Effective(acct, s, action) ==
  action \in {"answer", "decline"} => s.target = slot[acct] /\ s.state = "ringing"

Answered(s) ==
  [id |-> s.id, caller |-> s.caller, target |-> s.target, state |-> "connected", age |-> 0]

Answer(s) ==
  /\ sessions' = (sessions \ {s}) \cup {Answered(s)}
  /\ Announce({s}, "connected")
  /\ UNCHANGED history

Finish(s, result) == End({s}, result) /\ Announce({s}, result)

\* The caller may have walked away between the ring and the answer.
Controlled(s, action) ==
  \/ /\ action = "answer"
     /\ IF Holding(s.caller) THEN Answer(s) ELSE Finish(s, "failed")
  \/ action = "decline" /\ Finish(s, "declined")
  \/ /\ action = "hangup"
     /\ Finish(s, IF s.state = "connected" THEN "completed" ELSE "cancelled")

ControlCall(acct, id, action) ==
  /\ RoomForAll
  /\ \/ \E s \in TheCallMeant(acct, id) : Effective(acct, s, action) /\ Controlled(s, action)
     \/ /\ \A s \in TheCallMeant(acct, id) : ~Effective(acct, s, action)
        /\ UNCHANGED <<sessions, history, down>>
  /\ UNCHANGED <<people, blocked, begun, phone>>

\* HandleCallControlRequest
HandleButton(acct) ==
  /\ up[acct] # <<>>
  /\ ControlCall(acct, Head(up[acct]).call, Head(up[acct]).action)
  /\ up' = [up EXCEPT ![acct] = Tail(@)]

\* /answer, /decline, /hangup carry no id: whatever the player is in.
TypeControl(acct, action) ==
  /\ acct \in online
  /\ ControlCall(acct, NoCall, action)
  /\ UNCHANGED up

-----------------------------------------------------------------------------
(* Everything else that ends a call, or changes whose it is. *)

\* Wrong on purpose: whoever leaves takes the call along in silence.
Abandons(c) ==
  /\ sessions' = sessions \ Active(c, sessions)
  /\ UNCHANGED history

\* ChatSystem::EndCallFor: ended for good, and the other side is told in chat;
\* no NotifyCall is sent.
EndCallFor(c) == End(Active(c, sessions), "completed")

EndOwnCall(acct) ==
  IF HasCharacter(acct) THEN EndCallFor(slot[acct]) ELSE UNCHANGED <<sessions, history>>

Connect(acct) ==
  /\ acct \notin online
  /\ online' = online \cup {acct}
  /\ UNCHANGED <<slot, live, blocked, store, up, down, phone>>

\* OnDisconnection.  What is in flight is lost; the phone keeps what it showed
\* unless the game itself is gone.
Disconnect(acct) ==
  /\ acct \in online
  /\ online' = online \ {acct}
  /\ EndOwnCall(acct)
  /\ up' = [up EXCEPT ![acct] = <<>>]
  /\ down' = [down EXCEPT ![acct] = <<>>]
  /\ phone' \in {phone, [phone EXCEPT ![acct] = {}]}
  /\ UNCHANGED <<slot, live, blocked, begun>>

\* PlayerStore::FirstFreeSlot
HasFreeSlot(acct) ==
  Cardinality({c \in live : Owner[c] = acct}) < SlotCount[acct]

\* HandleSelectCharacterRequest ends the outgoing character's call before it
\* asks whether the slot may be selected; a refusal leaves the slot as it was.
SelectCharacter(acct, c) ==
  /\ acct \in online
  /\ \/ c \in live /\ Owner[c] = acct
     \/ c = NoChar /\ HasFreeSlot(acct)
     \/ c = slot[acct]
  /\ EndOwnCall(acct)
  /\ slot' = [slot EXCEPT ![acct] = c]
  /\ UNCHANGED <<online, live, blocked, begun, up, down, phone>>

\* /character new arms a free slot, or retires the active character when full;
\* HandleDeleteCharacterRequest retires any.  Neither ends a call.
NewCharacter(acct) ==
  /\ acct \in online /\ HasFreeSlot(acct)
  /\ slot' = [slot EXCEPT ![acct] = NoChar]
  /\ UNCHANGED <<online, live, blocked, store, up, down, phone>>

Retire(acct, c) ==
  /\ acct \in online
  /\ c \in live \cap Mortal /\ Owner[c] = acct
  /\ live' = live \ {c}
  /\ UNCHANGED <<online, slot, blocked, store, up, down, phone>>

\* /block and /unblock, the active character's.
SetBlocked(acct, c) ==
  /\ acct \in online /\ HasCharacter(acct)
  /\ <<slot[acct], c>> \in Blockable
  /\ blocked' = [blocked EXCEPT ![slot[acct]] =
                   IF c \in @ THEN @ \ {c} ELSE @ \cup {c}]
  /\ UNCHANGED <<people, store, up, down, phone>>

\* CallStore::Expired
Expired == {s \in sessions : s.state = "ringing" /\ s.age + 1 >= RingSeconds}

Older(s) ==
  [s EXCEPT !.age = IF s.state = "ringing" THEN s.age + 1 ELSE s.age]

\* Wrong on purpose: the timer only looks.
TicksOn ==
  /\ sessions # {}
  /\ sessions' = {IF s \in Expired THEN s ELSE Older(s) : s \in sessions}
  /\ UNCHANGED <<people, blocked, history, begun, up, down, phone>>

\* GameServer::ExpireCalls, once a second: ChatSystem::TickCalls.
TickCalls ==
  /\ sessions # {}
  /\ sessions' = {Older(s) : s \in sessions \ Expired}
  /\ history' = Filed(Expired, "missed")
  /\ Announce(Expired, "missed")
  /\ UNCHANGED <<people, blocked, begun, up, phone>>

-----------------------------------------------------------------------------
Client(acct) ==
  \/ Hear(acct)
  \/ \E action \in Actions : Press(acct, action)

Handlers(acct) ==
  \/ \E c \in Chars : BeginCall(acct, c) \/ BeginBusyCall(acct, c)
  \/ HandleButton(acct)
  \/ \E action \in Actions : TypeControl(acct, action)

Lifecycle(acct) ==
  \/ Connect(acct)
  \/ Disconnect(acct)
  \/ NewCharacter(acct)
  \/ \E c \in Chars \cup {NoChar} : SelectCharacter(acct, c)
  \/ \E c \in Chars : Retire(acct, c) \/ SetBlocked(acct, c)

Next ==
  \/ \E acct \in Accounts : Client(acct) \/ Handlers(acct) \/ Lifecycle(acct)
  \/ TickCalls

\* Players owe the server nothing; only its own timer is bound to run.
Spec == Init /\ [][Next]_vars /\ WF_vars(TickCalls)

-----------------------------------------------------------------------------
Sessions == [id : CallIds, caller : Chars, target : Chars,
             state : {"ringing", "connected"}, age : 0 .. RingSeconds - 1]
Lines == [call : CallIds, way : {"out", "in"}, other : Chars, result : Results,
          talked : BOOLEAN]
Notices == [call : CallIds, state : {"ringing", "connected"} \cup Results,
            incoming : BOOLEAN]
Buttons == [call : CallIds, action : Actions]

TypeOK ==
  /\ online \subseteq Accounts
  /\ slot \in [Accounts -> Chars \cup {NoChar}]
  /\ live \subseteq Chars
  /\ blocked \in [Chars -> SUBSET Chars]
  /\ sessions \subseteq Sessions
  /\ history \in [Chars -> Seq(Lines)]
  /\ begun \in 0 .. MaxCalls
  /\ up \in [Accounts -> Seq(Buttons)]
  /\ down \in [Accounts -> Seq(Notices)]
  /\ phone \in [Accounts -> SUBSET Notices]

SlotsOwned == \A acct \in Accounts : slot[acct] \in Chars => Owner[slot[acct]] = acct

\* A character is in at most one call and never in one with itself, so "the
\* call" of BeginCall, ControlCall and the voice relay means one thing.
OneCallEach ==
  /\ \A s, t \in sessions : Parties(s) \cap Parties(t) # {} => s = t
  /\ \A s \in sessions : s.caller # s.target

\* A history never speaks of a call still going on, and never twice of one
\* ("cannot end without being recorded and cannot be recorded twice").
HistoryIsOver ==
  \A c \in Chars :
    /\ Len(history[c]) <= HistoryCap
    /\ \A i \in 1 .. Len(history[c]) :
         /\ history[c][i].call <= begun
         /\ \A s \in sessions : s.id # history[c][i].call
         /\ \A j \in 1 .. i - 1 : history[c][j].call # history[c][i].call

\* Ids were given once each.
IdsNameOneCall ==
  \A s \in sessions : s.id <= begun /\ \A t \in sessions : s.id = t.id => s = t

IInv == TypeOK /\ SlotsOwned /\ OneCallEach /\ IdsNameOneCall /\ HistoryIsOver

\* The voice of somebody on a call goes to one other person, who is on that
\* same call (ConnectedPartner, read for every frame of voice).
VoiceIsBetweenTwo ==
  \A c, d \in Chars :
    d \in ConnectedPartner(c) => ConnectedPartner(c) = {d} /\ ConnectedPartner(d) = {c}

\* Both people's last line is about the call that just ended and they agree on
\* how it ended; nobody else's history changes (CallStore::End).
BothSidesRecorded ==
  [][\A s \in sessions :
       (\A t \in sessions' : t.id # s.id) =>
         LET last(c) == history'[c][Len(history'[c])]
         IN  /\ last(s.caller).call = s.id /\ last(s.target).call = s.id
             /\ last(s.caller).result = last(s.target).result
             /\ last(s.caller).talked = last(s.target).talked]_vars

\* A button carries a call id and never touches another call: a button
\* pressed a moment too late acts on nothing (ControlCall).
ButtonsMeanTheirCall ==
  [][\A acct \in Accounts :
       HandleButton(acct) =>
         \A s \in sessions : s.id # Head(up[acct]).call => s \in sessions']_vars

\* A telephone as the people using it know it.
AsCall(s) == [from |-> s.caller, to |-> s.target, state |-> s.state]
AsCalls(S) == {AsCall(s) : s \in S}
LineCounts == [c \in Chars |-> Len(history[c])]

Line == INSTANCE Telephone WITH
  Cap <- HistoryCap, calls <- AsCalls(sessions), lines <- LineCounts

\* Ids, channels, slots and timers add up to a telephone.
ImplementsTelephone == Line!Spec

\* Nothing rings for ever (kCallRingSeconds).
RingingEnds ==
  \A c \in Chars :
    (\E s \in Active(c, sessions) : s.state = "ringing")
      ~> ~(\E s \in Active(c, sessions) : s.state = "ringing")
=============================================================================
