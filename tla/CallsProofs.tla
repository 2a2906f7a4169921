---------------------------- MODULE CallsProofs ----------------------------
(***************************************************************************)
(* Calls for every value of the constants: the inductive invariant, what   *)
(* the two histories say, what a button can touch, and that the whole is a *)
(* Telephone.                                                              *)
(***************************************************************************)
EXTENDS Calls, SequenceTheorems, TLAPS

-----------------------------------------------------------------------------
(* Histories. *)

LEMMA RecordedFacts ==
  ASSUME NEW lines \in Seq(Lines), NEW line \in Lines, Len(lines) <= HistoryCap
  PROVE  LET r == Recorded(lines, line)
             d == IF Len(lines) < HistoryCap THEN 0 ELSE 1
         IN  /\ r \in Seq(Lines)
             /\ Len(r) = Len(lines) + 1 - d
             /\ Len(r) <= HistoryCap /\ Len(r) >= 1
             /\ r[Len(r)] = line
             /\ \A i \in 1 .. Len(r) - 1 : i + d \in 1 .. Len(lines) /\ r[i] = lines[i + d]
<1> DEFINE all == Append(lines, line)
           r == Recorded(lines, line)
           d == IF Len(lines) < HistoryCap THEN 0 ELSE 1
<1>0. HistoryCap \in Nat \ {0} /\ Len(lines) \in Nat
  BY ConstantsAssumption, LenProperties
<1>1. /\ all \in Seq(Lines) /\ Len(all) = Len(lines) + 1
      /\ all[Len(all)] = line
      /\ \A i \in 1 .. Len(lines) : all[i] = lines[i]
  BY AppendProperties, LenProperties
<1>2. CASE Len(lines) < HistoryCap
  <2>1. r = all
    BY <1>0, <1>1, <1>2 DEF Recorded
  <2> QED
    BY <1>0, <1>1, <1>2, <2>1
<1>3. CASE Len(lines) = HistoryCap
  <2>1. r = Tail(all)
    BY <1>0, <1>1, <1>3 DEF Recorded
  <2>2. all # <<>>
    BY <1>0, <1>1
  <2>3. /\ r \in Seq(Lines) /\ Len(r) = Len(all) - 1
        /\ \A i \in 1 .. Len(r) : r[i] = all[i + 1]
    BY <1>1, <2>1, <2>2, HeadTailProperties
  <2> QED
    BY <1>0, <1>1, <1>3, <2>3
<1> QED
  BY <1>0, <1>2, <1>3

LEMMA LineForFacts ==
  ASSUME NEW s \in Sessions, NEW c \in Chars, NEW result \in Results
  PROVE  /\ LineFor(s, c, result) \in Lines
         /\ LineFor(s, c, result).call = s.id
         /\ LineFor(s, c, result).result = result
         /\ LineFor(s, c, result).talked = (s.state = "connected")
BY DEF LineFor, Lines, Sessions, Other

\* What Filed does to one history.
LEMMA FiledFacts ==
  ASSUME NEW over \in SUBSET Sessions, NEW result \in Results, NEW c \in Chars
  PROVE  /\ DOMAIN Filed(over, result) = Chars
         /\ (\A s \in over : c \notin Parties(s)) => Filed(over, result)[c] = history[c]
         /\ (\E s \in over : c \in Parties(s)) =>
              \E s \in over : /\ c \in Parties(s)
                              /\ Filed(over, result)[c] =
                                   Recorded(history[c], LineFor(s, c, result))
<1> DEFINE h == Filed(over, result)
           t == CHOOSE s \in over : c \in Parties(s)
<1>0. h = [x \in Chars |-> 
             IF \E s \in over : x \in Parties(s)
             THEN Recorded(history[x], LineFor(CHOOSE s \in over : x \in Parties(s), x, result))
             ELSE history[x]]
  BY DEF Filed
<1> HIDE DEF h
<1>1. DOMAIN h = Chars
  BY <1>0
<1>2. ASSUME \A s \in over : c \notin Parties(s) PROVE h[c] = history[c]
  BY <1>0, <1>2
<1>3. ASSUME \E s \in over : c \in Parties(s)
      PROVE  \E s \in over : c \in Parties(s) /\ h[c] = Recorded(history[c], LineFor(s, c, result))
  <2>1. t \in over /\ c \in Parties(t)
    BY <1>3
  <2>2. h[c] = Recorded(history[c], LineFor(t, c, result))
    BY <1>0, <1>3
  <2> HIDE DEF t
  <2> QED
    BY <2>1, <2>2
<1> QED
  BY <1>1, <1>2, <1>3 DEF h

\* The invariant of one history.
Over(lines, open, last) ==
  /\ Len(lines) <= HistoryCap
  /\ \A i \in 1 .. Len(lines) :
       /\ lines[i].call <= last
       /\ \A s \in open : s.id # lines[i].call
       /\ \A j \in 1 .. i - 1 : lines[j].call # lines[i].call

LEMMA OverShrinks ==
  ASSUME NEW lines \in Seq(Lines), NEW open, NEW last \in Nat, NEW left, NEW now \in Nat,
         Over(lines, open, last), last <= now,
         \A s \in left : s.id > last \/ \E t \in open : t.id = s.id,
         left \subseteq Sessions
  PROVE  Over(lines, left, now)
<1>1. ASSUME NEW i \in 1 .. Len(lines) PROVE lines[i].call \in Nat
  <2>1. lines[i] \in Lines
    BY ElementOfSeq
  <2> QED
    BY <2>1, ConstantsAssumption DEF Lines, CallIds
<1>2. ASSUME NEW i \in 1 .. Len(lines) PROVE lines[i].call <= now
  BY <1>1, <1>2 DEF Over
<1>3. ASSUME NEW i \in 1 .. Len(lines), NEW s \in left PROVE s.id # lines[i].call
  <2>1. CASE s.id > last
    <3>1. lines[i].call <= last /\ lines[i].call \in Nat
      BY <1>1 DEF Over
    <3> QED
      BY <2>1, <3>1
  <2>2. CASE \E t \in open : t.id = s.id
    BY <2>2 DEF Over
  <2> QED
    BY <2>1, <2>2
<1> QED
  BY <1>2, <1>3 DEF Over

LEMMA OverGrows ==
  ASSUME NEW lines \in Seq(Lines), NEW left \in SUBSET Sessions, NEW now \in Nat,
         NEW line \in Lines, Over(lines, left, now), line.call <= now,
         \A s \in left : s.id # line.call,
         \A i \in 1 .. Len(lines) : lines[i].call # line.call
  PROVE  Over(Recorded(lines, line), left, now)
<1> DEFINE r == Recorded(lines, line)
           d == IF Len(lines) < HistoryCap THEN 0 ELSE 1
<1>1. /\ r \in Seq(Lines)
      /\ Len(r) <= HistoryCap /\ Len(r) >= 1
      /\ r[Len(r)] = line
      /\ \A i \in 1 .. Len(r) - 1 : i + d \in 1 .. Len(lines) /\ r[i] = lines[i + d]
  BY RecordedFacts DEF Over
<1>2. Len(r) \in Nat /\ d \in Nat /\ Len(lines) \in Nat
  BY <1>1, LenProperties
<1> HIDE DEF r, d
<1>3. ASSUME NEW i \in 1 .. Len(r)
      PROVE  /\ r[i].call <= now
             /\ \A s \in left : s.id # r[i].call
             /\ \A j \in 1 .. i - 1 : r[j].call # r[i].call
  <2>1. CASE i = Len(r)
    BY <1>1, <1>2, <2>1
  <2>2. CASE i < Len(r)
    <3>1. i \in 1 .. Len(r) - 1 /\ i + d \in 1 .. Len(lines) /\ r[i] = lines[i + d]
      BY <1>1, <1>2, <2>2
    <3>2. ASSUME NEW j \in 1 .. i - 1
          PROVE  j + d \in 1 .. (i + d) - 1 /\ r[j] = lines[j + d]
      <4>1. j \in 1 .. Len(r) - 1
        BY <1>2, <2>2
      <4>2. r[j] = lines[j + d]
        BY <1>1, <4>1
      <4> QED
        BY <1>2, <4>2
    <3> QED
      BY <3>1, <3>2 DEF Over
  <2> QED
    BY <1>2, <2>1, <2>2
<1> QED
  BY <1>1, <1>3 DEF Over, r

-----------------------------------------------------------------------------
(* The invariant. *)

Heard == {"ringing", "connected"} \cup Results

LEMMA HistoryIsOverEach ==
  HistoryIsOver <=> \A c \in Chars : Over(history[c], sessions, begun)
BY DEF HistoryIsOver, Over

LEMMA BegunIsNat == ASSUME TypeOK PROVE begun \in Nat
BY ConstantsAssumption DEF TypeOK

\* Calls that end, or are begun and over at once, are filed soundly.
LEMMA FiledIsSound ==
  ASSUME IInv, NEW over \in SUBSET Sessions, NEW result \in Results,
         NEW left \in SUBSET Sessions, NEW now \in Nat, begun <= now,
         \A s \in left : s.id > begun \/ \E t \in sessions : t.id = s.id,
         \A s \in over : /\ s.id <= now
                         /\ s.id > begun \/ s \in sessions
                         /\ \A t \in left : t.id # s.id
  PROVE  /\ Filed(over, result) \in [Chars -> Seq(Lines)]
         /\ \A c \in Chars : Over(Filed(over, result)[c], left, now)
<1> DEFINE h == Filed(over, result)
<1>0. begun \in Nat /\ history \in [Chars -> Seq(Lines)]
      /\ \A c \in Chars : Over(history[c], sessions, begun)
  BY BegunIsNat, HistoryIsOverEach DEF IInv, TypeOK
<1>1. ASSUME NEW c \in Chars PROVE h[c] \in Seq(Lines) /\ Over(h[c], left, now)
  <2>0. history[c] \in Seq(Lines) /\ Over(history[c], sessions, begun)
    BY <1>0
  <2>1. Over(history[c], left, now)
    BY <1>0, <2>0, OverShrinks
  <2>2. CASE \A s \in over : c \notin Parties(s)
    BY <2>0, <2>1, <2>2, FiledFacts
  <2>3. CASE \E s \in over : c \in Parties(s)
    <3>0. \E s \in over : /\ c \in Parties(s)
                          /\ Filed(over, result)[c] = Recorded(history[c], LineFor(s, c, result))
      BY <2>3, FiledFacts
    <3>1. PICK s \in over : h[c] = Recorded(history[c], LineFor(s, c, result))
      BY <3>0
    <3>2. s \in Sessions
      OBVIOUS
    <3> DEFINE line == LineFor(s, c, result)
    <3>3. line \in Lines /\ line.call = s.id
      BY <3>2, LineForFacts
    <3> HIDE DEF line
    <3>4. ASSUME NEW i \in 1 .. Len(history[c]) PROVE history[c][i].call # s.id
      <4>1. history[c][i] \in Lines
        BY <2>0, ElementOfSeq
      <4>2. history[c][i].call <= begun /\ history[c][i].call \in Nat
        BY <2>0, <4>1, ConstantsAssumption DEF Over, Lines, CallIds
      <4>3. CASE s.id > begun
        BY <1>0, <4>2, <4>3
      <4>4. CASE s \in sessions
        BY <2>0, <4>4 DEF Over
      <4> QED
        BY <4>3, <4>4
    <3>5. line.call <= now /\ \A t \in left : t.id # line.call
      BY <3>3
    <3>6. Over(Recorded(history[c], line), left, now)
      BY <2>0, <2>1, <3>3, <3>4, <3>5, OverGrows
    <3>7. Recorded(history[c], line) \in Seq(Lines)
      BY <2>0, <3>3, RecordedFacts DEF Over
    <3> QED
      BY <3>1, <3>6, <3>7 DEF line
  <2> QED
    BY <2>2, <2>3
<1>2. DOMAIN h = Chars /\ h = [c \in Chars |-> h[c]]
  BY DEF Filed
<1> HIDE DEF h
<1>3. h \in [Chars -> Seq(Lines)]
  BY <1>1, <1>2
<1> QED
  BY <1>1, <1>3 DEF h

LEMMA EndIsSound ==
  ASSUME IInv, NEW over \in SUBSET sessions, NEW result \in Results,
         End(over, result), begun' = begun
  PROVE  /\ sessions' \subseteq sessions
         /\ history' \in [Chars -> Seq(Lines)]
         /\ OneCallEach' /\ IdsNameOneCall' /\ HistoryIsOver'
<1>0. begun \in Nat /\ sessions \subseteq Sessions
  BY BegunIsNat DEF IInv, TypeOK
<1>1. sessions' = sessions \ over /\ history' = Filed(over, result)
  BY DEF End
<1>2. \A s \in over : s.id <= begun /\ \A t \in sessions \ over : t.id # s.id
  BY DEF IInv, IdsNameOneCall
<1>3. /\ history' \in [Chars -> Seq(Lines)]
      /\ \A c \in Chars : Over(history'[c], sessions', begun)
  <2>1. over \in SUBSET Sessions /\ sessions \ over \in SUBSET Sessions /\ begun <= begun
    BY <1>0
  <2>2. \A s \in sessions \ over : s.id > begun \/ \E t \in sessions : t.id = s.id
    OBVIOUS
  <2>3. \A s \in over : /\ s.id <= begun
                        /\ s.id > begun \/ s \in sessions
                        /\ \A t \in sessions \ over : t.id # s.id
    BY <1>2
  <2>4. /\ Filed(over, result) \in [Chars -> Seq(Lines)]
        /\ \A c \in Chars : Over(Filed(over, result)[c], sessions \ over, begun)
    BY <1>0, <2>1, <2>2, <2>3, FiledIsSound
  <2> QED
    BY <1>1, <2>4
<1>4. OneCallEach' /\ IdsNameOneCall'
  BY <1>1 DEF IInv, OneCallEach, IdsNameOneCall, Parties
<1>5. HistoryIsOver'
  BY <1>3 DEF HistoryIsOver, Over
<1> QED
  BY <1>1, <1>3, <1>4, <1>5

LEMMA AnnounceIsTyped ==
  ASSUME TypeOK, NEW told \in SUBSET Sessions, NEW state \in Heard, Announce(told, state)
  PROVE  down' \in [Accounts -> Seq(Notices)]
<1> DEFINE new(a) == Notice(CHOOSE s \in Active(slot[a], told) : TRUE, state, slot[a])
           me(a) == Holding(slot[a]) /\ Active(slot[a], told) # {}
<1>0. down \in [Accounts -> Seq(Notices)]
  BY DEF TypeOK
<1>1. down' = [a \in Accounts |-> IF me(a) THEN Append(down[a], new(a)) ELSE down[a]]
  BY DEF Announce
<1>2. ASSUME NEW a \in Accounts, me(a) PROVE new(a) \in Notices
  <2>1. PICK s \in Active(slot[a], told) : new(a) = Notice(s, state, slot[a])
    BY <1>2
  <2>2. s \in Sessions
    BY DEF Active
  <2> HIDE DEF new
  <2> QED
    BY <2>1, <2>2 DEF Notice, Notices, Sessions, Heard
<1> HIDE DEF new, me
<1> QED
  BY <1>0, <1>1, <1>2, AppendProperties

LEMMA ActiveIsOne ==
  ASSUME IInv, NEW c
  PROVE  /\ Active(c, sessions) \in SUBSET sessions
         /\ \A s, t \in Active(c, sessions) : s = t
BY DEF IInv, OneCallEach, Active, Parties

LEMMA EndOwnIsSound ==
  ASSUME IInv, NEW acct \in Accounts, EndOwnCall(acct), begun' = begun
  PROVE  /\ sessions' \subseteq sessions
         /\ history' \in [Chars -> Seq(Lines)]
         /\ OneCallEach' /\ IdsNameOneCall' /\ HistoryIsOver'
<1>1. CASE HasCharacter(acct)
  <2>1. End(Active(slot[acct], sessions), "completed")
    BY <1>1 DEF EndOwnCall, EndCallFor
  <2>2. Active(slot[acct], sessions) \in SUBSET sessions
    BY ActiveIsOne
  <2>3. "completed" \in Results
    BY DEF Results
  <2> QED
    BY <2>1, <2>2, <2>3, EndIsSound
<1>2. CASE ~HasCharacter(acct)
  <2>1. UNCHANGED <<sessions, history, begun>>
    BY <1>2 DEF EndOwnCall
  <2> QED
    BY <2>1 DEF IInv, TypeOK, OneCallEach, IdsNameOneCall, HistoryIsOver, Parties
<1> QED
  BY <1>1, <1>2

LEMMA NewSession ==
  ASSUME IInv, NEW acct \in Accounts, NEW c \in Chars, Dials(acct, c)
  PROVE  LET s == Session(slot[acct], c)
         IN  /\ s \in Sessions /\ s.id = begun + 1 /\ s.state = "ringing"
             /\ s.caller = slot[acct] /\ s.target = c /\ s.caller # s.target
             /\ Active(s.caller, sessions) = {}
             /\ begun' = begun + 1 /\ begun' \in 0 .. MaxCalls
             /\ \A t \in sessions : t.id <= begun /\ t.id \in Nat
<1>1. begun \in Nat /\ slot[acct] \in Chars /\ begun < MaxCalls
  BY BegunIsNat DEF IInv, TypeOK, Dials, HasCharacter
<1>2. \A t \in sessions : t.id <= begun /\ t.id \in Nat
  BY ConstantsAssumption DEF IInv, TypeOK, Sessions, CallIds, IdsNameOneCall
<1> QED
  BY <1>1, <1>2, ConstantsAssumption DEF Dials, MayRing, Session, Sessions, CallIds

LEMMA BeginIsSound ==
  ASSUME IInv, NEW acct \in Accounts, NEW c \in Chars, BeginCall(acct, c)
  PROVE  IInv'
<1> DEFINE s == Session(slot[acct], c)
<1>0. Dials(acct, c) /\ sessions' = sessions \cup {s} /\ history' = history
      /\ Announce({s}, "ringing") /\ Active(c, sessions) = {}
  BY DEF BeginCall
<1>1. /\ s \in Sessions /\ s.id = begun + 1
      /\ s.caller = slot[acct] /\ s.target = c /\ s.caller # s.target
      /\ Active(s.caller, sessions) = {}
      /\ begun' = begun + 1 /\ begun' \in 0 .. MaxCalls
      /\ \A t \in sessions : t.id <= begun /\ t.id \in Nat
  BY <1>0, NewSession
<1>2. begun \in Nat /\ UNCHANGED <<people, blocked, up, phone>>
  BY <1>0, BegunIsNat DEF IInv, Dials
<1> HIDE DEF s
<1>3. down' \in [Accounts -> Seq(Notices)]
  BY <1>0, <1>1, AnnounceIsTyped DEF IInv, Heard
<1>4. TypeOK'
  BY <1>0, <1>1, <1>2, <1>3 DEF IInv, TypeOK, people
<1>5. OneCallEach'
  BY <1>0, <1>1 DEF IInv, OneCallEach, Parties, Active
<1>6. IdsNameOneCall'
  BY <1>0, <1>1, <1>2 DEF IInv, IdsNameOneCall
<1>7. ASSUME NEW d \in Chars PROVE Over(history[d], sessions', begun')
  <2>1. history[d] \in Seq(Lines) /\ Over(history[d], sessions, begun)
    BY HistoryIsOverEach DEF IInv, TypeOK
  <2>2. \A t \in sessions' : t.id > begun \/ \E u \in sessions : u.id = t.id
    BY <1>0, <1>1, <1>2
  <2>3. sessions' \subseteq Sessions /\ begun' \in Nat /\ begun <= begun'
    BY <1>1, <1>2, <1>4 DEF TypeOK
  <2> QED
    BY <1>2, <2>1, <2>2, <2>3, OverShrinks
<1>8. HistoryIsOver'
  BY <1>0, <1>7 DEF HistoryIsOver, Over
<1> QED
  BY <1>2, <1>4, <1>5, <1>6, <1>8 DEF IInv, SlotsOwned, people

LEMMA BusyIsSound ==
  ASSUME IInv, NEW acct \in Accounts, NEW c \in Chars, BeginBusyCall(acct, c)
  PROVE  IInv'
<1> DEFINE s == Session(slot[acct], c)
<1>0. Dials(acct, c) /\ sessions' = sessions /\ history' = Filed({s}, "busy")
      /\ Announce({s}, "busy")
  BY DEF BeginBusyCall
<1>1. /\ s \in Sessions /\ s.id = begun + 1
      /\ begun' = begun + 1 /\ begun' \in 0 .. MaxCalls
      /\ \A t \in sessions : t.id <= begun /\ t.id \in Nat
  BY <1>0, NewSession
<1>2. begun \in Nat /\ UNCHANGED <<people, blocked, up, phone>> /\ "busy" \in Results
      /\ begun' \in Nat /\ begun <= begun' /\ sessions \in SUBSET Sessions
  BY <1>0, <1>1, BegunIsNat DEF IInv, TypeOK, Dials, Results
<1> HIDE DEF s
<1>3. down' \in [Accounts -> Seq(Notices)]
  BY <1>0, <1>1, AnnounceIsTyped DEF IInv, Heard, Results
<1>4. /\ history' \in [Chars -> Seq(Lines)]
      /\ \A d \in Chars : Over(history'[d], sessions, begun')
  <2>1. {s} \in SUBSET Sessions
    BY <1>1
  <2>2. \A t \in sessions : t.id > begun \/ \E u \in sessions : u.id = t.id
    OBVIOUS
  <2>3. \A t \in {s} : /\ t.id <= begun'
                       /\ t.id > begun \/ t \in sessions
                       /\ \A u \in sessions : u.id # t.id
    BY <1>1, <1>2
  <2>4. /\ Filed({s}, "busy") \in [Chars -> Seq(Lines)]
        /\ \A d \in Chars : Over(Filed({s}, "busy")[d], sessions, begun')
    BY <1>2, <2>1, <2>2, <2>3, FiledIsSound
  <2> QED
    BY <1>0, <2>4
<1>5. TypeOK'
  BY <1>0, <1>1, <1>2, <1>3, <1>4 DEF IInv, TypeOK, people
<1>6. OneCallEach' /\ IdsNameOneCall'
  BY <1>0, <1>1, <1>2 DEF IInv, OneCallEach, IdsNameOneCall, Parties
<1>7. HistoryIsOver'
  BY <1>0, <1>4 DEF HistoryIsOver, Over
<1> QED
  BY <1>2, <1>5, <1>6, <1>7 DEF IInv, SlotsOwned, people

LEMMA FinishIsSound ==
  ASSUME IInv, NEW s \in sessions, NEW result \in Results, Finish(s, result), begun' = begun
  PROVE  /\ sessions' \subseteq sessions
         /\ history' \in [Chars -> Seq(Lines)]
         /\ down' \in [Accounts -> Seq(Notices)]
         /\ OneCallEach' /\ IdsNameOneCall' /\ HistoryIsOver'
<1>1. End({s}, result) /\ Announce({s}, result) /\ {s} \in SUBSET sessions
  BY DEF Finish
<1>2. {s} \in SUBSET Sessions /\ result \in Heard /\ TypeOK
  BY DEF IInv, TypeOK, Heard
<1>3. down' \in [Accounts -> Seq(Notices)]
  BY <1>1, <1>2, AnnounceIsTyped
<1> QED
  BY <1>1, <1>3, EndIsSound

LEMMA AnsweredFacts ==
  ASSUME NEW s \in Sessions
  PROVE  /\ Answered(s) \in Sessions /\ Answered(s).id = s.id
         /\ Answered(s).caller = s.caller /\ Answered(s).target = s.target
         /\ Answered(s).state = "connected" /\ Parties(Answered(s)) = Parties(s)
BY ConstantsAssumption DEF Answered, Sessions, Parties

LEMMA AnswerIsSound ==
  ASSUME IInv, NEW s \in sessions, Answer(s), begun' = begun
  PROVE  /\ sessions' \subseteq Sessions
         /\ history' \in [Chars -> Seq(Lines)]
         /\ down' \in [Accounts -> Seq(Notices)]
         /\ OneCallEach' /\ IdsNameOneCall' /\ HistoryIsOver'
<1>0. /\ sessions' = (sessions \ {s}) \cup {Answered(s)} /\ history' = history
      /\ Announce({s}, "connected") /\ s \in Sessions /\ sessions \subseteq Sessions
      /\ {s} \in SUBSET Sessions /\ TypeOK /\ "connected" \in Heard
  BY DEF Answer, IInv, TypeOK, Heard
<1>1. /\ Answered(s) \in Sessions /\ Answered(s).id = s.id
      /\ Answered(s).caller = s.caller /\ Answered(s).target = s.target
      /\ Parties(Answered(s)) = Parties(s)
  BY <1>0, AnsweredFacts
<1>2. down' \in [Accounts -> Seq(Notices)]
  BY <1>0, AnnounceIsTyped
<1>3. OneCallEach'
  BY <1>0, <1>1 DEF IInv, OneCallEach
<1>4. IdsNameOneCall'
  BY <1>0, <1>1 DEF IInv, IdsNameOneCall
<1>5. HistoryIsOver'
  BY <1>0, <1>1 DEF IInv, HistoryIsOver
<1> QED
  BY <1>0, <1>1, <1>2, <1>3, <1>4, <1>5 DEF TypeOK

\* One control request, from a button or from chat.
LEMMA ControlIsSound ==
  ASSUME IInv, NEW acct, NEW id, NEW action, ControlCall(acct, id, action),
         up' \in [Accounts -> Seq(Buttons)]
  PROVE  IInv'
<1>0. UNCHANGED <<people, blocked, begun, phone>>
  BY DEF ControlCall
<1>1. CASE UNCHANGED <<sessions, history, down>>
  BY <1>0, <1>1 DEF IInv, TypeOK, SlotsOwned, OneCallEach, IdsNameOneCall, HistoryIsOver,
                    Parties, people
<1>2. ASSUME NEW s \in sessions, Controlled(s, action) PROVE IInv'
  <2>1. /\ sessions' \subseteq Sessions
        /\ history' \in [Chars -> Seq(Lines)]
        /\ down' \in [Accounts -> Seq(Notices)]
        /\ OneCallEach' /\ IdsNameOneCall' /\ HistoryIsOver'
    <3>1. CASE Answer(s)
      BY <1>0, <3>1, AnswerIsSound
    <3>2. ASSUME NEW result \in Results, Finish(s, result)
          PROVE  sessions' \subseteq Sessions
                 /\ history' \in [Chars -> Seq(Lines)]
                 /\ down' \in [Accounts -> Seq(Notices)]
                 /\ OneCallEach' /\ IdsNameOneCall' /\ HistoryIsOver'
      BY <1>0, <3>2, FinishIsSound DEF IInv, TypeOK
    <3>3. \/ Answer(s)
          \/ \E result \in {"failed", "declined", "completed", "cancelled"} : Finish(s, result)
      BY <1>2 DEF Controlled
    <3>4. {"failed", "declined", "completed", "cancelled"} \subseteq Results
      BY DEF Results
    <3> QED
      BY <3>1, <3>2, <3>3, <3>4
  <2> QED
    BY <1>0, <2>1 DEF IInv, TypeOK, SlotsOwned, people
<1>3. ASSUME NEW s \in TheCallMeant(acct, id) PROVE s \in sessions
  BY DEF TheCallMeant, Active
<1> QED
  BY <1>1, <1>2, <1>3 DEF ControlCall

LEMMA OlderFacts ==
  ASSUME NEW s \in Sessions, s \notin Expired, s \in sessions
  PROVE  /\ Older(s) \in Sessions /\ Older(s).id = s.id /\ Older(s).state = s.state
         /\ Older(s).caller = s.caller /\ Older(s).target = s.target
         /\ Parties(Older(s)) = Parties(s)
BY ConstantsAssumption DEF Older, Expired, Sessions, Parties

LEMMA TickIsSound ==
  ASSUME IInv, TickCalls
  PROVE  IInv'
<1>0. /\ sessions' = {Older(s) : s \in sessions \ Expired}
      /\ history' = Filed(Expired, "missed") /\ Announce(Expired, "missed")
      /\ UNCHANGED <<people, blocked, begun, up, phone>>
      /\ sessions \subseteq Sessions /\ Expired \subseteq sessions /\ TypeOK
      /\ "missed" \in Results /\ "missed" \in Heard /\ begun \in Nat
  BY BegunIsNat DEF TickCalls, IInv, TypeOK, Heard, Results, Expired
<1>1. \A s \in sessions \ Expired :
        /\ Older(s) \in Sessions /\ Older(s).id = s.id
        /\ Older(s).caller = s.caller /\ Older(s).target = s.target
        /\ Parties(Older(s)) = Parties(s)
  BY <1>0, OlderFacts
<1>2. down' \in [Accounts -> Seq(Notices)]
  <2>1. Expired \in SUBSET Sessions
    BY <1>0
  <2> QED
    BY <1>0, <2>1, AnnounceIsTyped
<1>3. /\ history' \in [Chars -> Seq(Lines)]
      /\ \A c \in Chars : Over(history'[c], sessions', begun)
  <2>1. Expired \in SUBSET Sessions /\ sessions' \in SUBSET Sessions /\ begun <= begun
    BY <1>0, <1>1
  <2>2. \A s \in sessions' : s.id > begun \/ \E t \in sessions : t.id = s.id
    BY <1>0, <1>1
  <2>3. \A s \in Expired : /\ s.id <= begun
                           /\ s.id > begun \/ s \in sessions
                           /\ \A t \in sessions' : t.id # s.id
    BY <1>0, <1>1 DEF IInv, IdsNameOneCall
  <2>4. /\ Filed(Expired, "missed") \in [Chars -> Seq(Lines)]
        /\ \A c \in Chars : Over(Filed(Expired, "missed")[c], sessions', begun)
    BY <1>0, <2>1, <2>2, <2>3, FiledIsSound
  <2> QED
    BY <1>0, <2>4
<1>4. TypeOK'
  BY <1>0, <1>1, <1>2, <1>3 DEF TypeOK, people
<1>5. OneCallEach'
  BY <1>0, <1>1 DEF IInv, OneCallEach
<1>6. IdsNameOneCall'
  BY <1>0, <1>1 DEF IInv, IdsNameOneCall
<1>7. HistoryIsOver'
  BY <1>0, <1>3 DEF HistoryIsOver, Over
<1> QED
  BY <1>0, <1>4, <1>5, <1>6, <1>7 DEF IInv, SlotsOwned, people

LEMMA InitSound == Init => IInv
<1> SUFFICES ASSUME Init PROVE IInv
  OBVIOUS
<1>1. TypeOK
  BY ConstantsAssumption DEF Init, TypeOK
<1>2. SlotsOwned /\ OneCallEach /\ IdsNameOneCall
  BY ConstantsAssumption DEF Init, SlotsOwned, OneCallEach, IdsNameOneCall
<1>3. HistoryIsOver
  BY ConstantsAssumption DEF Init, HistoryIsOver
<1> QED
  BY <1>1, <1>2, <1>3 DEF IInv

LEMMA StepSound == IInv /\ [Next]_vars => IInv'
<1> SUFFICES ASSUME IInv, [Next]_vars PROVE IInv'
  OBVIOUS
<1> USE DEF IInv
<1>1. ASSUME NEW acct \in Accounts, Client(acct) PROVE IInv'
  <2>0. UNCHANGED <<people, blocked, store>>
    BY <1>1 DEF Client, Hear, Press
  <2>1. CASE Hear(acct)
    <3>1. Head(down[acct]) \in Notices /\ Tail(down[acct]) \in Seq(Notices)
      BY <2>1, HeadTailProperties DEF Hear, TypeOK
    <3>2. down' \in [Accounts -> Seq(Notices)]
      BY <2>1, <3>1 DEF Hear, TypeOK
    <3> DEFINE n == Head(down[acct])
    <3>3. /\ phone' = [phone EXCEPT ![acct] =
                        IF n.state \in {"ringing", "connected"} THEN {n} ELSE {}]
          /\ up' = up
      BY <2>1 DEF Hear
    <3> HIDE DEF n
    <3>4. phone' \in [Accounts -> SUBSET Notices]
      <4>1. n \in Notices
        BY <3>1 DEF n
      <4> QED
        BY <3>3, <4>1 DEF TypeOK
    <3>5. UNCHANGED <<online, slot, live, blocked, sessions, history, begun, up>>
      BY <2>0, <3>3 DEF people, store
    <3>6. TypeOK'
      BY <3>2, <3>4, <3>5 DEF TypeOK
    <3>7. SlotsOwned' /\ OneCallEach' /\ IdsNameOneCall' /\ HistoryIsOver'
      BY <3>5 DEF SlotsOwned, OneCallEach, IdsNameOneCall, HistoryIsOver
    <3> QED
      BY <3>6, <3>7
  <2>2. ASSUME NEW action \in Actions, Press(acct, action) PROVE IInv'
    <3>1. PICK shown \in phone[acct] :
            up' = [up EXCEPT ![acct] = Append(@, [call |-> shown.call, action |-> action])]
      BY <2>2 DEF Press
    <3>0. shown \in Notices /\ up \in [Accounts -> Seq(Buttons)]
      BY DEF TypeOK
    <3> DEFINE pressed == [call |-> shown.call, action |-> action]
    <3>2. pressed \in Buttons
      BY <3>0 DEF Buttons, Notices
    <3> HIDE DEF pressed
    <3>3. Append(up[acct], pressed) \in Seq(Buttons)
      BY <3>0, <3>2, AppendProperties
    <3>4. up' \in [Accounts -> Seq(Buttons)]
      BY <3>0, <3>1, <3>3 DEF pressed
    <3>5. UNCHANGED <<people, blocked, store, down, phone>>
      BY <2>2 DEF Press
    <3> QED
      BY <3>4, <3>5 DEF TypeOK, people, store, SlotsOwned, OneCallEach,
         IdsNameOneCall, HistoryIsOver
  <2> QED
    BY <1>1, <2>1, <2>2 DEF Client
<1>2. ASSUME NEW acct \in Accounts, Handlers(acct) PROVE IInv'
  <2>1. ASSUME NEW c \in Chars, BeginCall(acct, c) PROVE IInv'
    BY <2>1, BeginIsSound
  <2>2. ASSUME NEW c \in Chars, BeginBusyCall(acct, c) PROVE IInv'
    BY <2>2, BusyIsSound
  <2>3. CASE HandleButton(acct)
    <3>1. Tail(up[acct]) \in Seq(Buttons)
      BY <2>3, HeadTailProperties DEF HandleButton, TypeOK
    <3>2. up' \in [Accounts -> Seq(Buttons)]
      BY <2>3, <3>1 DEF HandleButton, TypeOK
    <3> QED
      BY <2>3, <3>2, ControlIsSound DEF HandleButton
  <2>4. ASSUME NEW action \in Actions, TypeControl(acct, action) PROVE IInv'
    BY <2>4, ControlIsSound DEF TypeControl, TypeOK
  <2> QED
    BY <1>2, <2>1, <2>2, <2>3, <2>4 DEF Handlers
<1>3. ASSUME NEW acct \in Accounts, Lifecycle(acct) PROVE IInv'
  <2>1. CASE Connect(acct)
    BY <2>1 DEF Connect, store, TypeOK, SlotsOwned, OneCallEach, IdsNameOneCall, HistoryIsOver
  <2>2. CASE Disconnect(acct)
    <3>1. EndOwnCall(acct) /\ begun' = begun
      BY <2>2 DEF Disconnect
    <3>2. /\ sessions' \subseteq sessions
          /\ history' \in [Chars -> Seq(Lines)]
          /\ OneCallEach' /\ IdsNameOneCall' /\ HistoryIsOver'
      BY <3>1, EndOwnIsSound
    <3>3. <<>> \in Seq(Buttons) /\ <<>> \in Seq(Notices)
      OBVIOUS
    <3>4. /\ up' \in [Accounts -> Seq(Buttons)]
          /\ down' \in [Accounts -> Seq(Notices)]
      BY <2>2, <3>3 DEF Disconnect, TypeOK
    <3>5. phone' \in [Accounts -> SUBSET Notices]
      <4>1. CASE phone' = phone
        BY <4>1 DEF TypeOK
      <4>2. CASE phone' = [phone EXCEPT ![acct] = {}]
        BY <4>2 DEF TypeOK
      <4> QED
        BY <2>2, <4>1, <4>2 DEF Disconnect
    <3> QED
      BY <2>2, <3>2, <3>4, <3>5 DEF Disconnect, TypeOK, SlotsOwned
  <2>3. CASE NewCharacter(acct)
    BY <2>3, ConstantsAssumption DEF NewCharacter, store, TypeOK, SlotsOwned, OneCallEach,
       IdsNameOneCall, HistoryIsOver
  <2>4. ASSUME NEW c \in Chars \cup {NoChar}, SelectCharacter(acct, c) PROVE IInv'
    <3>1. EndOwnCall(acct) /\ begun' = begun
      BY <2>4 DEF SelectCharacter
    <3>2. /\ sessions' \subseteq sessions
          /\ history' \in [Chars -> Seq(Lines)]
          /\ OneCallEach' /\ IdsNameOneCall' /\ HistoryIsOver'
      BY <3>1, EndOwnIsSound
    <3>3. slot' \in [Accounts -> Chars \cup {NoChar}] /\ SlotsOwned'
      BY <2>4, ConstantsAssumption DEF SelectCharacter, TypeOK, SlotsOwned
    <3> QED
      BY <2>4, <3>2, <3>3 DEF SelectCharacter, TypeOK
  <2>5. ASSUME NEW c \in Chars, Retire(acct, c) PROVE IInv'
    BY <2>5 DEF Retire, store, TypeOK, SlotsOwned, OneCallEach, IdsNameOneCall, HistoryIsOver
  <2>6. ASSUME NEW c \in Chars, SetBlocked(acct, c) PROVE IInv'
    BY <2>6 DEF SetBlocked, people, store, TypeOK, SlotsOwned, OneCallEach, IdsNameOneCall,
       HistoryIsOver
  <2> QED
    BY <1>3, <2>1, <2>2, <2>3, <2>4, <2>5, <2>6 DEF Lifecycle
<1>4. CASE TickCalls
  BY <1>4, TickIsSound
<1>5. CASE UNCHANGED vars
  BY <1>5 DEF vars, people, store, TypeOK, SlotsOwned, OneCallEach, IdsNameOneCall,
     HistoryIsOver
<1> QED
  BY <1>1, <1>2, <1>3, <1>4, <1>5 DEF Next

\* Every state keeps one call each and histories that speak only of ended
\* calls, each once (CallStore::End, "cannot be recorded twice").
THEOREM CallsAreSound == Spec => []IInv
BY InitSound, StepSound, PTL DEF Spec

\* Whoever is on a call is heard by one other person, who is on the same call
\* (ConnectedPartner as the voice relay uses it).
THEOREM VoiceReachesOne == Spec => []VoiceIsBetweenTwo
<1>1. IInv => VoiceIsBetweenTwo
  <2> SUFFICES ASSUME IInv, NEW c \in Chars, NEW d \in ConnectedPartner(c)
               PROVE  ConnectedPartner(c) = {d} /\ ConnectedPartner(d) = {c}
    BY DEF VoiceIsBetweenTwo
  <2>1. PICK s \in sessions : c \in Parties(s) /\ s.state = "connected" /\ d = Other(s, c)
    BY DEF ConnectedPartner, Active
  <2>2. s.caller # s.target /\ d \in Parties(s) /\ Other(s, d) = c
    BY <2>1 DEF IInv, OneCallEach, Other, Parties
  <2>3. Active(c, sessions) = {s} /\ Active(d, sessions) = {s}
    BY <2>1, <2>2 DEF IInv, OneCallEach, Active, Parties
  <2> QED
    BY <2>1, <2>2, <2>3 DEF ConnectedPartner
<1> QED
  BY <1>1, CallsAreSound, PTL

-----------------------------------------------------------------------------
(* What a button can touch. *)

LEMMA ButtonsStep ==
  ASSUME IInv, NEW acct \in Accounts, HandleButton(acct)
  PROVE  \A s \in sessions : s.id # Head(up[acct]).call => s \in sessions'
<1> DEFINE id == Head(up[acct]).call
<1>1. Head(up[acct]) \in Buttons
  BY HeadTailProperties DEF HandleButton, IInv, TypeOK
<1>2. id # NoCall
  BY <1>1, ConstantsAssumption DEF Buttons, CallIds, NoCall
<1>3. \A s \in TheCallMeant(acct, id) : s.id = id
  BY <1>2 DEF TheCallMeant
<1>4. ASSUME NEW s \in TheCallMeant(acct, id), NEW action, Controlled(s, action)
      PROVE  \A t \in sessions : t # s => t \in sessions'
  BY <1>4 DEF Controlled, Answer, Finish, End
<1> QED
  BY <1>3, <1>4 DEF HandleButton, ControlCall

\* A button pressed a moment too late acts on nothing (ControlCall).
THEOREM ButtonsAreSafe == Spec => ButtonsMeanTheirCall
<1>1. IInv /\ [Next]_vars =>
        [\A acct \in Accounts :
           HandleButton(acct) =>
             \A s \in sessions : s.id # Head(up[acct]).call => s \in sessions']_vars
  BY ButtonsStep
<1> QED
  BY <1>1, CallsAreSound, PTL DEF Spec, ButtonsMeanTheirCall

-----------------------------------------------------------------------------
(* What a step does to calls and histories. *)

LEMMA EndOwnEnds ==
  ASSUME IInv, NEW acct \in Accounts, EndOwnCall(acct)
  PROVE  \E over \in SUBSET sessions :
           /\ \A s, t \in over : s = t
           /\ sessions' = sessions \ over
           /\ over = {} => history' = history
           /\ history' = Filed(over, "completed") \/ over = {}
<1>1. CASE HasCharacter(acct)
  <2> DEFINE over == Active(slot[acct], sessions)
  <2>1. sessions' = sessions \ over /\ history' = Filed(over, "completed")
    BY <1>1 DEF EndOwnCall, EndCallFor, End
  <2>2. over \in SUBSET sessions /\ \A s, t \in over : s = t
    BY ActiveIsOne
  <2>3. ASSUME over = {} PROVE history' = history
    <3>1. history \in [Chars -> Seq(Lines)]
      BY DEF IInv, TypeOK
    <3>2. Filed({}, "completed") = [c \in Chars |-> history[c]]
      BY DEF Filed
    <3> QED
      BY <2>1, <2>3, <3>1, <3>2
  <2> HIDE DEF over
  <2> QED
    BY <2>1, <2>2, <2>3
<1>2. CASE ~HasCharacter(acct)
  <2>1. sessions' = sessions \ {} /\ history' = history
    BY <1>2 DEF EndOwnCall
  <2> QED
    BY <2>1
<1> QED
  BY <1>1, <1>2

\* The line that ends up last in a history.
LEMMA FiledLast ==
  ASSUME IInv, NEW over \in SUBSET Sessions, NEW result \in Results, NEW c \in Chars
  PROVE  /\ (\A s \in over : c \notin Parties(s)) => Filed(over, result)[c] = history[c]
         /\ (\E s \in over : c \in Parties(s)) =>
              /\ Len(Filed(over, result)[c]) =
                   IF Len(history[c]) < HistoryCap THEN Len(history[c]) + 1
                   ELSE Len(history[c])
              /\ \E s \in over :
                   /\ c \in Parties(s)
                   /\ Filed(over, result)[c][Len(Filed(over, result)[c])] =
                        LineFor(s, c, result)
<1> DEFINE h == Filed(over, result)[c]
           n == Len(history[c])
<1>0. history[c] \in Seq(Lines) /\ n <= HistoryCap /\ n \in Nat /\ HistoryCap \in Nat
  BY ConstantsAssumption DEF IInv, TypeOK, HistoryIsOver
<1>1. ASSUME \A s \in over : c \notin Parties(s) PROVE h = history[c]
  BY <1>1, FiledFacts
<1>2. ASSUME \E s \in over : c \in Parties(s)
      PROVE  /\ Len(h) = IF n < HistoryCap THEN n + 1 ELSE n
             /\ \E s \in over : c \in Parties(s) /\ h[Len(h)] = LineFor(s, c, result)
  <2>1. \E s \in over : /\ c \in Parties(s)
                        /\ Filed(over, result)[c] = Recorded(history[c], LineFor(s, c, result))
    BY <1>2, FiledFacts
  <2>2. PICK s \in over : c \in Parties(s) /\ h = Recorded(history[c], LineFor(s, c, result))
    BY <2>1
  <2> DEFINE line == LineFor(s, c, result)
  <2>3. line \in Lines
    <3>1. s \in Sessions
      OBVIOUS
    <3> QED
      BY <3>1, LineForFacts
  <2> HIDE DEF line, h
  <2>4. h = Recorded(history[c], line)
    BY <2>2 DEF line
  <2>5. LET d == IF n < HistoryCap THEN 0 ELSE 1
        IN  Len(h) = n + 1 - d /\ h[Len(h)] = line
    BY <1>0, <2>3, <2>4, RecordedFacts
  <2> QED
    BY <1>0, <2>2, <2>5 DEF line
<1> QED
  BY <1>1, <1>2

LEMMA BothLines ==
  ASSUME IInv, NEW over \in SUBSET Sessions, NEW result \in Results, NEW s \in over,
         \A t, u \in over : Parties(t) \cap Parties(u) # {} => t = u,
         history' = Filed(over, result)
  PROVE  LET last(c) == history'[c][Len(history'[c])]
         IN  /\ last(s.caller).call = s.id /\ last(s.target).call = s.id
             /\ last(s.caller).result = last(s.target).result
             /\ last(s.caller).talked = last(s.target).talked
<1> DEFINE last(c) == history'[c][Len(history'[c])]
<1>1. s \in Sessions /\ s.caller \in Chars /\ s.target \in Chars
  BY DEF Sessions
<1>2. ASSUME NEW c \in Chars, c \in Parties(s) PROVE last(c) = LineFor(s, c, result)
  <2>0. \E t \in over : c \in Parties(t)
    BY <1>2
  <2> DEFINE h == Filed(over, result)[c]
  <2>a. \E t \in over : c \in Parties(t) /\ h[Len(h)] = LineFor(t, c, result)
    BY <2>0, FiledLast
  <2>1. PICK t \in over : c \in Parties(t) /\ last(c) = LineFor(t, c, result)
    BY <2>a
  <2>2. t = s
    BY <1>2, <2>1
  <2> QED
    BY <2>1, <2>2
<1> HIDE DEF last
<1>3. ASSUME NEW c \in Chars, c \in Parties(s)
      PROVE  /\ last(c).call = s.id /\ last(c).result = result
             /\ last(c).talked = (s.state = "connected")
  BY <1>1, <1>2, <1>3, LineForFacts
<1>4. s.caller \in Parties(s) /\ s.target \in Parties(s)
  BY DEF Parties
<1>5. /\ last(s.caller).call = s.id /\ last(s.target).call = s.id
      /\ last(s.caller).result = last(s.target).result
      /\ last(s.caller).talked = last(s.target).talked
  BY <1>1, <1>3, <1>4
<1> QED
  BY <1>5 DEF last

\* Steps that end no call keep every call's id.
KeepsCalls == \A s \in sessions : \E t \in sessions' : t.id = s.id

\* Steps that end calls, by what they do to sessions and histories.
EndsCalls ==
  \E over \in SUBSET sessions, result \in Results :
    /\ history' = Filed(over, result)
    /\ \A s \in sessions \ over : \E t \in sessions' : t.id = s.id

LEMMA ControlEnds ==
  ASSUME IInv, NEW acct, NEW id, NEW action, ControlCall(acct, id, action)
  PROVE  KeepsCalls \/ EndsCalls
<1>1. CASE UNCHANGED <<sessions, history, down>>
  BY <1>1 DEF KeepsCalls
<1>2. ASSUME NEW s \in sessions, Controlled(s, action) PROVE KeepsCalls \/ EndsCalls
  <2>1. CASE Answer(s)
    <3>1. Answered(s).id = s.id /\ sessions' = (sessions \ {s}) \cup {Answered(s)}
      BY <2>1 DEF Answer, Answered
    <3> QED
      BY <3>1 DEF KeepsCalls
  <2>2. ASSUME NEW result \in Results, Finish(s, result) PROVE EndsCalls
    BY <2>2 DEF EndsCalls, Finish, End
  <2>3. \/ Answer(s)
        \/ \E result \in {"failed", "declined", "completed", "cancelled"} : Finish(s, result)
    BY <1>2 DEF Controlled
  <2>4. {"failed", "declined", "completed", "cancelled"} \subseteq Results
    BY DEF Results
  <2> QED
    BY <2>1, <2>2, <2>3, <2>4
<1>3. ASSUME NEW s \in TheCallMeant(acct, id) PROVE s \in sessions
  BY DEF TheCallMeant, Active
<1> QED
  BY <1>1, <1>2, <1>3 DEF ControlCall

LEMMA StepEnds ==
  ASSUME IInv, [Next]_vars
  PROVE  KeepsCalls \/ EndsCalls
<1>1. ASSUME NEW acct \in Accounts, Client(acct) PROVE KeepsCalls
  BY <1>1 DEF Client, Hear, Press, store, KeepsCalls
<1>2. ASSUME NEW acct \in Accounts, Handlers(acct) PROVE KeepsCalls \/ EndsCalls
  <2>1. ASSUME NEW c \in Chars, BeginCall(acct, c) \/ BeginBusyCall(acct, c) PROVE KeepsCalls
    BY <2>1 DEF BeginCall, BeginBusyCall, KeepsCalls
  <2>2. CASE HandleButton(acct)
    BY <2>2, ControlEnds DEF HandleButton
  <2>3. ASSUME NEW action \in Actions, TypeControl(acct, action) PROVE KeepsCalls \/ EndsCalls
    BY <2>3, ControlEnds DEF TypeControl
  <2> QED
    BY <1>2, <2>1, <2>2, <2>3 DEF Handlers
<1>3. ASSUME NEW acct \in Accounts, EndOwnCall(acct) PROVE KeepsCalls \/ EndsCalls
  <2>1. PICK over \in SUBSET sessions :
          /\ sessions' = sessions \ over
          /\ history' = Filed(over, "completed") \/ over = {}
    BY <1>3, EndOwnEnds
  <2>2. "completed" \in Results
    BY DEF Results
  <2> QED
    BY <2>1, <2>2 DEF KeepsCalls, EndsCalls
<1>4. ASSUME NEW acct \in Accounts, Lifecycle(acct) PROVE KeepsCalls \/ EndsCalls
  <2>1. \/ sessions' = sessions
        \/ EndOwnCall(acct)
    BY <1>4 DEF Lifecycle, Connect, Disconnect, NewCharacter, SelectCharacter, Retire,
                SetBlocked, store
  <2> QED
    BY <1>3, <2>1 DEF KeepsCalls
<1>5. CASE TickCalls
  <2>1. \A s \in sessions \ Expired : Older(s).id = s.id
    BY OlderFacts DEF IInv, TypeOK
  <2>2. "missed" \in Results /\ Expired \in SUBSET sessions
    BY DEF Results, Expired
  <2>3. /\ sessions' = {Older(s) : s \in sessions \ Expired}
        /\ history' = Filed(Expired, "missed")
    BY <1>5 DEF TickCalls
  <2> QED
    BY <2>1, <2>2, <2>3 DEF EndsCalls
<1>6. CASE UNCHANGED vars
  BY <1>6 DEF vars, store, KeepsCalls
<1> QED
  BY <1>1, <1>2, <1>4, <1>5, <1>6 DEF Next

\* However a call ends, both people find the same ending in their history, and
\* find it as the last thing that happened (CallStore::End).
THEOREM EndingsAreRecorded == Spec => BothSidesRecorded
<1> DEFINE last(c) == history'[c][Len(history'[c])]
           Both(s) == /\ last(s.caller).call = s.id /\ last(s.target).call = s.id
                      /\ last(s.caller).result = last(s.target).result
                      /\ last(s.caller).talked = last(s.target).talked
<1>1. ASSUME IInv, [Next]_vars, NEW s \in sessions, \A t \in sessions' : t.id # s.id
      PROVE  Both(s)
  <2>1. CASE KeepsCalls
    BY <1>1, <2>1 DEF KeepsCalls
  <2>2. CASE EndsCalls
    <3>1. PICK over \in SUBSET sessions, result \in Results :
            /\ history' = Filed(over, result)
            /\ \A x \in sessions \ over : \E t \in sessions' : t.id = x.id
      BY <2>2 DEF EndsCalls
    <3>2. s \in over
      BY <1>1, <3>1
    <3>3. over \in SUBSET Sessions
          /\ \A t, u \in over : Parties(t) \cap Parties(u) # {} => t = u
      BY <1>1 DEF IInv, TypeOK, OneCallEach
    <3> QED
      BY <1>1, <3>1, <3>2, <3>3, BothLines
  <2> QED
    BY <1>1, <2>1, <2>2, StepEnds
<1>2. IInv /\ [Next]_vars =>
        [\A s \in sessions : (\A t \in sessions' : t.id # s.id) => Both(s)]_vars
  BY <1>1
<1> QED
  BY <1>2, CallsAreSound, PTL DEF Spec, BothSidesRecorded

-----------------------------------------------------------------------------
(* Calls as a telephone. *)

\* Lines filed are what the telephone files.
LEMMA FiledCounts ==
  ASSUME IInv, NEW over \in SUBSET Sessions, NEW result \in Results,
         history' = Filed(over, result)
  PROVE  LineCounts' = [c \in Chars |->
           IF LineCounts[c] < HistoryCap /\ \E k \in AsCalls(over) : c \in {k.from, k.to}
           THEN LineCounts[c] + 1 ELSE LineCounts[c]]
<1>1. ASSUME NEW c \in Chars
      PROVE  /\ (\E k \in AsCalls(over) : c \in {k.from, k.to})
                  <=> \E s \in over : c \in Parties(s)
  <2>1. ASSUME NEW s \in over PROVE AsCall(s).from = s.caller /\ AsCall(s).to = s.target
    BY DEF AsCall
  <2> QED
    BY <2>1 DEF AsCalls, Parties
<1>2. ASSUME NEW c \in Chars
      PROVE  Len(history'[c]) =
               IF Len(history[c]) < HistoryCap /\ \E s \in over : c \in Parties(s)
               THEN Len(history[c]) + 1 ELSE Len(history[c])
  <2> DEFINE h == Filed(over, result)[c]
  <2>1. /\ (\A s \in over : c \notin Parties(s)) => h = history[c]
        /\ (\E s \in over : c \in Parties(s)) =>
             Len(h) = IF Len(history[c]) < HistoryCap THEN Len(history[c]) + 1
                      ELSE Len(history[c])
    BY FiledLast
  <2>2. h = history'[c]
    OBVIOUS
  <2> HIDE DEF h
  <2> QED
    BY <2>1, <2>2
<1> QED
  BY <1>1, <1>2 DEF LineCounts

\* Different calls have different people.
LEMMA AsCallsMinus ==
  ASSUME IInv, NEW over \in SUBSET sessions
  PROVE  AsCalls(sessions \ over) = AsCalls(sessions) \ AsCalls(over)
<1>1. \A s, t \in sessions : AsCall(s) = AsCall(t) => s = t
  <2> SUFFICES ASSUME NEW s \in sessions, NEW t \in sessions, AsCall(s) = AsCall(t)
               PROVE  s = t
    OBVIOUS
  <2>1. s.caller = t.caller
    BY DEF AsCall
  <2> QED
    BY <2>1 DEF IInv, OneCallEach, Parties
<1> QED
  BY <1>1 DEF AsCalls

LEMMA FinishHangsUp ==
  ASSUME IInv, NEW s \in sessions, NEW result \in Results, End({s}, result)
  PROVE  Line!HangUp(AsCall(s)) /\ AsCall(s) \in AsCalls(sessions)
<1>1. sessions' = sessions \ {s} /\ history' = Filed({s}, result)
  BY DEF End
<1>2. {s} \in SUBSET sessions /\ {s} \in SUBSET Sessions /\ AsCalls({s}) = {AsCall(s)}
  BY DEF IInv, TypeOK, AsCalls
<1>3. AsCalls(sessions') = AsCalls(sessions) \ {AsCall(s)}
  BY <1>1, <1>2, AsCallsMinus
<1>4. LineCounts' = [c \in Chars |->
         IF LineCounts[c] < HistoryCap /\ \E k \in {AsCall(s)} : c \in {k.from, k.to}
         THEN LineCounts[c] + 1 ELSE LineCounts[c]]
  BY <1>1, <1>2, FiledCounts
<1>5. AsCall(s) \in AsCalls(sessions)
  BY DEF AsCalls
<1> QED
  BY <1>3, <1>4, <1>5 DEF Line!HangUp, Line!Filed

LEMMA BeginRings ==
  ASSUME IInv, NEW acct \in Accounts, NEW c \in Chars, BeginCall(acct, c)
  PROVE  Line!Ring(slot[acct], c) /\ slot[acct] \in Chars
<1> DEFINE s == Session(slot[acct], c)
<1>0. Dials(acct, c) /\ sessions' = sessions \cup {s} /\ history' = history
      /\ Active(c, sessions) = {}
  BY DEF BeginCall
<1>1. /\ s \in Sessions /\ s.state = "ringing"
      /\ s.caller = slot[acct] /\ s.target = c /\ s.caller # s.target
      /\ Active(s.caller, sessions) = {}
  BY <1>0, NewSession
<1> HIDE DEF s
<1>2. AsCall(s) = [from |-> slot[acct], to |-> c, state |-> "ringing"]
  BY <1>1 DEF AsCall
<1>3. AsCalls(sessions') = AsCalls(sessions) \cup {AsCall(s)}
  BY <1>0 DEF AsCalls
<1>4. \A k \in AsCalls(sessions) : slot[acct] \notin {k.from, k.to} /\ c \notin {k.from, k.to}
  BY <1>0, <1>1 DEF AsCalls, AsCall, Active, Parties
<1>5. slot[acct] \in Chars
  BY <1>1 DEF Sessions
<1> QED
  BY <1>0, <1>1, <1>2, <1>3, <1>4, <1>5 DEF Line!Ring, Line!Busy, LineCounts

LEMMA BusyIsEngaged ==
  ASSUME IInv, NEW acct \in Accounts, NEW c \in Chars, BeginBusyCall(acct, c)
  PROVE  Line!Engaged(slot[acct], c) /\ slot[acct] \in Chars
<1> DEFINE s == Session(slot[acct], c)
<1>0. Dials(acct, c) /\ sessions' = sessions /\ history' = Filed({s}, "busy")
      /\ Active(c, sessions) # {} /\ "busy" \in Results
  BY DEF BeginBusyCall, Results
<1>1. /\ s \in Sessions /\ s.state = "ringing"
      /\ s.caller = slot[acct] /\ s.target = c /\ s.caller # s.target
      /\ Active(s.caller, sessions) = {}
  BY <1>0, NewSession
<1> HIDE DEF s
<1>2. AsCall(s) = [from |-> slot[acct], to |-> c, state |-> "ringing"]
  BY <1>1 DEF AsCall
<1>3. {s} \in SUBSET Sessions /\ AsCalls({s}) = {AsCall(s)}
  BY <1>1 DEF AsCalls
<1>4. \A k \in AsCalls(sessions) : slot[acct] \notin {k.from, k.to}
  BY <1>0, <1>1 DEF AsCalls, AsCall, Active, Parties
<1>5. \E k \in AsCalls(sessions) : c \in {k.from, k.to}
  <2>1. PICK t \in sessions : c \in Parties(t)
    BY <1>0 DEF Active
  <2>2. AsCall(t) \in AsCalls(sessions) /\ c \in {AsCall(t).from, AsCall(t).to}
    BY <2>1 DEF AsCalls, AsCall, Parties
  <2> QED
    BY <2>2
<1>6. LineCounts' = [x \in Chars |->
         IF LineCounts[x] < HistoryCap /\ \E k \in {AsCall(s)} : x \in {k.from, k.to}
         THEN LineCounts[x] + 1 ELSE LineCounts[x]]
  BY <1>0, <1>3, FiledCounts
<1>7. slot[acct] \in Chars
  BY <1>1 DEF Sessions
<1>8. AsCalls(sessions)' = AsCalls(sessions)
  BY <1>0
<1> QED
  BY <1>0, <1>1, <1>2, <1>4, <1>5, <1>6, <1>7, <1>8
     DEF Line!Engaged, Line!Busy, Line!Filed

LEMMA AnswerPicksUp ==
  ASSUME IInv, NEW s \in sessions, Answer(s), s.state = "ringing"
  PROVE  Line!PickUp(AsCall(s)) /\ AsCall(s) \in AsCalls(sessions)
<1>0. /\ sessions' = (sessions \ {s}) \cup {Answered(s)} /\ history' = history
      /\ s \in Sessions /\ {s} \in SUBSET sessions
  BY DEF Answer, IInv, TypeOK
<1>1. AsCall(Answered(s)) = [AsCall(s) EXCEPT !.state = "connected"] /\ AsCall(s).state = "ringing"
  BY <1>0 DEF AsCall, Answered
<1>2. AsCalls(sessions \ {s}) = AsCalls(sessions) \ {AsCall(s)}
  <2>1. AsCalls({s}) = {AsCall(s)}
    BY DEF AsCalls
  <2> QED
    BY <1>0, <2>1, AsCallsMinus
<1>3. AsCalls(sessions') = (AsCalls(sessions) \ {AsCall(s)}) \cup {AsCall(Answered(s))}
  <2>1. AsCalls(sessions') = AsCalls(sessions \ {s}) \cup {AsCall(Answered(s))}
    BY <1>0 DEF AsCalls
  <2> QED
    BY <1>2, <2>1
<1>4. AsCall(s) \in AsCalls(sessions)
  BY DEF AsCalls
<1>5. AsCalls(sessions)' = AsCalls(sessions')
  OBVIOUS
<1> QED
  BY <1>0, <1>1, <1>3, <1>4, <1>5 DEF Line!PickUp, LineCounts

LEMMA TickRingsOut ==
  ASSUME IInv, TickCalls
  PROVE  \E over \in SUBSET AsCalls(sessions) : Line!RingOut(over)
<1>0. /\ sessions' = {Older(s) : s \in sessions \ Expired}
      /\ history' = Filed(Expired, "missed")
      /\ Expired \in SUBSET sessions /\ Expired \in SUBSET Sessions /\ "missed" \in Results
      /\ \A s \in Expired : s.state = "ringing"
  BY DEF TickCalls, IInv, TypeOK, Results, Expired
<1> DEFINE over == AsCalls(Expired)
<1>1. over \in SUBSET AsCalls(sessions) /\ \A k \in over : k.state = "ringing"
  BY <1>0 DEF AsCalls, AsCall
<1>2. AsCalls(sessions') = AsCalls(sessions) \ over
  <2>1. \A s \in sessions \ Expired : AsCall(Older(s)) = AsCall(s)
    BY OlderFacts DEF IInv, TypeOK, AsCall
  <2>2. AsCalls(sessions') = AsCalls(sessions \ Expired)
    BY <1>0, <2>1 DEF AsCalls
  <2> QED
    BY <1>0, <2>2, AsCallsMinus
<1>3. LineCounts' = [c \in Chars |->
         IF LineCounts[c] < HistoryCap /\ \E k \in over : c \in {k.from, k.to}
         THEN LineCounts[c] + 1 ELSE LineCounts[c]]
  BY <1>0, FiledCounts
<1> HIDE DEF over
<1>4. Line!RingOut(over)
  BY <1>1, <1>2, <1>3 DEF Line!RingOut, Line!Filed
<1> QED
  BY <1>1, <1>4

LEMMA ControlIsACall ==
  ASSUME IInv, NEW acct, NEW id, NEW action, ControlCall(acct, id, action), action \in Actions
  PROVE  [Line!Next]_<<AsCalls(sessions), LineCounts>>
<1>1. CASE UNCHANGED <<sessions, history, down>>
  BY <1>1 DEF AsCalls, LineCounts
<1>2. ASSUME NEW s \in sessions, Controlled(s, action), Effective(acct, s, action)
      PROVE  Line!Next
  <2>1. CASE Answer(s) /\ action = "answer"
    <3>1. s.state = "ringing"
      BY <1>2, <2>1 DEF Effective
    <3> QED
      BY <2>1, <3>1, AnswerPicksUp DEF Line!Next
  <2>2. ASSUME NEW result \in Results, Finish(s, result) PROVE Line!Next
    <3>1. End({s}, result)
      BY <2>2 DEF Finish
    <3> QED
      BY <3>1, FinishHangsUp DEF Line!Next
  <2>3. \/ Answer(s) /\ action = "answer"
        \/ \E result \in {"failed", "declined", "completed", "cancelled"} : Finish(s, result)
    BY <1>2 DEF Controlled
  <2>4. {"failed", "declined", "completed", "cancelled"} \subseteq Results
    BY DEF Results
  <2> QED
    BY <2>1, <2>2, <2>3, <2>4
<1>3. ASSUME NEW s \in TheCallMeant(acct, id) PROVE s \in sessions
  BY DEF TheCallMeant, Active
<1> QED
  BY <1>1, <1>2, <1>3 DEF ControlCall

LEMMA StepIsACall ==
  ASSUME IInv, [Next]_vars
  PROVE  [Line!Next]_<<AsCalls(sessions), LineCounts>>
<1>0. ASSUME UNCHANGED <<sessions, history>>
      PROVE  UNCHANGED <<AsCalls(sessions), LineCounts>>
  BY <1>0 DEF AsCalls, LineCounts
<1>1. ASSUME NEW acct \in Accounts, Client(acct) PROVE UNCHANGED <<sessions, history>>
  BY <1>1 DEF Client, Hear, Press, store
<1>2. ASSUME NEW acct \in Accounts, Handlers(acct)
      PROVE  [Line!Next]_<<AsCalls(sessions), LineCounts>>
  <2>1. ASSUME NEW c \in Chars, BeginCall(acct, c) PROVE Line!Next
    BY <2>1, BeginRings DEF Line!Next
  <2>2. ASSUME NEW c \in Chars, BeginBusyCall(acct, c) PROVE Line!Next
    BY <2>2, BusyIsEngaged DEF Line!Next
  <2>3. CASE HandleButton(acct)
    <3>1. Head(up[acct]) \in Buttons
      BY <2>3, HeadTailProperties DEF HandleButton, IInv, TypeOK
    <3>2. Head(up[acct]).action \in Actions
      BY <3>1 DEF Buttons
    <3> QED
      BY <2>3, <3>2, ControlIsACall DEF HandleButton
  <2>4. ASSUME NEW action \in Actions, TypeControl(acct, action)
        PROVE  [Line!Next]_<<AsCalls(sessions), LineCounts>>
    BY <2>4, ControlIsACall DEF TypeControl
  <2> QED
    BY <1>2, <2>1, <2>2, <2>3, <2>4 DEF Handlers
<1>3. ASSUME NEW acct \in Accounts, EndOwnCall(acct)
      PROVE  [Line!Next]_<<AsCalls(sessions), LineCounts>>
  <2>1. PICK over \in SUBSET sessions :
          /\ \A s, t \in over : s = t
          /\ sessions' = sessions \ over
          /\ over = {} => history' = history
          /\ history' = Filed(over, "completed") \/ over = {}
    BY <1>3, EndOwnEnds
  <2>2. CASE over = {}
    BY <1>0, <2>1, <2>2
  <2>3. ASSUME NEW s \in over PROVE Line!Next
    <3>1. over = {s} /\ s \in sessions
      BY <2>1
    <3>2. "completed" \in Results /\ End({s}, "completed")
      BY <2>1, <3>1 DEF End, Results
    <3> QED
      BY <3>1, <3>2, FinishHangsUp DEF Line!Next
  <2> QED
    BY <2>2, <2>3
<1>4. ASSUME NEW acct \in Accounts, Lifecycle(acct)
      PROVE  [Line!Next]_<<AsCalls(sessions), LineCounts>>
  <2>1. UNCHANGED <<sessions, history>> \/ EndOwnCall(acct)
    BY <1>4 DEF Lifecycle, Connect, Disconnect, NewCharacter, SelectCharacter, Retire,
                SetBlocked, store
  <2> QED
    BY <1>0, <1>3, <2>1
<1>5. CASE TickCalls
  BY <1>5, TickRingsOut DEF Line!Next
<1>6. CASE UNCHANGED vars
  BY <1>0, <1>6 DEF vars, store
<1> QED
  BY <1>0, <1>1, <1>2, <1>4, <1>5, <1>6 DEF Next

\* Ids, slots, buttons and timers are a telephone: one call each, nobody talks
\* unanswered, only ringing ends by itself, every call is on both histories.
THEOREM CallsImplementTelephone == Spec => ImplementsTelephone
<1>1. Init => Line!Init
  <2> SUFFICES ASSUME Init PROVE Line!Init
    OBVIOUS
  <2>1. AsCalls(sessions) = {}
    BY DEF Init, AsCalls
  <2>2. LineCounts = [c \in Chars |-> 0]
    BY DEF Init, LineCounts
  <2> QED
    BY <2>1, <2>2 DEF Line!Init
<1>2. IInv /\ [Next]_vars => [Line!Next]_<<AsCalls(sessions), LineCounts>>
  BY StepIsACall
<1> QED
  BY <1>1, <1>2, CallsAreSound, PTL DEF Spec, ImplementsTelephone, Line!Spec
=============================================================================
