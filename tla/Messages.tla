------------------------------ MODULE Messages -----------------------------
(***************************************************************************)
(* Text messages: MessageStore.h and the RequestLedger it holds, the       *)
(* commands /text and /read, DeliverPendingMessages on arrival, the writes *)
(* the server's tick makes at most every two seconds, and the restarts     *)
(* that lose what was not written.                                         *)
(*                                                                         *)
(* Conversations are kept as one set of texts: a thread is the texts of a  *)
(* pair of characters and ids are handed out in the order of sending, so   *)
(* "older" compares ids.  Empty and overlong bodies are refused by Send    *)
(* and change nothing.  Every handler runs to its end on the one thread    *)
(* that also ticks.                                                        *)
(***************************************************************************)
EXTENDS Naturals, FiniteSets

CONSTANTS
  Accounts,        \* Discord accounts, at most one connection each
  Chars,           \* character ids; a character's number stands for it
  Owner,           \* the account of each character
  StartSlot,       \* the character each account plays at first
  Blocks,          \* pairs <<c, d>>: c has blocked d's number
  Requests,        \* request ids a caller of Send may supply
  NoRequest,       \* the empty request id
  ThreadCap,       \* kConversationMessageCap
  PageSize,        \* Thread's limit, what /read shows
  FlushSeconds,    \* kFlushIntervalSeconds
  LedgerSeconds,   \* RequestLedger::kTtlSeconds
  PerOwnerLimit,   \* RequestLedger::kPerOwnerLimit
  GlobalLimit,     \* RequestLedger::kGlobalLimit
  Asked,           \* bound: pairs <<c, d>>: c texts d with a request id
  MaxTexts         \* bound: texts ever accepted

ASSUME ConstantsAssumption ==
  /\ Owner \in [Chars -> Accounts]
  /\ StartSlot \in [Accounts -> Chars]
  /\ Blocks \subseteq Chars \X Chars /\ Asked \subseteq Chars \X Chars
  /\ NoRequest \notin Requests
  /\ ThreadCap \in Nat \ {0} /\ PageSize \in Nat \ {0}
  /\ FlushSeconds \in Nat /\ LedgerSeconds \in Nat \ {0}
  /\ PerOwnerLimit \in Nat \ {0} /\ GlobalLimit \in Nat \ {0}
  /\ MaxTexts \in Nat

Ids == 1 .. MaxTexts
Texts == [id : Ids, from : Chars, to : Chars]
Entries == [id : Ids, owner : Chars, request : Requests, result : Ids,
            age : 0 .. LedgerSeconds]

VARIABLES
  online,           \* the accounts with a connection
  slot,             \* per account, the character in its ActiveSlot
  texts,            \* m_conversations
  delivered,        \* the ids whose Delivered flag is set
  readable,         \* m_readable
  dirty,            \* m_dirty
  idle,             \* seconds since m_lastFlushAt, up to FlushSeconds
  ledger,           \* m_requests: an entry's id is its place in the vector
  savedTexts,       \* the conversations in the file
  savedDelivered,   \* and their flags
  sent,             \* history: the texts this process accepted with a
                    \* request id, and their age up to LedgerSeconds
  lastId,           \* history: how many texts were ever accepted
  shown             \* history: <<id, c>>: the text was handed to c's player
                    \* by this process, or is marked so in the file it read

people == <<online, slot>>
memory == <<texts, delivered, dirty>>
disk == <<savedTexts, savedDelivered>>
past == <<sent, lastId, shown>>
vars == <<people, memory, readable, idle, ledger, disk, past>>

-----------------------------------------------------------------------------
(* The store. *)

NewerThan(S, id) == {k \in S : k.id > id}

\* What is left of a vector when its oldest are erased down to n.
Newest(S, n) == {m \in S : Cardinality(NewerThan(S, m.id)) < n}

Thread(c, d) == {m \in texts : {m.from, m.to} = {c, d}}

Undelivered(c) == {m \in texts : m.to = c /\ m.id \notin delivered}

IdsOf(S) == {m.id : m \in S}

\* Wrong on purpose: what the character sent is marked as well.
MarkedBothWays(c) == delivered \cup IdsOf({m \in texts : c \in {m.from, m.to}})

\* MarkDelivered takes the character: every thread it is in.
NowDelivered(c) == delivered \cup IdsOf({m \in texts : m.to = c})

\* RequestLedger::Find; an entry past its time is treated as absent.
Remembered(c, r) ==
  {e \in ledger : e.owner = c /\ e.request = r /\ e.age < LedgerSeconds}

\* Wrong on purpose: the oldest entries go, whoever owns them.
FrontTrimmed(entries, c) == Newest(entries, PerOwnerLimit)

\* RequestLedger::Trim, the owner's own entries first.
Trimmed(entries, c) ==
  LET own == {e \in entries : e.owner = c}
  IN  Newest((entries \ own) \cup Newest(own, PerOwnerLimit), GlobalLimit)

\* RequestLedger::Record: the same id again keeps its place in the vector.
Recorded(c, r, id) ==
  LET same == {e \in ledger : e.owner = c /\ e.request = r}
      Entry(place) == [id |-> place, owner |-> c, request |-> r, result |-> id, age |-> 0]
  IN  IF r = NoRequest THEN ledger
      ELSE IF same # {} THEN (ledger \ same) \cup {Entry(e.id) : e \in same}
      ELSE Trimmed(ledger \cup {Entry(id)}, c)

Accepted(c, r, id) == [id |-> id, from |-> c, request |-> r, age |-> 0]

NewText(c, d) == [id |-> lastId + 1, from |-> c, to |-> d]

\* MessageStore::Send, up to who is told; what it refuses changes nothing.
Send(c, d, r) ==
  /\ readable /\ c # d
  /\ lastId < MaxTexts
  /\ texts' = (texts \ Thread(c, d))
                \cup Newest(Thread(c, d) \cup {NewText(c, d)}, ThreadCap)
  /\ dirty' = TRUE
  /\ ledger' = Recorded(c, r, lastId + 1)
  /\ lastId' = lastId + 1
  /\ sent' = sent \cup {Accepted(c, q, lastId + 1) : q \in {r} \cap Requests}
  /\ UNCHANGED <<readable, idle, disk>>

Handed(S, c) == shown' = shown \cup {<<m.id, c>> : m \in S}

-----------------------------------------------------------------------------
Init ==
  /\ online = {}
  /\ slot = StartSlot
  /\ texts = {} /\ delivered = {} /\ dirty = FALSE
  /\ readable = TRUE
  /\ idle = FlushSeconds
  /\ ledger = {}
  /\ savedTexts = {} /\ savedDelivered = {}
  /\ sent = {} /\ lastId = 0 /\ shown = {}

\* Somebody with a character; without one every handler refuses.
Speaks(acct) == acct \in online

\* Wrong on purpose: connected is enough.
ReadsAnyway(d) == Owner[d] \in online

\* The recipient's account is connected and playing the character texted.
Reads(d) == Owner[d] \in online /\ slot[Owner[d]] = d

\* /text.  A blocked sender is told it was sent and nothing is stored.
Text(acct, d) ==
  /\ Speaks(acct)
  /\ <<d, slot[acct]>> \notin Blocks
  /\ Send(slot[acct], d, NoRequest)
  /\ IF Reads(d)
     THEN /\ Handed({NewText(slot[acct], d)}, slot[Owner[d]])
          /\ delivered' = NowDelivered(d) \cup {lastId + 1}
     ELSE UNCHANGED <<delivered, shown>>
  /\ UNCHANGED people

\* Send with a request id, the store's own interface: no command passes one
\* yet.  A remembered id is answered with the first text's id and stores
\* nothing.
SendOnce(c, d, r) ==
  /\ <<c, d>> \in Asked
  /\ Remembered(c, r) = {}
  /\ Send(c, d, r)
  /\ UNCHANGED <<people, delivered, shown>>

MarkDelivered(c) ==
  /\ delivered' = NowDelivered(c)
  /\ dirty' = (dirty \/ Undelivered(c) # {})

\* DeliverPendingMessages, when the character spawns.
DeliverPending(acct) ==
  /\ Speaks(acct)
  /\ Undelivered(slot[acct]) # {}
  /\ Handed(Undelivered(slot[acct]), slot[acct])
  /\ MarkDelivered(slot[acct])
  /\ UNCHANGED <<people, texts, readable, idle, ledger, disk, sent, lastId>>

\* /read shows the end of one thread and marks everything.
Read(acct, d) ==
  /\ Speaks(acct)
  /\ Thread(slot[acct], d) # {}
  /\ Handed({m \in Newest(Thread(slot[acct], d), PageSize) : m.to = slot[acct]}, slot[acct])
  /\ MarkDelivered(slot[acct])
  /\ UNCHANGED <<people, texts, readable, idle, ledger, disk, sent, lastId>>

-----------------------------------------------------------------------------
(* Players come and go. *)

Connect(acct) ==
  /\ acct \notin online
  /\ online' = online \cup {acct}
  /\ UNCHANGED <<slot, memory, readable, idle, ledger, disk, past>>

Disconnect(acct) ==
  /\ acct \in online
  /\ online' = online \ {acct}
  /\ UNCHANGED <<slot, memory, readable, idle, ledger, disk, past>>

\* HandleSelectCharacterRequest
SelectCharacter(acct, c) ==
  /\ acct \in online
  /\ Owner[c] = acct
  /\ slot' = [slot EXCEPT ![acct] = c]
  /\ UNCHANGED <<online, memory, readable, idle, ledger, disk, past>>

-----------------------------------------------------------------------------
(* The tick, the clock and the disk. *)

Written ==
  /\ savedTexts' = texts /\ savedDelivered' = delivered
  /\ dirty' = FALSE

FlushDue == dirty /\ idle >= FlushSeconds

\* RequestLedger::Expire
Expire == ledger' = {e \in ledger : e.age < LedgerSeconds}

\* Wrong on purpose: a write that failed is believed.
BelievesAnyway ==
  /\ FlushDue
  /\ Expire
  /\ idle' = 0
  /\ dirty' = FALSE
  /\ UNCHANGED <<people, texts, delivered, readable, disk, past>>

\* OnUpdate: FlushIfDue, whose write may fail and is then due again later.
UpdateSaves ==
  /\ FlushDue
  /\ Expire
  /\ Written
  /\ idle' = 0
  /\ UNCHANGED <<people, texts, delivered, readable, past>>

UpdateFails ==
  /\ FlushDue
  /\ Expire
  /\ idle' = 0
  /\ UNCHANGED <<people, memory, readable, disk, past>>

UpdateIdles ==
  /\ ~FlushDue
  /\ Expire
  /\ UNCHANGED <<people, memory, readable, idle, disk, past>>

Aged(e, most) == [e EXCEPT !.age = IF e.age < most THEN e.age + 1 ELSE e.age]

Second ==
  /\ idle < FlushSeconds \/ \E m \in sent : m.age < LedgerSeconds
  /\ idle' = IF idle < FlushSeconds THEN idle + 1 ELSE idle
  /\ ledger' = {Aged(e, LedgerSeconds) : e \in ledger}
  /\ sent' = {Aged(m, LedgerSeconds) : m \in sent}
  /\ UNCHANGED <<people, memory, readable, disk, lastId, shown>>

\* MessageStore::Load of a file that can be parsed, or that cannot.
Load(file, flags) ==
  /\ readable' \in BOOLEAN
  /\ texts' = IF readable' THEN file ELSE {}
  /\ delivered' = IF readable' THEN flags ELSE {}
  /\ dirty' = FALSE /\ idle' = FlushSeconds
  /\ ledger' = {}
  /\ online' = {}
  /\ sent' = {}
  /\ shown' = {<<m.id, m.to>> : m \in {k \in texts' : k.id \in delivered'}}
  /\ UNCHANGED <<slot, lastId>>

Crash == Load(savedTexts, savedDelivered) /\ UNCHANGED disk

\* ~GameServer flushes, and the file is read again.
Stop ==
  /\ dirty
  /\ savedTexts' = texts /\ savedDelivered' = delivered
  /\ Load(texts, delivered)

-----------------------------------------------------------------------------
Player(acct) ==
  \/ \E d \in Chars : Text(acct, d) \/ Read(acct, d)
  \/ DeliverPending(acct)
  \/ Connect(acct)
  \/ Disconnect(acct)
  \/ \E c \in Chars : SelectCharacter(acct, c)

Update == UpdateSaves \/ UpdateFails \/ UpdateIdles

Next ==
  \/ \E acct \in Accounts : Player(acct)
  \/ \E c, d \in Chars, r \in Requests : SendOnce(c, d, r)
  \/ Update
  \/ Second
  \/ Crash \/ Stop

\* The loop keeps updating and time passes; a write that is tried again and
\* again succeeds in the end.
Spec ==
  /\ Init /\ [][Next]_vars
  /\ WF_vars(Update) /\ WF_vars(Second) /\ SF_vars(UpdateSaves)

-----------------------------------------------------------------------------
TypeOK ==
  /\ online \subseteq Accounts
  /\ slot \in [Accounts -> Chars]
  /\ texts \subseteq Texts /\ savedTexts \subseteq Texts
  /\ delivered \subseteq Ids /\ savedDelivered \subseteq Ids
  /\ readable \in BOOLEAN /\ dirty \in BOOLEAN
  /\ idle \in 0 .. FlushSeconds
  /\ ledger \subseteq Entries
  /\ sent \subseteq [id : Ids, from : Chars, request : Requests, age : 0 .. LedgerSeconds]
  /\ lastId \in 0 .. MaxTexts
  /\ shown \subseteq Ids \X Chars

\* An id names one text in memory and in the file, and nobody texts itself.
IdsNameOneText ==
  \A file \in {texts, savedTexts} :
    /\ \A m, k \in file : m.id = k.id => m = k
    /\ \A m \in file : m.id <= lastId /\ m.from # m.to

\* Nothing speaks of a text that was not accepted yet.
NothingIsAhead ==
  /\ \A i \in delivered \cup savedDelivered : i <= lastId
  /\ \A m \in sent : m.id <= lastId
  /\ \A e \in ledger : e.id <= lastId
  /\ \A m \in shown : m[1] <= lastId

\* What memory and file disagree on is still to be written; a store that could
\* not read its file never has anything to write over it.
CleanMeansSaved ==
  /\ readable /\ ~dirty => texts = savedTexts /\ delivered = savedDelivered
  /\ ~readable => texts = {} /\ ~dirty

\* What this process has handed over it does not hand over again unasked.
ShownIsDelivered == \A m \in texts : <<m.id, m.to>> \in shown => m.id \in delivered

\* A text is only ever handed to a player who plays the character it is for.
ShownToItsReader == \A m \in texts, c \in Chars : <<m.id, c>> \in shown => m.to = c

\* The ledger answers a request with a text the same character sent with it.
LedgerIsTrue ==
  \A e \in ledger : \E m \in sent :
    m.id = e.result /\ m.from = e.owner /\ m.request = e.request /\ m.age = e.age

OneEntryEach ==
  \A e, f \in ledger :
    e.id = f.id \/ (e.owner = f.owner /\ e.request = f.request) => e = f

StoreInv ==
  /\ TypeOK /\ IdsNameOneText /\ NothingIsAhead /\ CleanMeansSaved
  /\ ShownIsDelivered /\ ShownToItsReader /\ LedgerIsTrue /\ OneEntryEach

\* Texts grow old in the order in which they were accepted.
SentInOrder ==
  /\ IsFiniteSet(sent)
  /\ \A m, n \in sent : /\ m.id = n.id => m = n
                        /\ m.id < n.id => n.age <= m.age

\* "BOUNDED, ALWAYS": nobody fills the ledger alone, nor do all together.
LedgerBounded ==
  /\ IsFiniteSet(ledger) /\ Cardinality(ledger) <= GlobalLimit
  /\ \A c \in Chars : Cardinality({e \in ledger : e.owner = c}) <= PerOwnerLimit

\* An entry's place is at most as late as the text it answers with: a renewed
\* entry keeps the place of the first.
PlacedBefore == \A e \in ledger : e.id <= e.result

IsFirst(m) ==
  \A n \in sent : n.from = m.from /\ n.request = m.request => m.id <= n.id

OwnLater(m) == {own \in NewerThan(sent, m.id) : own.from = m.from}

\* The first text of a request is remembered for its time, unless enough later
\* ones of its sender or of everybody pushed its entry out.
FirstsAreKept ==
  \A m \in sent :
    IsFirst(m) /\ m.age < LedgerSeconds
      => \/ \E e \in ledger : e.id = m.id /\ e.result = m.id
         \/ Cardinality(OwnLater(m)) >= PerOwnerLimit
         \/ Cardinality(NewerThan(ledger, m.id)) >= GlobalLimit

LedgerInv == SentInOrder /\ LedgerBounded /\ PlacedBefore /\ FirstsAreKept

\* The inductive invariant: the store's, and the ledger's that rests on it.
IInv == StoreInv /\ LedgerInv

\* A retry of a request's first text makes a second one only when it comes
\* too late, when the sender's own later requests pushed the first one out, or
\* when the ledger is full: "a flood costs the flooder their own history and
\* nobody else's" (RequestLedger::Trim).  Only of the first: Record renews an
\* entry that expired and was not swept yet where it stands, so that "the front
\* is always the oldest" fails and the global cap may take a young entry for
\* an old one.
AnsweredOnce ==
  \A m \in sent, k \in sent' :
    /\ k.id > lastId
    /\ m.from = k.from /\ m.request = k.request
    /\ IsFirst(m) /\ m.age < LedgerSeconds
    => \/ Cardinality(OwnLater(m)) >= PerOwnerLimit
       \/ Cardinality(ledger) >= GlobalLimit

RetriesAreOneText == [][AnsweredOnce]_vars

\* The boxes as people know them.
Owed == {m \in texts : m.id \notin delivered}
OwedOnDisk == {m \in savedTexts : m.id \notin savedDelivered}

Box == INSTANCE Mailbox WITH
  People <- Chars, box <- texts, owed <- Owed, saved <- savedTexts, due <- OwedOnDisk

\* Flags, debounced writes and restarts add up to a mailbox.
ImplementsMailbox == Box!Spec

\* Whatever is accepted gets written, unless it goes first.
TextsReachTheDisk ==
  \A i \in Ids : i \in IdsOf(texts) ~> (i \in IdsOf(savedTexts) \/ i \notin IdsOf(texts))
=============================================================================
