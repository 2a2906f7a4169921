--------------------------- MODULE MessageProofs ---------------------------
(***************************************************************************)
(* The invariant of text messages and of the ledger that answers retries,  *)
(* and the mailbox they implement, for any number of characters, any caps  *)
(* and any timers.                                                         *)
(***************************************************************************)
EXTENDS Messages, FiniteSetTheorems, TLAPS

\* Trimming only drops.
LEMMA NewestDrops == ASSUME NEW S, NEW n PROVE Newest(S, n) \subseteq S
BY DEF Newest

\* Trimming keeps the one with the greatest id.
LEMMA NewestKeepsTheNew ==
  ASSUME NEW S, NEW n \in Nat \ {0}, NEW m \in S, \A k \in S : ~(k.id > m.id)
  PROVE  m \in Newest(S, n)
<1>1. NewerThan(S, m.id) = {}
  BY DEF NewerThan
<1>2. Cardinality(NewerThan(S, m.id)) = 0
  BY <1>1, FS_EmptySet
<1> QED BY <1>2 DEF Newest

\* Trimming the ledger only drops.
LEMMA TrimmedDrops == ASSUME NEW L, NEW c PROVE Trimmed(L, c) \subseteq L
<1> DEFINE own == {e \in L : e.owner = c}
           kept == (L \ own) \cup Newest(own, PerOwnerLimit)
<1>1. Newest(own, PerOwnerLimit) \subseteq own
  BY NewestDrops
<1>2. Newest(kept, GlobalLimit) \subseteq kept
  BY NewestDrops
<1> QED BY <1>1, <1>2 DEF Trimmed

\* What Record leaves in the ledger: what was there, under another key, and
\* at most one new entry for this key, at an old place or a new one.
LEMMA RecordedIs ==
  ASSUME NEW c \in Chars, NEW r \in Requests \cup {NoRequest}, NEW id,
         ConstantsAssumption, OneEntryEach
  PROVE  /\ r = NoRequest => Recorded(c, r, id) = ledger
         /\ r # NoRequest =>
              \E place \in {id} \cup {e.id : e \in {f \in ledger : f.owner = c /\ f.request = r}} :
                Recorded(c, r, id) \subseteq
                  {e \in ledger : ~(e.owner = c /\ e.request = r)}
                    \cup {[id |-> place, owner |-> c, request |-> r, result |-> id, age |-> 0]}
<1> DEFINE same == {e \in ledger : e.owner = c /\ e.request = r}
           Entry(place) == [id |-> place, owner |-> c, request |-> r, result |-> id, age |-> 0]
<1>1. CASE r = NoRequest
  BY <1>1 DEF Recorded
<1>2. CASE r # NoRequest /\ same # {}
  <2>1. PICK f \in same : TRUE
    BY <1>2
  <2>2. \A e \in same : e = f
    BY <2>1 DEF OneEntryEach
  <2>3. Recorded(c, r, id) = (ledger \ same) \cup {Entry(e.id) : e \in same}
    BY <1>2 DEF Recorded
  <2>4. {Entry(e.id) : e \in same} \subseteq {Entry(f.id)}
    BY <2>2
  <2>5. Recorded(c, r, id) \subseteq
          {e \in ledger : ~(e.owner = c /\ e.request = r)} \cup {Entry(f.id)}
    BY <2>3, <2>4
  <2> QED BY <1>2, <2>1, <2>5
<1>3. CASE r # NoRequest /\ same = {}
  <2>1. Recorded(c, r, id) = Trimmed(ledger \cup {Entry(id)}, c)
    BY <1>3 DEF Recorded
  <2>2. Trimmed(ledger \cup {Entry(id)}, c) \subseteq ledger \cup {Entry(id)}
    BY TrimmedDrops
  <2> QED BY <1>3, <2>1, <2>2
<1> QED BY <1>1, <1>2, <1>3

-----------------------------------------------------------------------------
(* The invariant. *)

LEMMA InitIsSound == ASSUME ConstantsAssumption, Init PROVE StoreInv
<1>1. TypeOK
  <2>1. readable \in BOOLEAN /\ dirty \in BOOLEAN
    BY Zenon DEF Init
  <2>2. idle \in 0 .. FlushSeconds /\ lastId \in 0 .. MaxTexts
    BY DEF ConstantsAssumption, Init
  <2>3. slot \in [Accounts -> Chars] /\ online \subseteq Accounts
    BY DEF ConstantsAssumption, Init
  <2>4. /\ texts \subseteq Texts /\ savedTexts \subseteq Texts
        /\ delivered \subseteq Ids /\ savedDelivered \subseteq Ids
        /\ ledger \subseteq Entries /\ shown \subseteq Ids \X Chars
        /\ sent \subseteq [id : Ids, from : Chars, request : Requests, age : 0 .. LedgerSeconds]
    BY DEF Init
  <2> QED BY <2>1, <2>2, <2>3, <2>4 DEF TypeOK
<1>2. IdsNameOneText
  BY DEF Init, IdsNameOneText
<1>3. NothingIsAhead /\ CleanMeansSaved /\ ShownIsDelivered /\ ShownToItsReader
  BY DEF Init, NothingIsAhead, CleanMeansSaved, ShownIsDelivered, ShownToItsReader
<1>4. LedgerIsTrue /\ OneEntryEach
  BY DEF Init, LedgerIsTrue, OneEntryEach
<1> QED BY <1>1, <1>2, <1>3, <1>4 DEF StoreInv

\* What Send does to memory, whoever is told afterwards.
LEMMA SendTexts ==
  ASSUME NEW c \in Chars, NEW d \in Chars, NEW r \in Requests \cup {NoRequest},
         ConstantsAssumption, StoreInv, Send(c, d, r)
  PROVE  /\ NewText(c, d) \in Texts /\ NewText(c, d).id = lastId + 1
         /\ NewText(c, d).from = c /\ NewText(c, d).to = d
         /\ NewText(c, d) \in texts'
         /\ texts' \subseteq texts \cup {NewText(c, d)}
         /\ texts \ texts' \subseteq Thread(c, d)
         /\ NewText(c, d) \notin texts
         /\ lastId + 1 \in Ids /\ lastId' = lastId + 1
<1> DEFINE m == NewText(c, d)
<1>1. /\ m \in Texts /\ m.id = lastId + 1 /\ m.from = c /\ m.to = d
      /\ lastId \in Nat /\ lastId + 1 \in Ids /\ lastId' = lastId + 1
  BY DEF Send, StoreInv, TypeOK, ConstantsAssumption, NewText, Texts, Ids
<1>2. \A k \in Thread(c, d) \cup {m} : ~(k.id > m.id)
  BY <1>1 DEF StoreInv, TypeOK, IdsNameOneText, Thread, Texts, Ids
<1>3. m \in Newest(Thread(c, d) \cup {m}, ThreadCap)
  <2>1. m \in Thread(c, d) \cup {m} /\ ThreadCap \in Nat \ {0}
    BY DEF ConstantsAssumption
  <2> HIDE DEF m
  <2> QED BY <1>2, <2>1, NewestKeepsTheNew
<1>4. Newest(Thread(c, d) \cup {m}, ThreadCap) \subseteq Thread(c, d) \cup {m}
  BY NewestDrops
<1>5. Thread(c, d) \subseteq texts
  BY DEF Thread
<1>6. texts' = (texts \ Thread(c, d)) \cup Newest(Thread(c, d) \cup {m}, ThreadCap)
  BY DEF Send
<1>7. m \notin texts
  BY <1>1 DEF StoreInv, IdsNameOneText
<1> HIDE DEF m
<1>8. m \in texts' /\ texts' \subseteq texts \cup {m} /\ texts \ texts' \subseteq Thread(c, d)
  BY <1>3, <1>4, <1>5, <1>6
<1> QED BY <1>1, <1>7, <1>8 DEF m

LEMMA SendShared ==
  ASSUME NEW c \in Chars, NEW d \in Chars, NEW r \in Requests \cup {NoRequest},
         ConstantsAssumption, StoreInv, Send(c, d, r)
  PROVE  /\ texts' \subseteq Texts
         /\ ledger' \subseteq Entries
         /\ sent' \subseteq [id : Ids, from : Chars, request : Requests, age : 0 .. LedgerSeconds]
         /\ lastId' \in 0 .. MaxTexts
         /\ IdsNameOneText'
         /\ \A m \in sent' : m.id <= lastId'
         /\ \A e \in ledger' : e.id <= lastId'
         /\ LedgerIsTrue' /\ OneEntryEach'
<1> DEFINE k == NewText(c, d)
<1>1. /\ k \in Texts /\ k.id = lastId + 1 /\ k.from = c /\ k.to = d
      /\ texts' \subseteq texts \cup {k}
      /\ lastId + 1 \in Ids /\ lastId' = lastId + 1
  BY SendTexts
<1>2. /\ lastId \in Nat /\ lastId' \in 0 .. MaxTexts /\ c # d
      /\ texts \subseteq Texts /\ savedTexts \subseteq Texts /\ savedTexts' = savedTexts
      /\ MaxTexts \in Nat /\ LedgerSeconds \in Nat \ {0}
  BY <1>1 DEF Send, StoreInv, TypeOK, disk, Ids, ConstantsAssumption
<1>3. IdsNameOneText'
  <2> HIDE DEF k
  <2>1. \A m, n \in texts' : m.id = n.id => m = n
    BY <1>1, <1>2 DEF StoreInv, IdsNameOneText, Texts, Ids
  <2>2. \A m \in texts' : m.id <= lastId' /\ m.from # m.to
    BY <1>1, <1>2 DEF StoreInv, IdsNameOneText, Texts, Ids
  <2>3. /\ \A m, n \in savedTexts' : m.id = n.id => m = n
        /\ \A m \in savedTexts' : m.id <= lastId' /\ m.from # m.to
    BY <1>1, <1>2 DEF StoreInv, IdsNameOneText, Texts, Ids
  <2> QED BY <2>1, <2>2, <2>3 DEF IdsNameOneText
<1>4. texts' \subseteq Texts
  BY <1>1, <1>2
<1>5. sent' = sent \cup {Accepted(c, q, lastId + 1) : q \in {r} \cap Requests}
  BY DEF Send
<1>6. /\ sent' \subseteq [id : Ids, from : Chars, request : Requests, age : 0 .. LedgerSeconds]
      /\ \A m \in sent' : m.id <= lastId'
  <2>1. sent \subseteq [id : Ids, from : Chars, request : Requests, age : 0 .. LedgerSeconds]
    BY DEF StoreInv, TypeOK
  <2>2. \A m \in sent : m.id \in Ids /\ m.id <= lastId
    BY <2>1 DEF StoreInv, NothingIsAhead
  <2>3. \A q \in Requests :
          /\ Accepted(c, q, lastId + 1) \in
               [id : Ids, from : Chars, request : Requests, age : 0 .. LedgerSeconds]
          /\ Accepted(c, q, lastId + 1).id = lastId + 1
    BY <1>1, <1>2 DEF Accepted
  <2>4. \A m \in sent : m.id <= lastId'
    BY <1>1, <1>2, <2>2 DEF Ids
  <2>5. \A q \in Requests : Accepted(c, q, lastId + 1).id <= lastId'
    BY <1>1, <1>2, <2>3
  <2> QED BY <1>5, <2>1, <2>3, <2>4, <2>5
<1>7. /\ ledger' = Recorded(c, r, lastId + 1)
      /\ ledger \subseteq Entries /\ LedgerIsTrue /\ OneEntryEach
      /\ \A e \in ledger : e.id <= lastId
  BY DEF Send, StoreInv, TypeOK, NothingIsAhead
<1>8. CASE r = NoRequest
  <2>1. ledger' = ledger
    BY <1>7, <1>8, RecordedIs
  <2>2. sent \subseteq sent'
    BY <1>5
  <2>3. LedgerIsTrue' /\ OneEntryEach'
    BY <1>7, <2>1, <2>2 DEF LedgerIsTrue, OneEntryEach
  <2>4. \A e \in ledger' : e.id <= lastId'
    BY <1>1, <1>2, <1>7, <2>1 DEF Entries, Ids
  <2> QED BY <1>2, <1>3, <1>4, <1>6, <1>7, <2>1, <2>3, <2>4
<1>9. CASE r # NoRequest
  <2>1. \E place \in {lastId + 1}
                       \cup {e.id : e \in {f \in ledger : f.owner = c /\ f.request = r}} :
          ledger' \subseteq {e \in ledger : ~(e.owner = c /\ e.request = r)}
             \cup {[id |-> place, owner |-> c, request |-> r, result |-> lastId + 1, age |-> 0]}
    BY <1>7, <1>9, RecordedIs
  <2>2. PICK place \in {lastId + 1}
                       \cup {e.id : e \in {f \in ledger : f.owner = c /\ f.request = r}} :
          ledger' \subseteq {e \in ledger : ~(e.owner = c /\ e.request = r)}
             \cup {[id |-> place, owner |-> c, request |-> r, result |-> lastId + 1, age |-> 0]}
    BY <2>1
  <2> DEFINE n == [id |-> place, owner |-> c, request |-> r, result |-> lastId + 1, age |-> 0]
             a == Accepted(c, r, lastId + 1)
  <2>3. place \in Ids /\ place <= lastId'
    BY <1>1, <1>2, <1>7 DEF Entries, Ids
  <2>4. r \in Requests
    BY <1>9
  <2>5. n \in Entries /\ n.id <= lastId'
    BY <1>1, <1>2, <2>3, <2>4 DEF Entries
  <2>6. ledger' \subseteq Entries /\ \A e \in ledger' : e.id <= lastId'
    BY <1>1, <1>2, <1>7, <2>2, <2>5 DEF Entries, Ids
  <2>7. a \in sent' /\ a.id = n.result /\ a.from = n.owner /\ a.request = n.request
        /\ a.age = n.age
    BY <1>5, <2>4 DEF Accepted
  <2>8. LedgerIsTrue'
    <3> SUFFICES ASSUME NEW e \in ledger'
                 PROVE  \E m \in sent' : m.id = e.result /\ m.from = e.owner
                                           /\ m.request = e.request /\ m.age = e.age
      BY DEF LedgerIsTrue
    <3>1. CASE e = n
      BY <2>7, <3>1
    <3>2. CASE e # n
      <4>1. e \in ledger
        BY <2>2, <3>2
      <4>2. sent \subseteq sent'
        BY <1>5
      <4> QED BY <1>7, <4>1, <4>2 DEF LedgerIsTrue
    <3> QED BY <3>1, <3>2
  <2>9. OneEntryEach'
    <3>1. \A e \in ledger' : e = n \/ (e \in ledger /\ ~(e.owner = c /\ e.request = r))
      BY <2>2
    <3>2. \A e \in ledger : ~(e.owner = c /\ e.request = r) => e.id # place
      BY <1>2, <1>7 DEF OneEntryEach, Entries, Ids
    <3>3. n.id = place /\ n.owner = c /\ n.request = r
      OBVIOUS
    <3> HIDE DEF n
    <3> QED BY <1>7, <3>1, <3>2, <3>3 DEF OneEntryEach
  <2> QED BY <1>2, <1>3, <1>4, <1>6, <2>6, <2>8, <2>9
<1> QED BY <1>8, <1>9

\* /text
LEMMA TextIsSound ==
  ASSUME NEW acct \in Accounts, NEW d \in Chars, ConstantsAssumption, StoreInv, Text(acct, d)
  PROVE  StoreInv'
<1> DEFINE c == slot[acct]
           k == NewText(c, d)
<1>1. c \in Chars /\ Send(c, d, NoRequest) /\ UNCHANGED people
  BY DEF Text, StoreInv, TypeOK
<1>2. /\ k \in Texts /\ k.id = lastId + 1 /\ k.from = c /\ k.to = d
      /\ texts' \subseteq texts \cup {k} /\ k \notin texts
      /\ lastId + 1 \in Ids /\ lastId' = lastId + 1
  BY <1>1, SendTexts
<1>3. /\ texts' \subseteq Texts
      /\ ledger' \subseteq Entries
      /\ sent' \subseteq [id : Ids, from : Chars, request : Requests, age : 0 .. LedgerSeconds]
      /\ lastId' \in 0 .. MaxTexts
      /\ IdsNameOneText'
      /\ \A m \in sent' : m.id <= lastId'
      /\ \A e \in ledger' : e.id <= lastId'
      /\ LedgerIsTrue' /\ OneEntryEach'
  BY <1>1, SendShared
<1>4. /\ readable /\ readable' = readable /\ dirty' = TRUE /\ idle' = idle
      /\ savedTexts' = savedTexts /\ savedDelivered' = savedDelivered
      /\ online' = online /\ slot' = slot
  BY <1>1 DEF Send, disk, people
<1>5. \/ /\ Reads(d) /\ shown' = shown \cup {<<k.id, d>>}
         /\ delivered' = NowDelivered(d) \cup {lastId + 1}
      \/ shown' = shown /\ delivered' = delivered
  <2>1. CASE Reads(d)
    <3>1. slot[Owner[d]] = d
      BY <2>1 DEF Reads
    <3>2. Handed({k}, slot[Owner[d]]) /\ delivered' = NowDelivered(d) \cup {lastId + 1}
      BY <2>1 DEF Text
    <3> QED BY <2>1, <3>1, <3>2 DEF Handed
  <2>2. CASE ~Reads(d)
    BY <2>2 DEF Text
  <2> QED BY <2>1, <2>2
<1> HIDE DEF k
<1>6. /\ texts \subseteq Texts /\ delivered \subseteq Ids /\ savedDelivered \subseteq Ids
      /\ shown \subseteq Ids \X Chars /\ lastId \in Nat
      /\ \A i \in delivered \cup savedDelivered : i <= lastId
      /\ \A m \in shown : m[1] <= lastId
      /\ \A m \in texts : m.id <= lastId
  BY DEF StoreInv, TypeOK, NothingIsAhead, IdsNameOneText, ConstantsAssumption
<1>7. IdsOf({m \in texts : m.to = d}) \subseteq Ids
      /\ \A i \in IdsOf({m \in texts : m.to = d}) : i <= lastId
  BY <1>6 DEF IdsOf, Texts
<1>8. /\ delivered' \subseteq Ids /\ delivered \subseteq delivered'
      /\ \A i \in delivered' : i <= lastId'
  <2>1. \A i \in delivered \cup IdsOf({m \in texts : m.to = d}) : i \in Ids /\ i <= lastId'
    BY <1>2, <1>6, <1>7 DEF Ids
  <2>2. delivered' \subseteq delivered \cup IdsOf({m \in texts : m.to = d}) \cup {lastId + 1}
        /\ delivered \subseteq delivered'
    BY <1>5 DEF NowDelivered
  <2>3. lastId + 1 \in Ids /\ lastId + 1 <= lastId'
    BY <1>2, <1>6
  <2> QED BY <2>1, <2>2, <2>3
<1>9. /\ shown' \subseteq Ids \X Chars
      /\ \A m \in shown' : m[1] <= lastId'
      /\ shown \subseteq shown'
  <2>1. \A m \in shown : m[1] \in Ids /\ m[1] <= lastId'
    BY <1>2, <1>6 DEF Ids
  <2> QED BY <1>2, <1>5, <1>6, <2>1 DEF Ids
<1>10. TypeOK'
  BY <1>3, <1>4, <1>8, <1>9 DEF StoreInv, TypeOK
<1>11. NothingIsAhead'
  <2>1. \A i \in savedDelivered' : i <= lastId'
    BY <1>2, <1>4, <1>6 DEF Ids
  <2> QED BY <1>3, <1>8, <1>9, <2>1 DEF NothingIsAhead
<1>12. CleanMeansSaved'
  BY <1>4 DEF CleanMeansSaved
<1>13. <<k.id, k.to>> \in shown' => k.id \in delivered'
  <2>1. <<k.id, k.to>> \notin shown
    BY <1>2, <1>6 DEF Ids
  <2> QED BY <1>2, <1>5, <2>1
<1>14. \A m \in texts : m.id # k.id
  BY <1>2, <1>6 DEF Texts, Ids
<1>15. \A m \in texts, e \in Chars : <<m.id, e>> \in shown' => <<m.id, e>> \in shown
  BY <1>5, <1>14
<1>16. ShownIsDelivered'
  <2>1. \A m \in texts : <<m.id, m.to>> \in shown' => m.id \in delivered'
    BY <1>6, <1>8, <1>15 DEF StoreInv, ShownIsDelivered, Texts
  <2> QED BY <1>2, <1>13, <2>1 DEF ShownIsDelivered
<1>17. ShownToItsReader'
  <2>1. \A m \in texts, e \in Chars : <<m.id, e>> \in shown' => m.to = e
    BY <1>15 DEF StoreInv, ShownToItsReader
  <2>2. \A e \in Chars : <<k.id, e>> \notin shown
    BY <1>2, <1>6 DEF Ids
  <2>3. \A e \in Chars : <<k.id, e>> \in shown' => k.to = e
    BY <1>2, <1>5, <2>2
  <2> QED BY <1>2, <2>1, <2>3 DEF ShownToItsReader
<1> QED BY <1>3, <1>10, <1>11, <1>12, <1>16, <1>17 DEF StoreInv

\* Send with a request id
LEMMA SendOnceIsSound ==
  ASSUME NEW c \in Chars, NEW d \in Chars, NEW r \in Requests, ConstantsAssumption, StoreInv,
         SendOnce(c, d, r)
  PROVE  StoreInv'
<1> DEFINE k == NewText(c, d)
<1>1. /\ Send(c, d, r) /\ r \in Requests \cup {NoRequest}
      /\ online' = online /\ slot' = slot /\ delivered' = delivered /\ shown' = shown
  BY DEF SendOnce, people
<1>2. /\ k \in Texts /\ k.id = lastId + 1
      /\ texts' \subseteq texts \cup {k}
      /\ lastId + 1 \in Ids /\ lastId' = lastId + 1
  BY <1>1, SendTexts
<1>3. /\ texts' \subseteq Texts
      /\ ledger' \subseteq Entries
      /\ sent' \subseteq [id : Ids, from : Chars, request : Requests, age : 0 .. LedgerSeconds]
      /\ lastId' \in 0 .. MaxTexts
      /\ IdsNameOneText'
      /\ \A m \in sent' : m.id <= lastId'
      /\ \A e \in ledger' : e.id <= lastId'
      /\ LedgerIsTrue' /\ OneEntryEach'
  BY <1>1, SendShared
<1>4. /\ readable /\ readable' = readable /\ dirty' = TRUE /\ idle' = idle
      /\ savedTexts' = savedTexts /\ savedDelivered' = savedDelivered
  BY <1>1 DEF Send, disk
<1> HIDE DEF k
<1>5. TypeOK'
  BY <1>1, <1>3, <1>4 DEF StoreInv, TypeOK
<1>6. /\ \A i \in delivered \cup savedDelivered : i <= lastId /\ i \in Ids
      /\ \A m \in shown : m[1] <= lastId /\ m[1] \in Ids
      /\ lastId \in Nat
  BY DEF StoreInv, TypeOK, NothingIsAhead, ConstantsAssumption
<1>7. NothingIsAhead'
  BY <1>1, <1>2, <1>3, <1>4, <1>6 DEF NothingIsAhead, Ids
<1>8. CleanMeansSaved'
  BY <1>4 DEF CleanMeansSaved
<1>9. \A e \in Chars : <<k.id, e>> \notin shown
  BY <1>2, <1>6 DEF Ids
<1>10. k.to \in Chars
  BY <1>2 DEF Texts
<1>11. ShownIsDelivered' /\ ShownToItsReader'
  BY <1>1, <1>2, <1>9, <1>10 DEF StoreInv, ShownIsDelivered, ShownToItsReader
<1> QED BY <1>3, <1>5, <1>7, <1>8, <1>11 DEF StoreInv

\* Arriving and reading: some of what is addressed to the character is shown
\* and everything is marked.
LEMMA ShowingIsSound ==
  ASSUME NEW c \in Chars, NEW S \in SUBSET {m \in texts : m.to = c},
         ConstantsAssumption, StoreInv, Handed(S, c), MarkDelivered(c),
         UNCHANGED <<people, texts, readable, idle, ledger, disk, sent, lastId>>
  PROVE  StoreInv'
<1>1. /\ shown' = shown \cup {<<m.id, c>> : m \in S}
      /\ delivered' = delivered \cup IdsOf({m \in texts : m.to = c})
      /\ dirty' = (dirty \/ Undelivered(c) # {})
      /\ online' = online /\ slot' = slot /\ texts' = texts /\ readable' = readable
      /\ idle' = idle /\ ledger' = ledger /\ savedTexts' = savedTexts
      /\ savedDelivered' = savedDelivered /\ sent' = sent /\ lastId' = lastId
  BY DEF Handed, MarkDelivered, NowDelivered, people, disk
<1>2. texts \subseteq Texts /\ IdsNameOneText /\ CleanMeansSaved
      /\ ShownIsDelivered /\ ShownToItsReader /\ NothingIsAhead /\ TypeOK
  BY DEF StoreInv, TypeOK
<1>3. \A i \in IdsOf({m \in texts : m.to = c}) : i \in Ids /\ i <= lastId
  BY <1>2 DEF IdsOf, Texts, IdsNameOneText
<1>4. \A m \in S : <<m.id, c>> \in Ids \X Chars /\ m.id <= lastId /\ m.id \in delivered'
  BY <1>1, <1>2, <1>3 DEF IdsOf
<1>5. TypeOK'
  <2>1. dirty' \in BOOLEAN
    BY <1>1, <1>2, Zenon DEF TypeOK
  <2>2. delivered' \subseteq Ids /\ shown' \subseteq Ids \X Chars
    BY <1>1, <1>2, <1>3, <1>4 DEF TypeOK
  <2> QED BY <1>1, <1>2, <2>1, <2>2 DEF TypeOK
<1>6. IdsNameOneText' /\ LedgerIsTrue' /\ OneEntryEach'
  BY <1>1 DEF StoreInv, IdsNameOneText, LedgerIsTrue, OneEntryEach
<1>7. NothingIsAhead'
  <2>1. \A m \in shown' : m[1] <= lastId'
    <3>1. \A m \in shown : m[1] <= lastId'
      BY <1>1, <1>2 DEF NothingIsAhead
    <3>2. \A m \in S : <<m.id, c>>[1] <= lastId'
      BY <1>1, <1>4
    <3> QED BY <1>1, <3>1, <3>2
  <2>2. \A i \in delivered' \cup savedDelivered' : i <= lastId'
    BY <1>1, <1>2, <1>3 DEF NothingIsAhead
  <2> QED BY <1>1, <1>2, <2>1, <2>2 DEF NothingIsAhead
<1>8. CleanMeansSaved'
  <2>1. CASE Undelivered(c) = {}
    <3>1. delivered' = delivered
      BY <1>1, <2>1 DEF Undelivered, IdsOf
    <3>2. dirty' <=> dirty
      BY <1>1, <2>1, Zenon
    <3> QED BY <1>1, <1>2, <3>1, <3>2 DEF CleanMeansSaved
  <2>2. CASE Undelivered(c) # {}
    <3>1. texts # {}
      BY <2>2 DEF Undelivered
    <3>2. readable
      BY <1>2, <3>1 DEF CleanMeansSaved
    <3>3. dirty'
      BY <1>1, <2>2, Zenon
    <3> QED BY <1>1, <3>2, <3>3 DEF CleanMeansSaved
  <2> QED BY <2>1, <2>2
<1>9. ShownIsDelivered'
  <2> SUFFICES ASSUME NEW m \in texts, <<m.id, m.to>> \in shown' PROVE m.id \in delivered'
    BY <1>1 DEF ShownIsDelivered
  <2>1. CASE <<m.id, m.to>> \in shown
    BY <1>1, <1>2, <2>1 DEF ShownIsDelivered
  <2>2. CASE <<m.id, m.to>> \notin shown
    BY <1>1, <1>4, <2>2
  <2> QED BY <2>1, <2>2
<1>10. ShownToItsReader'
  <2> SUFFICES ASSUME NEW m \in texts, NEW e \in Chars, <<m.id, e>> \in shown' PROVE m.to = e
    BY <1>1 DEF ShownToItsReader
  <2>1. CASE <<m.id, e>> \in shown
    BY <1>2, <2>1 DEF ShownToItsReader
  <2>2. CASE <<m.id, e>> \notin shown
    <3>1. PICK n \in S : n.id = m.id /\ e = c
      BY <1>1, <2>2
    <3>2. n = m
      BY <1>2, <3>1 DEF IdsNameOneText
    <3> QED BY <3>1, <3>2
  <2> QED BY <2>1, <2>2
<1> QED BY <1>5, <1>6, <1>7, <1>8, <1>9, <1>10 DEF StoreInv

LEMMA DeliverPendingIsSound ==
  ASSUME NEW acct \in Accounts, ConstantsAssumption, StoreInv, DeliverPending(acct)
  PROVE  StoreInv'
<1>1. slot[acct] \in Chars
  BY DEF StoreInv, TypeOK
<1>2. Undelivered(slot[acct]) \in SUBSET {m \in texts : m.to = slot[acct]}
  BY DEF Undelivered
<1> QED BY <1>1, <1>2, ShowingIsSound DEF DeliverPending

LEMMA ReadIsSound ==
  ASSUME NEW acct \in Accounts, NEW d \in Chars, ConstantsAssumption, StoreInv, Read(acct, d)
  PROVE  StoreInv'
<1> DEFINE S == {m \in Newest(Thread(slot[acct], d), PageSize) : m.to = slot[acct]}
<1>1. slot[acct] \in Chars
  BY DEF StoreInv, TypeOK
<1>2. S \in SUBSET {m \in texts : m.to = slot[acct]}
  BY NewestDrops DEF Thread
<1>3. /\ Handed(S, slot[acct]) /\ MarkDelivered(slot[acct])
      /\ UNCHANGED <<people, texts, readable, idle, ledger, disk, sent, lastId>>
  BY DEF Read
<1> HIDE DEF S
<1> QED BY <1>1, <1>2, <1>3, ShowingIsSound

LEMMA PeopleAreSound ==
  ASSUME NEW acct \in Accounts, NEW c \in Chars, ConstantsAssumption, StoreInv,
         Connect(acct) \/ Disconnect(acct) \/ SelectCharacter(acct, c)
  PROVE  StoreInv'
<1>1. /\ texts' = texts /\ delivered' = delivered /\ dirty' = dirty /\ readable' = readable
      /\ idle' = idle /\ ledger' = ledger /\ savedTexts' = savedTexts
      /\ savedDelivered' = savedDelivered /\ sent' = sent /\ lastId' = lastId /\ shown' = shown
  BY DEF Connect, Disconnect, SelectCharacter, memory, disk, past
<1>2. online' \subseteq Accounts /\ slot' \in [Accounts -> Chars]
  BY DEF Connect, Disconnect, SelectCharacter, StoreInv, TypeOK
<1> QED BY <1>1, <1>2 DEF StoreInv, TypeOK, IdsNameOneText, NothingIsAhead, CleanMeansSaved,
      ShownIsDelivered, ShownToItsReader, LedgerIsTrue, OneEntryEach

\* An update of the server, whether its write succeeds, fails or is not due.
LEMMA UpdateIsSound == ASSUME ConstantsAssumption, StoreInv, Update PROVE StoreInv'
<1>1. /\ online' = online /\ slot' = slot /\ texts' = texts /\ delivered' = delivered
      /\ readable' = readable /\ sent' = sent /\ lastId' = lastId /\ shown' = shown
      /\ ledger' \subseteq ledger /\ idle' \in {0, idle}
      /\ \/ savedTexts' = texts /\ savedDelivered' = delivered /\ dirty' = FALSE /\ dirty
         \/ savedTexts' = savedTexts /\ savedDelivered' = savedDelivered /\ dirty' = dirty
  BY DEF Update, UpdateSaves, UpdateFails, UpdateIdles, FlushDue, Written, Expire, memory,
         people, disk, past
<1>2. TypeOK'
  <2>1. idle' \in 0 .. FlushSeconds
    BY <1>1 DEF StoreInv, TypeOK, ConstantsAssumption
  <2>2. dirty' \in BOOLEAN
    BY <1>1, Zenon DEF StoreInv, TypeOK
  <2> QED BY <1>1, <2>1, <2>2 DEF StoreInv, TypeOK
<1>3. IdsNameOneText'
  BY <1>1 DEF StoreInv, IdsNameOneText
<1>4. NothingIsAhead'
  BY <1>1 DEF StoreInv, NothingIsAhead
<1>5. CleanMeansSaved'
  BY <1>1 DEF StoreInv, CleanMeansSaved
<1>6. ShownIsDelivered' /\ ShownToItsReader' /\ LedgerIsTrue' /\ OneEntryEach'
  BY <1>1 DEF StoreInv, ShownIsDelivered, ShownToItsReader, LedgerIsTrue, OneEntryEach
<1> QED BY <1>2, <1>3, <1>4, <1>5, <1>6 DEF StoreInv

\* A second more of age leaves everything else of an entry.
LEMMA AgedIs ==
  ASSUME ConstantsAssumption
  PROVE  /\ \A e \in Entries :
              /\ Aged(e, LedgerSeconds) \in Entries
              /\ Aged(e, LedgerSeconds).id = e.id /\ Aged(e, LedgerSeconds).owner = e.owner
              /\ Aged(e, LedgerSeconds).request = e.request
              /\ Aged(e, LedgerSeconds).result = e.result
              /\ Aged(e, LedgerSeconds).age = IF e.age < LedgerSeconds THEN e.age + 1 ELSE e.age
         /\ \A m \in [id : Ids, from : Chars, request : Requests, age : 0 .. LedgerSeconds] :
              /\ Aged(m, LedgerSeconds) \in
                   [id : Ids, from : Chars, request : Requests, age : 0 .. LedgerSeconds]
              /\ Aged(m, LedgerSeconds).id = m.id /\ Aged(m, LedgerSeconds).from = m.from
              /\ Aged(m, LedgerSeconds).request = m.request
              /\ Aged(m, LedgerSeconds).age = IF m.age < LedgerSeconds THEN m.age + 1 ELSE m.age
<1>1. LedgerSeconds \in Nat
  BY DEF ConstantsAssumption
<1>2. \A i \in 0 .. LedgerSeconds :
        (IF i < LedgerSeconds THEN i + 1 ELSE i) \in 0 .. LedgerSeconds
  BY <1>1
<1> QED BY <1>2 DEF Aged, Entries

LEMMA SecondIsSound == ASSUME ConstantsAssumption, StoreInv, Second PROVE StoreInv'
<1> DEFINE Sent == [id : Ids, from : Chars, request : Requests, age : 0 .. LedgerSeconds]
<1>1. /\ online' = online /\ slot' = slot /\ texts' = texts /\ delivered' = delivered
      /\ readable' = readable /\ dirty' = dirty /\ lastId' = lastId /\ shown' = shown
      /\ savedTexts' = savedTexts /\ savedDelivered' = savedDelivered
      /\ idle' = IF idle < FlushSeconds THEN idle + 1 ELSE idle
      /\ ledger' = {Aged(e, LedgerSeconds) : e \in ledger}
      /\ sent' = {Aged(m, LedgerSeconds) : m \in sent}
  BY DEF Second, people, memory, disk
<1>2. ledger \subseteq Entries /\ sent \subseteq Sent
  BY DEF StoreInv, TypeOK
<1>3. ledger' \subseteq Entries /\ sent' \subseteq Sent
  BY <1>1, <1>2, AgedIs
<1>4. idle' \in 0 .. FlushSeconds
  BY <1>1 DEF StoreInv, TypeOK, ConstantsAssumption
<1>5. TypeOK'
  BY <1>1, <1>3, <1>4 DEF StoreInv, TypeOK
<1>6. /\ \A e \in ledger' : e.id <= lastId'
      /\ \A m \in sent' : m.id <= lastId'
  BY <1>1, <1>2, AgedIs DEF StoreInv, NothingIsAhead
<1>7. IdsNameOneText' /\ NothingIsAhead' /\ CleanMeansSaved' /\ ShownIsDelivered'
      /\ ShownToItsReader'
  BY <1>1, <1>6 DEF StoreInv, IdsNameOneText, NothingIsAhead, CleanMeansSaved, ShownIsDelivered,
     ShownToItsReader
<1>8. LedgerIsTrue'
  <2> SUFFICES ASSUME NEW e \in ledger
               PROVE  \E m \in sent' :
                        /\ m.id = Aged(e, LedgerSeconds).result
                        /\ m.from = Aged(e, LedgerSeconds).owner
                        /\ m.request = Aged(e, LedgerSeconds).request
                        /\ m.age = Aged(e, LedgerSeconds).age
    BY <1>1 DEF LedgerIsTrue
  <2>1. PICK m \in sent : m.id = e.result /\ m.from = e.owner /\ m.request = e.request
                            /\ m.age = e.age
    BY DEF StoreInv, LedgerIsTrue
  <2>2. Aged(m, LedgerSeconds) \in sent'
    BY <1>1
  <2> QED BY <1>2, <2>1, <2>2, AgedIs
<1>9. OneEntryEach'
  <2> SUFFICES ASSUME NEW e \in ledger, NEW f \in ledger,
                      \/ Aged(e, LedgerSeconds).id = Aged(f, LedgerSeconds).id
                      \/ /\ Aged(e, LedgerSeconds).owner = Aged(f, LedgerSeconds).owner
                         /\ Aged(e, LedgerSeconds).request = Aged(f, LedgerSeconds).request
               PROVE  Aged(e, LedgerSeconds) = Aged(f, LedgerSeconds)
    BY <1>1 DEF OneEntryEach
  <2>1. e = f
    BY <1>2, AgedIs DEF StoreInv, OneEntryEach
  <2> QED BY <2>1
<1> QED BY <1>5, <1>7, <1>8, <1>9 DEF StoreInv

\* A restart on a file whose texts and marks are in order.
LEMMA LoadIsSound ==
  ASSUME NEW file \in SUBSET Texts, NEW flags \in SUBSET Ids, ConstantsAssumption, StoreInv,
         Load(file, flags), savedTexts' = file, savedDelivered' = flags,
         \A m, k \in file : m.id = k.id => m = k,
         \A m \in file : m.id <= lastId /\ m.from # m.to,
         \A i \in flags : i <= lastId
  PROVE  StoreInv'
<1>1. /\ online' = {} /\ slot' = slot /\ lastId' = lastId /\ ledger' = {} /\ sent' = {}
      /\ dirty' = FALSE /\ idle' = FlushSeconds /\ readable' \in BOOLEAN
      /\ shown' = {<<m.id, m.to>> : m \in {k \in texts' : k.id \in delivered'}}
  BY DEF Load
<1>2. \/ readable' /\ texts' = file /\ delivered' = flags
      \/ ~readable' /\ texts' = {} /\ delivered' = {}
  BY DEF Load
<1>3. /\ texts' \subseteq Texts /\ delivered' \subseteq Ids
      /\ \A m, k \in texts' : m.id = k.id => m = k
      /\ \A m \in texts' : m.id <= lastId /\ m.from # m.to
      /\ \A i \in delivered' : i <= lastId
  BY <1>2
<1>4. TypeOK'
  <2>1. dirty' \in BOOLEAN
    BY <1>1, Zenon
  <2>2. idle' \in 0 .. FlushSeconds
    BY <1>1 DEF ConstantsAssumption
  <2>3. shown' \subseteq Ids \X Chars
    BY <1>1, <1>3 DEF Texts
  <2> QED BY <1>1, <1>3, <2>1, <2>2, <2>3 DEF StoreInv, TypeOK
<1>5. IdsNameOneText'
  BY <1>1, <1>3 DEF IdsNameOneText
<1>6. NothingIsAhead'
  <2>1. \A m \in shown' : m[1] <= lastId'
    BY <1>1, <1>3
  <2>2. \A i \in delivered' \cup savedDelivered' : i <= lastId'
    <3>1. \A i \in flags : i <= lastId
      OBVIOUS
    <3>2. delivered' \subseteq flags /\ savedDelivered' = flags /\ lastId' = lastId
      BY <1>1, <1>2
    <3> QED BY <3>1, <3>2
  <2>3. (\A m \in sent' : m.id <= lastId') /\ \A e \in ledger' : e.id <= lastId'
    BY <1>1
  <2> QED BY <2>1, <2>2, <2>3 DEF NothingIsAhead
<1>7. CleanMeansSaved'
  BY <1>1, <1>2 DEF CleanMeansSaved
<1>8. ShownIsDelivered'
  BY <1>1 DEF ShownIsDelivered
<1>9. ShownToItsReader'
  BY <1>1, <1>3 DEF ShownToItsReader
<1>10. LedgerIsTrue' /\ OneEntryEach'
  BY <1>1 DEF LedgerIsTrue, OneEntryEach
<1> QED BY <1>4, <1>5, <1>6, <1>7, <1>8, <1>9, <1>10 DEF StoreInv

LEMMA RestartIsSound == ASSUME ConstantsAssumption, StoreInv, Crash \/ Stop PROVE StoreInv'
<1>1. /\ texts \in SUBSET Texts /\ delivered \in SUBSET Ids
      /\ savedTexts \in SUBSET Texts /\ savedDelivered \in SUBSET Ids
      /\ \A i \in delivered \cup savedDelivered : i <= lastId
      /\ \A m, k \in texts : m.id = k.id => m = k
      /\ \A m \in texts : m.id <= lastId /\ m.from # m.to
      /\ \A m, k \in savedTexts : m.id = k.id => m = k
      /\ \A m \in savedTexts : m.id <= lastId /\ m.from # m.to
  BY DEF StoreInv, TypeOK, NothingIsAhead, IdsNameOneText
<1>2. CASE Crash
  <2>1. Load(savedTexts, savedDelivered) /\ savedTexts' = savedTexts
        /\ savedDelivered' = savedDelivered
    BY <1>2 DEF Crash, disk
  <2> QED BY <1>1, <2>1, LoadIsSound
<1>3. CASE Stop
  <2>1. Load(texts, delivered) /\ savedTexts' = texts /\ savedDelivered' = delivered
    BY <1>3 DEF Stop
  <2> QED BY <1>1, <2>1, LoadIsSound
<1> QED BY <1>2, <1>3

LEMMA StepIsSound == ASSUME ConstantsAssumption, StoreInv, [Next]_vars PROVE StoreInv'
<1>1. ASSUME NEW acct \in Accounts, Player(acct) PROVE StoreInv'
  BY <1>1, TextIsSound, ReadIsSound, DeliverPendingIsSound, PeopleAreSound DEF Player
<1>2. ASSUME NEW c \in Chars, NEW d \in Chars, NEW r \in Requests, SendOnce(c, d, r)
      PROVE StoreInv'
  BY <1>2, SendOnceIsSound
<1>3. CASE Update
  BY <1>3, UpdateIsSound
<1>4. CASE Second
  BY <1>4, SecondIsSound
<1>5. CASE Crash \/ Stop
  BY <1>5, RestartIsSound
<1>6. CASE UNCHANGED vars
  BY <1>6 DEF StoreInv, TypeOK, IdsNameOneText, NothingIsAhead, CleanMeansSaved, ShownIsDelivered,
     ShownToItsReader, LedgerIsTrue, OneEntryEach, vars, people, memory, disk, past
<1> QED BY <1>1, <1>2, <1>3, <1>4, <1>5, <1>6 DEF Next

-----------------------------------------------------------------------------
(* What trimming counts. *)

\* A set has no more members than one it maps into without meeting itself.
LEMMA NoMore ==
  ASSUME NEW S, NEW T, IsFiniteSet(T), NEW f \in [S -> T],
         \A x, y \in S : f[x] = f[y] => x = y
  PROVE  /\ IsFiniteSet(S) /\ Cardinality(S) <= Cardinality(T)
         /\ Cardinality(S) \in Nat /\ Cardinality(T) \in Nat
<1>1. f \in Injection(S, T)
  BY DEF Injection, IsInjective
<1>2. IsFiniteSet(S) /\ Cardinality(S) <= Cardinality(T)
  BY <1>1, FS_Injection
<1> QED BY <1>2, FS_CardinalityType

LEMMA PartIsNoMore ==
  ASSUME NEW T, IsFiniteSet(T), NEW S \in SUBSET T
  PROVE  /\ IsFiniteSet(S) /\ Cardinality(S) <= Cardinality(T)
         /\ Cardinality(S) \in Nat /\ Cardinality(T) \in Nat
<1>1. IsFiniteSet(S) /\ Cardinality(S) <= Cardinality(T)
  BY FS_Subset
<1> QED BY <1>1, FS_CardinalityType

\* How many are newer tells the members of a set apart and counts below its
\* size.
LEMMA Ranks ==
  ASSUME NEW S, IsFiniteSet(S), \A m \in S : m.id \in Nat,
         \A m, k \in S : m.id = k.id => m = k
  PROVE  /\ \A m \in S : Cardinality(NewerThan(S, m.id)) \in 0 .. Cardinality(S) - 1
         /\ \A m, k \in S :
              Cardinality(NewerThan(S, m.id)) = Cardinality(NewerThan(S, k.id))
                => m = k
<1> DEFINE Newer(m) == NewerThan(S, m.id)
<1>1. \A m \in S : Newer(m) \subseteq S \ {m}
  BY DEF NewerThan
<1>2. \A m \in S : IsFiniteSet(S \ {m}) /\ Cardinality(S \ {m}) = Cardinality(S) - 1
  BY FS_RemoveElement
<1>3. \A m \in S : /\ IsFiniteSet(Newer(m)) /\ Cardinality(Newer(m)) \in Nat
                   /\ Cardinality(Newer(m)) <= Cardinality(S) - 1
  <2> TAKE m \in S
  <2>1. Newer(m) \in SUBSET (S \ {m})
    BY <1>1
  <2>2. IsFiniteSet(S \ {m}) /\ Cardinality(S \ {m}) = Cardinality(S) - 1
    BY <1>2
  <2> HIDE DEF Newer
  <2>3. /\ IsFiniteSet(Newer(m)) /\ Cardinality(Newer(m)) \in Nat
        /\ Cardinality(Newer(m)) <= Cardinality(S \ {m})
    BY <2>1, <2>2, PartIsNoMore
  <2> QED BY <2>2, <2>3
<1>4. Cardinality(S) \in Nat
  BY FS_CardinalityType
<1>5. ASSUME NEW m \in S, NEW k \in S, m.id < k.id
      PROVE  Cardinality(Newer(m)) # Cardinality(Newer(k))
  <2>1. Newer(k) \in SUBSET Newer(m) /\ k \in Newer(m) /\ k \notin Newer(k)
    BY <1>5 DEF NewerThan
  <2>2. IsFiniteSet(Newer(m))
    BY <1>3
  <2> HIDE DEF Newer
  <2> QED BY <2>1, <2>2, FS_Subset
<1>6. ASSUME NEW m \in S, NEW k \in S, Cardinality(Newer(m)) = Cardinality(Newer(k))
      PROVE  m = k
  <2>1. m.id < k.id \/ k.id < m.id \/ m = k
    OBVIOUS
  <2> HIDE DEF Newer
  <2> QED BY <1>5, <1>6, <2>1
<1>7. \A m \in S : Cardinality(Newer(m)) \in 0 .. Cardinality(S) - 1
  <2> HIDE DEF Newer
  <2> QED BY <1>3, <1>4
<1> QED BY <1>6, <1>7

\* What trimming leaves: n of the set's members, or all if they are fewer.
LEMMA NewestCounts ==
  ASSUME NEW S, IsFiniteSet(S), \A m \in S : m.id \in Nat,
         \A m, k \in S : m.id = k.id => m = k, NEW n \in Nat
  PROVE  /\ IsFiniteSet(Newest(S, n)) /\ Cardinality(Newest(S, n)) \in Nat
         /\ Cardinality(S) \in Nat
         /\ Cardinality(Newest(S, n)) <= n /\ Cardinality(Newest(S, n)) <= Cardinality(S)
         /\ Cardinality(S) >= n => Cardinality(Newest(S, n)) = n
         /\ Cardinality(S) <= n => Newest(S, n) = S
<1> DEFINE N == Newest(S, n)
           R(m) == Cardinality(NewerThan(S, m.id))
<1>1. /\ \A m \in S : R(m) \in 0 .. Cardinality(S) - 1
      /\ \A m, k \in S : R(m) = R(k) => m = k
  BY Ranks
<1>2. N = {m \in S : R(m) < n}
  BY DEF Newest
<1> HIDE DEF N, R
<1>3. N \in SUBSET S /\ S \ N \in SUBSET S
  BY <1>2
<1>4. /\ IsFiniteSet(N) /\ Cardinality(N) \in Nat /\ Cardinality(S) \in Nat
      /\ Cardinality(N) <= Cardinality(S)
  BY <1>3, PartIsNoMore
<1>5. Cardinality(N) <= n
  <2> DEFINE f == [m \in N |-> R(m)]
  <2>1. f \in [N -> 0 .. n - 1] /\ \A x, y \in N : f[x] = f[y] => x = y
    BY <1>1, <1>2, <1>3
  <2>2. IsFiniteSet(0 .. n - 1) /\ Cardinality(0 .. n - 1) = n
    BY FS_Interval
  <2> HIDE DEF f
  <2> QED BY <2>1, <2>2, NoMore
<1>6. Cardinality(S) >= n => Cardinality(S \ N) <= Cardinality(S) - n
  <2> SUFFICES ASSUME Cardinality(S) >= n PROVE Cardinality(S \ N) <= Cardinality(S) - n
    OBVIOUS
  <2> DEFINE M == S \ N
             size == Cardinality(S)
             T == n .. size - 1
             f == [m \in M |-> R(m)]
  <2>1. f \in [M -> T] /\ \A x, y \in M : f[x] = f[y] => x = y
    BY <1>1, <1>2, <1>3
  <2>2. size \in Nat /\ size >= n
    BY <1>4
  <2> HIDE DEF f, M, size
  <2>3. IsFiniteSet(T) /\ Cardinality(T) = size - n
    BY <2>2, FS_Interval
  <2> HIDE DEF T
  <2>4. Cardinality(M) <= Cardinality(T)
    BY <2>1, <2>3, NoMore
  <2>5. Cardinality(M) <= size - n
    BY <2>3, <2>4
  <2> QED BY <2>5 DEF M, size
<1>7. Cardinality(S \ N) = Cardinality(S) - Cardinality(N)
  <2>1. S \cap N = N
    BY <1>3
  <2> QED BY <2>1, FS_Difference
<1>8. Cardinality(S) >= n => Cardinality(N) = n
  BY <1>4, <1>5, <1>6, <1>7
<1>9. Cardinality(S) <= n => N = S
  BY <1>1, <1>2, <1>4
<1> QED BY <1>4, <1>5, <1>8, <1>9 DEF N

\* Trimming looks only at what is newer.
LEMMA NewestBehind ==
  ASSUME NEW S, \A m \in S : m.id \in Nat, NEW n, NEW p \in Nat
  PROVE  NewerThan(Newest(S, n), p) = Newest(NewerThan(S, p), n)
<1> DEFINE T == NewerThan(S, p)
<1>1. T \subseteq S
  BY DEF NewerThan
<1>2. \A m \in T : NewerThan(S, m.id) = NewerThan(T, m.id)
  BY DEF NewerThan
<1>3. NewerThan(Newest(S, n), p) = {m \in T : Cardinality(NewerThan(S, m.id)) < n}
  BY DEF Newest, NewerThan
<1>4. Newest(T, n) = {m \in T : Cardinality(NewerThan(T, m.id)) < n}
  BY DEF Newest
<1> HIDE DEF T
<1>5. {m \in T : Cardinality(NewerThan(S, m.id)) < n}
        = {m \in T : Cardinality(NewerThan(T, m.id)) < n}
  BY <1>2
<1> QED BY <1>3, <1>4, <1>5 DEF T

\* A trimmed ledger is within both bounds.
LEMMA TrimmedIsBounded ==
  ASSUME ConstantsAssumption, NEW L, IsFiniteSet(L), \A e \in L : e.id \in Nat,
         \A e, f \in L : e.id = f.id => e = f, NEW c
  PROVE  /\ Trimmed(L, c) \subseteq L /\ IsFiniteSet(Trimmed(L, c))
         /\ Cardinality(Trimmed(L, c)) <= GlobalLimit
         /\ Cardinality({e \in Trimmed(L, c) : e.owner = c}) <= PerOwnerLimit
<1> DEFINE own == {e \in L : e.owner = c}
           left == Newest(own, PerOwnerLimit)
           kept == (L \ own) \cup left
           T == Trimmed(L, c)
<1>1. PerOwnerLimit \in Nat /\ GlobalLimit \in Nat
  BY DEF ConstantsAssumption
<1>2. own \in SUBSET L /\ left \in SUBSET own /\ kept \in SUBSET L
  BY NewestDrops
<1>3. IsFiniteSet(own) /\ IsFiniteSet(kept)
  BY <1>2, FS_Subset
<1>4. IsFiniteSet(left) /\ Cardinality(left) <= PerOwnerLimit
  <2> HIDE DEF own
  <2> QED BY <1>1, <1>2, <1>3, NewestCounts
<1>5. T = Newest(kept, GlobalLimit)
  BY DEF Trimmed
<1>6. IsFiniteSet(T) /\ Cardinality(T) <= GlobalLimit /\ T \subseteq kept
  <2> HIDE DEF kept, T
  <2> QED BY <1>1, <1>2, <1>3, <1>5, NewestCounts, NewestDrops
<1>7. {e \in T : e.owner = c} \in SUBSET left
  BY <1>6
<1>8. Cardinality({e \in T : e.owner = c}) <= PerOwnerLimit
  <2> DEFINE mine == {e \in T : e.owner = c}
  <2> HIDE DEF mine, left, T
  <2>1. Cardinality(mine) <= Cardinality(left) /\ Cardinality(mine) \in Nat
        /\ Cardinality(left) \in Nat
    BY <1>4, <1>7, PartIsNoMore DEF mine
  <2>2. Cardinality(mine) <= PerOwnerLimit
    BY <1>1, <1>4, <2>1
  <2> QED BY <2>2 DEF mine
<1> QED BY <1>2, <1>6, <1>8

\* Trimming an owner one over its bound, a ledger with more than its bound
\* behind some place keeps that many behind it.
LEMMA TrimmedStaysFull ==
  ASSUME ConstantsAssumption, NEW L, IsFiniteSet(L), \A e \in L : e.id \in Nat,
         \A e, f \in L : e.id = f.id => e = f, NEW c, NEW p \in Nat,
         Cardinality({e \in L : e.owner = c}) <= PerOwnerLimit + 1,
         Cardinality(NewerThan(L, p)) > GlobalLimit
  PROVE  Cardinality(NewerThan(Trimmed(L, c), p)) >= GlobalLimit
<1> DEFINE own == {e \in L : e.owner = c}
           left == Newest(own, PerOwnerLimit)
           kept == (L \ own) \cup left
           B == NewerThan(L, p)
           K == NewerThan(kept, p)
           gone == own \ left
<1>1. PerOwnerLimit \in Nat /\ GlobalLimit \in Nat
  BY DEF ConstantsAssumption
<1>2. own \in SUBSET L /\ left \in SUBSET own /\ kept \in SUBSET L /\ K \in SUBSET B
      /\ B \in SUBSET L /\ B \ K \in SUBSET gone /\ gone \in SUBSET own
  BY NewestDrops DEF NewerThan
<1>3. /\ IsFiniteSet(own) /\ IsFiniteSet(kept) /\ IsFiniteSet(B) /\ IsFiniteSet(K)
      /\ IsFiniteSet(gone)
  <2> HIDE DEF own, left, kept, B, K, gone
  <2> QED BY <1>2, FS_Subset
<1>4. Cardinality(gone) <= 1
  <2>1. \A e \in own : e.id \in Nat
    BY <1>2
  <2>2. \A e, f \in own : e.id = f.id => e = f
    BY <1>2
  <2>3. Cardinality(own) <= PerOwnerLimit + 1
    OBVIOUS
  <2>4. own \cap left = left
    BY <1>2
  <2> HIDE DEF own
  <2>5. /\ Cardinality(own) \in Nat /\ Cardinality(left) \in Nat
        /\ Cardinality(own) >= PerOwnerLimit => Cardinality(left) = PerOwnerLimit
        /\ Cardinality(own) <= PerOwnerLimit => left = own
    BY <1>1, <1>3, <2>1, <2>2, NewestCounts
  <2>6. Cardinality(gone) = Cardinality(own) - Cardinality(left)
    BY <1>3, <2>4, FS_Difference
  <2> HIDE DEF left, gone
  <2> QED BY <1>1, <2>3, <2>5, <2>6
<1>5. Cardinality(B \ K) <= 1 /\ Cardinality(B \ K) = Cardinality(B) - Cardinality(K)
      /\ Cardinality(B) \in Nat /\ Cardinality(K) \in Nat
  <2>1. B \cap K = K
    BY <1>2
  <2> HIDE DEF B, K, gone
  <2>2. Cardinality(B \ K) <= Cardinality(gone) /\ Cardinality(B \ K) \in Nat
        /\ Cardinality(gone) \in Nat
    BY <1>2, <1>3, PartIsNoMore
  <2>3. Cardinality(B \ K) = Cardinality(B) - Cardinality(K)
    BY <1>3, <2>1, FS_Difference
  <2>4. Cardinality(B) \in Nat /\ Cardinality(K) \in Nat
    BY <1>3, FS_CardinalityType
  <2> QED BY <1>4, <2>2, <2>3, <2>4
<1>6. Cardinality(K) >= GlobalLimit
  <2>1. Cardinality(B) > GlobalLimit
    OBVIOUS
  <2> HIDE DEF B, K
  <2> QED BY <1>1, <1>5, <2>1
<1>7. NewerThan(Trimmed(L, c), p) = Newest(K, GlobalLimit)
  <2>1. Trimmed(L, c) = Newest(kept, GlobalLimit)
    BY DEF Trimmed
  <2>2. \A e \in kept : e.id \in Nat
    BY <1>2
  <2> HIDE DEF kept
  <2> QED BY <2>1, <2>2, NewestBehind
<1>8. (\A e \in K : e.id \in Nat) /\ \A e, f \in K : e.id = f.id => e = f
  BY <1>2
<1>9. Cardinality(Newest(K, GlobalLimit)) = GlobalLimit
  <2> HIDE DEF K
  <2>1. /\ Cardinality(K) >= GlobalLimit
             => Cardinality(Newest(K, GlobalLimit)) = GlobalLimit
    BY <1>1, <1>3, <1>8, NewestCounts
  <2> QED BY <1>6, <2>1
<1> HIDE DEF K
<1> QED BY <1>1, <1>7, <1>9

\* What trimming drops went for its owner's later entries or for everybody's.
LEMMA TrimmedLoses ==
  ASSUME ConstantsAssumption, NEW L, IsFiniteSet(L), \A e \in L : e.id \in Nat,
         \A e, f \in L : e.id = f.id => e = f, NEW c, NEW m \in L, m \notin Trimmed(L, c)
  PROVE  \/ m.owner = c /\ Cardinality(NewerThan({e \in L : e.owner = c}, m.id)) >= PerOwnerLimit
         \/ Cardinality(NewerThan(Trimmed(L, c), m.id)) >= GlobalLimit
<1> DEFINE own == {e \in L : e.owner = c}
           left == Newest(own, PerOwnerLimit)
           kept == (L \ own) \cup left
           K == NewerThan(kept, m.id)
<1>1. PerOwnerLimit \in Nat /\ GlobalLimit \in Nat
  BY DEF ConstantsAssumption
<1>2. own \in SUBSET L /\ left \in SUBSET own /\ kept \in SUBSET L /\ K \in SUBSET L
  BY NewestDrops DEF NewerThan
<1>3. IsFiniteSet(K)
  <2> HIDE DEF K
  <2> QED BY <1>2, FS_Subset
<1>4. CASE m \notin kept
  <2>1. m \in own /\ m \notin left
    BY <1>4
  <2>2. ~(Cardinality(NewerThan(own, m.id)) < PerOwnerLimit)
    BY <2>1 DEF Newest
  <2>3. NewerThan(own, m.id) \in SUBSET L
    BY <1>2 DEF NewerThan
  <2>4. IsFiniteSet(NewerThan(own, m.id))
    BY <2>3, FS_Subset
  <2>5. m.owner = c
    BY <2>1
  <2> HIDE DEF own
  <2>6. Cardinality(NewerThan(own, m.id)) \in Nat
    BY <2>4, FS_CardinalityType
  <2>7. Cardinality(NewerThan(own, m.id)) >= PerOwnerLimit
    BY <1>1, <2>2, <2>6
  <2> QED BY <2>5, <2>7 DEF own
<1>5. CASE m \in kept
  <2>1. Trimmed(L, c) = Newest(kept, GlobalLimit)
    BY DEF Trimmed
  <2>2. m \notin Newest(kept, GlobalLimit)
    BY <2>1
  <2>3. ~(Cardinality(K) < GlobalLimit)
    BY <1>5, <2>2 DEF Newest
  <2>4. (\A e \in K : e.id \in Nat) /\ \A e, f \in K : e.id = f.id => e = f
    BY <1>2
  <2>5. \A e \in kept : e.id \in Nat
    BY <1>2
  <2>6. m.id \in Nat
    OBVIOUS
  <2>7. NewerThan(Newest(kept, GlobalLimit), m.id) = Newest(K, GlobalLimit)
    <3> HIDE DEF kept
    <3> QED BY <2>5, <2>6, NewestBehind
  <2> HIDE DEF K
  <2>8. Cardinality(K) \in Nat
    BY <1>3, FS_CardinalityType
  <2>9. Cardinality(K) >= GlobalLimit => Cardinality(Newest(K, GlobalLimit)) = GlobalLimit
    BY <1>1, <1>3, <2>4, NewestCounts
  <2>10. Cardinality(Newest(K, GlobalLimit)) = GlobalLimit
    BY <1>1, <2>3, <2>8, <2>9
  <2> QED BY <1>1, <2>1, <2>7, <2>10
<1> QED BY <1>4, <1>5

-----------------------------------------------------------------------------
(* The ledger of requests. *)

LEMMA InitIsBounded == ASSUME ConstantsAssumption, Init PROVE LedgerInv
<1>1. ledger = {} /\ sent = {}
  BY DEF Init
<1>2. IsFiniteSet({}) /\ Cardinality({}) = 0
  BY FS_EmptySet
<1>3. \A c \in Chars : {e \in ledger : e.owner = c} = {}
  BY <1>1
<1>4. LedgerBounded
  BY <1>1, <1>2, <1>3 DEF LedgerBounded, ConstantsAssumption
<1> QED BY <1>1, <1>2, <1>4 DEF LedgerInv, SentInOrder, PlacedBefore, FirstsAreKept

LEMMA RestartIsBounded == ASSUME ConstantsAssumption, Crash \/ Stop PROVE LedgerInv'
<1>1. ledger' = {} /\ sent' = {}
  BY DEF Crash, Stop, Load
<1>2. IsFiniteSet({}) /\ Cardinality({}) = 0
  BY FS_EmptySet
<1>3. \A c \in Chars : {e \in ledger' : e.owner = c} = {}
  BY <1>1
<1>4. LedgerBounded'
  BY <1>1, <1>2, <1>3 DEF LedgerBounded, ConstantsAssumption
<1> QED BY <1>1, <1>2, <1>4 DEF LedgerInv, SentInOrder, PlacedBefore, FirstsAreKept

\* What leaves the ledger and its history alone.
LEMMA QuietIsBounded == ASSUME LedgerInv, ledger' = ledger, sent' = sent PROVE LedgerInv'
<1>1. LedgerBounded'
  BY DEF LedgerInv, LedgerBounded
<1>2. SentInOrder' /\ PlacedBefore'
  BY DEF LedgerInv, SentInOrder, PlacedBefore
<1>3. FirstsAreKept'
  BY DEF LedgerInv, FirstsAreKept, IsFirst, OwnLater
<1> QED BY <1>1, <1>2, <1>3 DEF LedgerInv

\* What an entry and the text it answers with have in common.
LEMMA EntryOf ==
  ASSUME ConstantsAssumption, StoreInv, LedgerInv
  PROVE  /\ lastId \in Nat /\ LedgerSeconds \in Nat
         /\ PerOwnerLimit \in Nat \ {0} /\ GlobalLimit \in Nat \ {0}
         /\ \A m \in sent : /\ m.id \in Nat /\ m.age \in Nat /\ m.id <= lastId
                            /\ m.from \in Chars /\ m.request \in Requests
         /\ \A e \in ledger : /\ e.id \in Nat /\ e.result \in Nat /\ e.age \in Nat
                              /\ e.id <= lastId /\ e.id <= e.result
                              /\ e.owner \in Chars
         /\ \A e \in ledger : \E n \in sent : /\ n.id = e.result /\ n.from = e.owner
                                              /\ n.request = e.request /\ n.age = e.age
         /\ \A e \in ledger, m \in sent :
              e.result = m.id => e.owner = m.from /\ e.request = m.request /\ e.age = m.age
         /\ \A e, f \in ledger :
              e.id = f.id \/ (e.owner = f.owner /\ e.request = f.request) => e = f
<1>1. lastId \in Nat /\ LedgerSeconds \in Nat
      /\ PerOwnerLimit \in Nat \ {0} /\ GlobalLimit \in Nat \ {0}
  BY DEF ConstantsAssumption, StoreInv, TypeOK
<1>2. \A m \in sent : /\ m.id \in Nat /\ m.age \in Nat /\ m.id <= lastId
                      /\ m.from \in Chars /\ m.request \in Requests
  BY DEF StoreInv, TypeOK, NothingIsAhead, Ids
<1>3. \A e \in ledger : /\ e.id \in Nat /\ e.result \in Nat /\ e.age \in Nat
                        /\ e.id <= lastId /\ e.id <= e.result
                        /\ e.owner \in Chars
  BY DEF StoreInv, TypeOK, NothingIsAhead, Entries, Ids, LedgerInv, PlacedBefore
<1>4. \A e \in ledger : \E n \in sent : /\ n.id = e.result /\ n.from = e.owner
                                        /\ n.request = e.request /\ n.age = e.age
  BY DEF StoreInv, LedgerIsTrue
<1>5. \A e \in ledger, m \in sent :
        e.result = m.id => e.owner = m.from /\ e.request = m.request /\ e.age = m.age
  BY <1>4 DEF LedgerInv, SentInOrder
<1>6. \A e, f \in ledger :
        e.id = f.id \/ (e.owner = f.owner /\ e.request = f.request) => e = f
  BY DEF StoreInv, OneEntryEach
<1> QED BY <1>1, <1>2, <1>3, <1>4, <1>5, <1>6

\* Sweeping what is too old.
LEMMA ExpiringIsBounded ==
  ASSUME ConstantsAssumption, StoreInv, LedgerInv, Expire, sent' = sent
  PROVE  LedgerInv'
<1>1. ledger' = {e \in ledger : e.age < LedgerSeconds} /\ ledger' \in SUBSET ledger
  BY DEF Expire
<1>2. SentInOrder' /\ PlacedBefore'
  BY <1>1 DEF LedgerInv, SentInOrder, PlacedBefore
<1>3. LedgerBounded'
  <2>1. IsFiniteSet(ledger) /\ Cardinality(ledger) <= GlobalLimit
        /\ \A c \in Chars : Cardinality({e \in ledger : e.owner = c}) <= PerOwnerLimit
    BY DEF LedgerInv, LedgerBounded
  <2>2. GlobalLimit \in Nat /\ PerOwnerLimit \in Nat
    BY DEF ConstantsAssumption
  <2>3. IsFiniteSet(ledger') /\ Cardinality(ledger') <= GlobalLimit
    BY <1>1, <2>1, <2>2, PartIsNoMore
  <2>4. ASSUME NEW c \in Chars
        PROVE  Cardinality({e \in ledger' : e.owner = c}) <= PerOwnerLimit
    <3> DEFINE O == {e \in ledger : e.owner = c}
               N == {e \in ledger' : e.owner = c}
    <3>1. N \in SUBSET O /\ O \in SUBSET ledger
      BY <1>1
    <3>2. Cardinality(O) <= PerOwnerLimit
      BY <2>1
    <3> HIDE DEF O, N
    <3>3. IsFiniteSet(O)
      BY <2>1, <3>1, FS_Subset
    <3>4. Cardinality(N) <= PerOwnerLimit
      BY <2>2, <3>1, <3>2, <3>3, PartIsNoMore
    <3> QED BY <3>4 DEF N
  <2> QED BY <2>3, <2>4 DEF LedgerBounded
<1>4. FirstsAreKept'
  <2> SUFFICES ASSUME NEW m \in sent, IsFirst(m), m.age < LedgerSeconds
               PROVE  \/ \E e \in ledger' : e.id = m.id /\ e.result = m.id
                      \/ Cardinality(OwnLater(m)) >= PerOwnerLimit
                      \/ Cardinality(NewerThan(ledger', m.id)) >= GlobalLimit
    BY DEF FirstsAreKept, IsFirst, OwnLater
  <2>1. \/ \E e \in ledger : e.id = m.id /\ e.result = m.id
        \/ Cardinality(OwnLater(m)) >= PerOwnerLimit
        \/ Cardinality(NewerThan(ledger, m.id)) >= GlobalLimit
    BY DEF LedgerInv, FirstsAreKept
  <2>2. ASSUME NEW e \in ledger, e.id = m.id, e.result = m.id PROVE e \in ledger'
    <3>1. e.age = m.age
      BY <2>2, EntryOf
    <3> QED BY <1>1, <3>1
  <2>3. \A e \in ledger : e.id > m.id => e \in ledger'
    <3> SUFFICES ASSUME NEW e \in ledger, e.id > m.id PROVE e.age < LedgerSeconds
      BY <1>1
    <3>1. PICK n \in sent : n.id = e.result /\ n.age = e.age
      BY EntryOf
    <3>2. m.id \in Nat /\ m.age \in Nat /\ n.age \in Nat /\ e.id \in Nat /\ e.result \in Nat
          /\ e.id <= e.result /\ LedgerSeconds \in Nat
      BY EntryOf
    <3>3. m.id < n.id
      BY <3>1, <3>2
    <3>4. n.age <= m.age
      BY <3>3 DEF LedgerInv, SentInOrder
    <3> QED BY <3>1, <3>2, <3>4
  <2>4. NewerThan(ledger', m.id) = NewerThan(ledger, m.id)
    BY <1>1, <2>3 DEF NewerThan
  <2> QED BY <2>1, <2>2, <2>4
<1> QED BY <1>2, <1>3, <1>4 DEF LedgerInv

\* As many a second older as there were.
LEMMA AgedCounts ==
  ASSUME NEW S, IsFiniteSet(S), \A e \in S : Aged(e, LedgerSeconds).id = e.id,
         \A e, f \in S : e.id = f.id => e = f
  PROVE  /\ IsFiniteSet({Aged(e, LedgerSeconds) : e \in S})
         /\ Cardinality({Aged(e, LedgerSeconds) : e \in S}) = Cardinality(S)
<1> DEFINE T == {Aged(e, LedgerSeconds) : e \in S}
           f == [e \in S |-> Aged(e, LedgerSeconds)]
<1>1. f \in [S -> T] /\ \A t \in T : \E e \in S : f[e] = t
  OBVIOUS
<1>2. \A e, k \in S : f[e] = f[k] => e = k
  OBVIOUS
<1> HIDE DEF T, f
<1>3. f \in Surjection(S, T) /\ f \in Injection(S, T)
  BY <1>1, <1>2 DEF Surjection, Injection, IsInjective
<1>4. IsFiniteSet(T) /\ Cardinality(T) = Cardinality(S)
  BY <1>3, FS_Surjection
<1> QED BY <1>4 DEF T

LEMMA SecondIsBounded ==
  ASSUME ConstantsAssumption, StoreInv, LedgerInv, Second PROVE LedgerInv'
<1> DEFINE Old(e) == Aged(e, LedgerSeconds)
<1>1. ledger' = {Old(e) : e \in ledger} /\ sent' = {Old(m) : m \in sent}
  BY DEF Second
<1>2. /\ \A e \in ledger : /\ Old(e).id = e.id /\ Old(e).owner = e.owner
                           /\ Old(e).request = e.request /\ Old(e).result = e.result
      /\ \A m \in sent : /\ Old(m).id = m.id /\ Old(m).from = m.from
                         /\ Old(m).request = m.request
                         /\ Old(m).age = IF m.age < LedgerSeconds THEN m.age + 1 ELSE m.age
  BY AgedIs DEF StoreInv, TypeOK
<1>3. /\ IsFiniteSet(ledger) /\ IsFiniteSet(sent)
      /\ \A e, f \in ledger : e.id = f.id => e = f
      /\ \A m, n \in sent : m.id = n.id => m = n
      /\ \A m, n \in sent : m.id < n.id => n.age <= m.age
      /\ \A m \in sent : m.age \in Nat /\ LedgerSeconds \in Nat
  BY EntryOf DEF LedgerInv, LedgerBounded, SentInOrder
<1> HIDE DEF Old
<1>4. SentInOrder'
  <2>1. IsFiniteSet(sent')
    BY <1>1, <1>2, <1>3, AgedCounts DEF Old
  <2>2. \A m, n \in sent : Old(m).id = Old(n).id => Old(m) = Old(n)
    BY <1>2, <1>3
  <2>3. \A m, n \in sent : Old(m).id < Old(n).id => Old(n).age <= Old(m).age
    BY <1>2, <1>3
  <2> QED BY <1>1, <2>1, <2>2, <2>3 DEF SentInOrder
<1>5. LedgerBounded'
  <2>1. IsFiniteSet(ledger') /\ Cardinality(ledger') <= GlobalLimit
    BY <1>1, <1>2, <1>3, AgedCounts DEF Old, LedgerInv, LedgerBounded
  <2>2. ASSUME NEW c \in Chars
        PROVE  Cardinality({e \in ledger' : e.owner = c}) <= PerOwnerLimit
    <3> DEFINE O == {e \in ledger : e.owner = c}
    <3>1. {e \in ledger' : e.owner = c} = {Old(e) : e \in O}
      BY <1>1, <1>2
    <3>2. O \in SUBSET ledger
      OBVIOUS
    <3>3. Cardinality(O) <= PerOwnerLimit
      BY DEF LedgerInv, LedgerBounded
    <3> HIDE DEF O
    <3>4. IsFiniteSet(O)
      BY <1>3, <3>2, FS_Subset
    <3>5. Cardinality({Old(e) : e \in O}) = Cardinality(O)
      BY <1>2, <1>3, <3>2, <3>4, AgedCounts DEF Old
    <3> QED BY <3>1, <3>3, <3>5
  <2> QED BY <2>1, <2>2 DEF LedgerBounded
<1>6. PlacedBefore'
  BY <1>1, <1>2 DEF LedgerInv, PlacedBefore
<1>7. FirstsAreKept'
  <2> SUFFICES ASSUME NEW m \in sent, IsFirst(Old(m))', Old(m).age < LedgerSeconds
               PROVE  \/ \E e \in ledger' : e.id = Old(m).id /\ e.result = Old(m).id
                      \/ Cardinality(OwnLater(Old(m))') >= PerOwnerLimit
                      \/ Cardinality(NewerThan(ledger', Old(m).id)) >= GlobalLimit
    BY <1>1 DEF FirstsAreKept
  <2>1. IsFirst(m)
    BY <1>1, <1>2 DEF IsFirst
  <2>2. m.age < LedgerSeconds
    BY <1>2, <1>3
  <2>3. \/ \E e \in ledger : e.id = m.id /\ e.result = m.id
        \/ Cardinality(OwnLater(m)) >= PerOwnerLimit
        \/ Cardinality(NewerThan(ledger, m.id)) >= GlobalLimit
    BY <2>1, <2>2 DEF LedgerInv, FirstsAreKept
  <2>4. CASE \E e \in ledger : e.id = m.id /\ e.result = m.id
    BY <1>1, <1>2, <2>4
  <2>5. CASE Cardinality(OwnLater(m)) >= PerOwnerLimit
    <3>1. OwnLater(m) \in SUBSET sent
      BY DEF OwnLater, NewerThan
    <3>2. OwnLater(Old(m))' = {Old(k) : k \in OwnLater(m)}
      BY <1>1, <1>2 DEF OwnLater, NewerThan
    <3>3. IsFiniteSet(OwnLater(m))
      BY <1>3, <3>1, FS_Subset
    <3>4. Cardinality({Old(k) : k \in OwnLater(m)}) = Cardinality(OwnLater(m))
      BY <1>2, <1>3, <3>1, <3>3, AgedCounts DEF Old
    <3> QED BY <2>5, <3>2, <3>4
  <2>6. CASE Cardinality(NewerThan(ledger, m.id)) >= GlobalLimit
    <3> DEFINE N == NewerThan(ledger, m.id)
    <3>1. N \in SUBSET ledger
      BY DEF NewerThan
    <3>2. NewerThan(ledger', Old(m).id) = {Old(e) : e \in N}
      BY <1>1, <1>2 DEF NewerThan
    <3> HIDE DEF N
    <3>3. IsFiniteSet(N)
      BY <1>3, <3>1, FS_Subset
    <3>4. Cardinality({Old(e) : e \in N}) = Cardinality(N)
      BY <1>2, <1>3, <3>1, <3>3, AgedCounts DEF Old
    <3> QED BY <2>6, <3>2, <3>4 DEF N
  <2> QED BY <2>3, <2>4, <2>5, <2>6
<1> QED BY <1>4, <1>5, <1>6, <1>7 DEF LedgerInv

-----------------------------------------------------------------------------
(* Accepting a text with a request id. *)

\* The history gains one text, the youngest.
LEMMA SendOnceSends ==
  ASSUME NEW c \in Chars, NEW d \in Chars, NEW r \in Requests, ConstantsAssumption,
         StoreInv, LedgerInv, SendOnce(c, d, r)
  PROVE  /\ ledger' = Recorded(c, r, lastId + 1) /\ r # NoRequest
         /\ \A e \in ledger : e.owner = c /\ e.request = r => ~(e.age < LedgerSeconds)
         /\ sent' = sent \cup {Accepted(c, r, lastId + 1)}
         /\ SentInOrder' /\ IsFiniteSet(sent')
<1> DEFINE a == Accepted(c, r, lastId + 1)
<1>1. Send(c, d, r) /\ Remembered(c, r) = {}
  BY DEF SendOnce
<1>2. r # NoRequest
  BY DEF ConstantsAssumption
<1>3. ledger' = Recorded(c, r, lastId + 1) /\ sent' = sent \cup {a}
  BY <1>1 DEF Send
<1>4. \A e \in ledger : e.owner = c /\ e.request = r => ~(e.age < LedgerSeconds)
  BY <1>1 DEF Remembered
<1>5. a.id = lastId + 1 /\ a.age = 0
  BY DEF Accepted
<1>6. /\ lastId \in Nat /\ IsFiniteSet(sent)
      /\ \A m \in sent : m.id \in Nat /\ m.age \in Nat /\ m.id <= lastId
      /\ \A m, n \in sent : /\ m.id = n.id => m = n
                            /\ m.id < n.id => n.age <= m.age
  BY EntryOf DEF LedgerInv, SentInOrder
<1> HIDE DEF a
<1>7. IsFiniteSet(sent')
  BY <1>3, <1>6, FS_AddElement
<1>8. \A m, n \in sent' : /\ m.id = n.id => m = n
                          /\ m.id < n.id => n.age <= m.age
  BY <1>3, <1>5, <1>6
<1>9. SentInOrder'
  BY <1>7, <1>8 DEF SentInOrder
<1> QED BY <1>2, <1>3, <1>4, <1>7, <1>9 DEF a

\* An entry that expired unswept is renewed where it stands.
LEMMA RenewingIsBounded ==
  ASSUME NEW c \in Chars, NEW d \in Chars, NEW r \in Requests, ConstantsAssumption,
         StoreInv, LedgerInv, SendOnce(c, d, r), NEW f \in ledger, f.owner = c, f.request = r
  PROVE  LedgerInv'
<1> DEFINE new == [id |-> f.id, owner |-> c, request |-> r, result |-> lastId + 1, age |-> 0]
           a == Accepted(c, r, lastId + 1)
           same == {e \in ledger : e.owner = c /\ e.request = r}
           Entry(place) == [id |-> place, owner |-> c, request |-> r,
                            result |-> lastId + 1, age |-> 0]
<1>1. /\ ledger' = Recorded(c, r, lastId + 1) /\ r # NoRequest
      /\ ~(f.age < LedgerSeconds) /\ sent' = sent \cup {a}
      /\ SentInOrder' /\ IsFiniteSet(sent')
  BY SendOnceSends
<1>2. same = {f}
  BY EntryOf
<1>3. ledger' = (ledger \ {f}) \cup {new}
  <2>1. Recorded(c, r, lastId + 1) = (ledger \ same) \cup {Entry(e.id) : e \in same}
    BY <1>1, <1>2 DEF Recorded
  <2>2. {Entry(e.id) : e \in {f}} = {Entry(f.id)}
    OBVIOUS
  <2> QED BY <1>1, <1>2, <2>1, <2>2
<1>4. new.id = f.id /\ new.owner = c /\ new.request = r /\ new.result = lastId + 1
      /\ a.id = lastId + 1 /\ a.from = c /\ a.request = r
  BY DEF Accepted
<1> HIDE DEF new, a, same
<1>5. \A e \in ledger : e.id = new.id => e = f
  BY <1>4, EntryOf
<1>6. /\ IsFiniteSet(ledger) /\ Cardinality(ledger) <= GlobalLimit
      /\ \A k \in Chars : Cardinality({e \in ledger : e.owner = k}) <= PerOwnerLimit
      /\ PerOwnerLimit \in Nat /\ GlobalLimit \in Nat /\ IsFiniteSet(sent)
  BY EntryOf DEF LedgerInv, LedgerBounded, SentInOrder
<1>7. ASSUME NEW S \in SUBSET ledger, f \in S
      PROVE  /\ Cardinality((S \ {f}) \cup {new}) = Cardinality(S)
             /\ IsFiniteSet((S \ {f}) \cup {new})
  <2>1. new \notin S \ {f}
    BY <1>5
  <2>2. IsFiniteSet(S)
    BY <1>6, FS_Subset
  <2>3. Cardinality(S) \in Nat
    BY <2>2, FS_CardinalityType
  <2>4. IsFiniteSet(S \ {f}) /\ Cardinality(S \ {f}) = Cardinality(S) - 1
    BY <1>7, <2>2, FS_RemoveElement
  <2>5. /\ IsFiniteSet((S \ {f}) \cup {new})
        /\ Cardinality((S \ {f}) \cup {new}) = Cardinality(S \ {f}) + 1
    BY <2>1, <2>4, FS_AddElement
  <2> QED BY <2>3, <2>4, <2>5
<1>8. LedgerBounded'
  <2>1. IsFiniteSet(ledger') /\ Cardinality(ledger') <= GlobalLimit
    BY <1>3, <1>6, <1>7
  <2>2. ASSUME NEW k \in Chars
        PROVE  Cardinality({e \in ledger' : e.owner = k}) <= PerOwnerLimit
    <3> DEFINE O == {e \in ledger : e.owner = k}
    <3>1. Cardinality(O) <= PerOwnerLimit /\ O \in SUBSET ledger
      BY <1>6
    <3>2. CASE k = c
      <4>1. {e \in ledger' : e.owner = k} = (O \ {f}) \cup {new} /\ f \in O
        BY <1>3, <1>4, <3>2
      <4> HIDE DEF O
      <4> QED BY <1>7, <3>1, <4>1
    <3>3. CASE k # c
      <4>1. {e \in ledger' : e.owner = k} = O
        BY <1>3, <1>4, <3>3
      <4> QED BY <3>1, <4>1
    <3> QED BY <3>2, <3>3
  <2> QED BY <2>1, <2>2 DEF LedgerBounded
<1>9. PlacedBefore'
  <2>1. new.id <= new.result
    BY <1>4, EntryOf
  <2>2. \A e \in ledger : e.id <= e.result
    BY EntryOf
  <2> QED BY <1>3, <2>1, <2>2 DEF PlacedBefore
<1>10. FirstsAreKept'
  <2> SUFFICES ASSUME NEW m \in sent', IsFirst(m)', m.age < LedgerSeconds
               PROVE  \/ \E e \in ledger' : e.id = m.id /\ e.result = m.id
                      \/ Cardinality(OwnLater(m)') >= PerOwnerLimit
                      \/ Cardinality(NewerThan(ledger', m.id)) >= GlobalLimit
    BY DEF FirstsAreKept
  <2>1. m # a
    <3>1. PICK n \in sent : n.id = f.result /\ n.from = c /\ n.request = r
      BY EntryOf
    <3>2. n.id <= lastId /\ n.id \in Nat /\ lastId \in Nat
      BY EntryOf
    <3>3. m = a => m.id <= n.id
      BY <1>1, <1>4, <3>1 DEF IsFirst
    <3> QED BY <1>4, <3>2, <3>3
  <2>2. m \in sent
    BY <1>1, <2>1
  <2>3. IsFirst(m)
    BY <1>1 DEF IsFirst
  <2>4. \/ \E e \in ledger : e.id = m.id /\ e.result = m.id
        \/ Cardinality(OwnLater(m)) >= PerOwnerLimit
        \/ Cardinality(NewerThan(ledger, m.id)) >= GlobalLimit
    BY <2>2, <2>3 DEF LedgerInv, FirstsAreKept
  <2>5. ASSUME NEW e \in ledger, e.id = m.id, e.result = m.id PROVE e \in ledger'
    <3>1. e.age = m.age
      BY <2>2, <2>5, EntryOf
    <3> QED BY <1>1, <1>3, <3>1
  <2>6. CASE Cardinality(OwnLater(m)) >= PerOwnerLimit
    <3>1. OwnLater(m) \in SUBSET (OwnLater(m)') /\ OwnLater(m)' \in SUBSET sent'
      BY <1>1 DEF OwnLater, NewerThan
    <3>2. IsFiniteSet(OwnLater(m)')
      BY <1>1, <3>1, FS_Subset
    <3>3. Cardinality(OwnLater(m)) <= Cardinality(OwnLater(m)')
          /\ Cardinality(OwnLater(m)) \in Nat /\ Cardinality(OwnLater(m)') \in Nat
      BY <3>1, <3>2, PartIsNoMore
    <3> QED BY <1>6, <2>6, <3>3
  <2>7. CASE Cardinality(NewerThan(ledger, m.id)) >= GlobalLimit
    <3> DEFINE N == NewerThan(ledger, m.id)
    <3>1. N \in SUBSET ledger
      BY DEF NewerThan
    <3>2. CASE f \in N
      <4>1. NewerThan(ledger', m.id) = (N \ {f}) \cup {new}
        BY <1>3, <1>4, <3>2 DEF NewerThan
      <4> HIDE DEF N
      <4>2. Cardinality((N \ {f}) \cup {new}) = Cardinality(N)
        BY <1>7, <3>1, <3>2
      <4> QED BY <2>7, <4>1, <4>2 DEF N
    <3>3. CASE f \notin N
      <4>1. NewerThan(ledger', m.id) = N
        BY <1>3, <1>4, <3>3 DEF NewerThan
      <4> QED BY <2>7, <4>1
    <3> QED BY <3>2, <3>3
  <2> QED BY <2>4, <2>5, <2>6, <2>7
<1> QED BY <1>1, <1>8, <1>9, <1>10 DEF LedgerInv

\* A request without an entry gets the place behind all others, and the bounds
\* are applied.
LEMMA AppendingIsBounded ==
  ASSUME NEW c \in Chars, NEW d \in Chars, NEW r \in Requests, ConstantsAssumption,
         StoreInv, LedgerInv, SendOnce(c, d, r),
         \A e \in ledger : ~(e.owner = c /\ e.request = r)
  PROVE  LedgerInv'
<1> DEFINE new == [id |-> lastId + 1, owner |-> c, request |-> r,
                   result |-> lastId + 1, age |-> 0]
           a == Accepted(c, r, lastId + 1)
           L == ledger \cup {new}
           mine == {e \in L : e.owner = c}
<1>1. /\ ledger' = Recorded(c, r, lastId + 1) /\ r # NoRequest
      /\ sent' = sent \cup {a} /\ SentInOrder' /\ IsFiniteSet(sent')
  BY SendOnceSends
<1>2. ledger' = Trimmed(L, c)
  <2>1. {e \in ledger : e.owner = c /\ e.request = r} = {}
    OBVIOUS
  <2> QED BY <1>1, <2>1 DEF Recorded
<1>3. new.id = lastId + 1 /\ new.owner = c /\ new.request = r /\ new.result = lastId + 1
      /\ a.id = lastId + 1 /\ a.from = c /\ a.request = r
  BY DEF Accepted
<1> HIDE DEF new, a
<1>4. /\ IsFiniteSet(ledger) /\ Cardinality(ledger) <= GlobalLimit
      /\ \A k \in Chars : Cardinality({e \in ledger : e.owner = k}) <= PerOwnerLimit
      /\ PerOwnerLimit \in Nat \ {0} /\ GlobalLimit \in Nat \ {0} /\ lastId \in Nat
  BY EntryOf DEF LedgerInv, LedgerBounded
<1>5. \A e \in ledger : e.id \in Nat /\ e.id <= lastId
  BY EntryOf
<1>6. /\ IsFiniteSet(L) /\ \A e \in L : e.id \in Nat /\ ~(e.id > new.id)
      /\ \A e, f \in L : e.id = f.id => e = f
      /\ new \notin ledger
  <2>1. IsFiniteSet(L)
    BY <1>4, FS_AddElement
  <2>2. \A e, f \in ledger : e.id = f.id => e = f
    BY EntryOf
  <2> QED BY <1>3, <1>4, <1>5, <2>1, <2>2
<1>7. Cardinality(mine) <= PerOwnerLimit + 1
  <2> DEFINE O == {e \in ledger : e.owner = c}
  <2>1. mine = O \cup {new} /\ O \in SUBSET ledger /\ Cardinality(O) <= PerOwnerLimit
    BY <1>3, <1>4
  <2> HIDE DEF O, mine
  <2>2. IsFiniteSet(O)
    BY <1>4, <2>1, FS_Subset
  <2>3. Cardinality(O) \in Nat
    BY <2>2, FS_CardinalityType
  <2>4. Cardinality(O \cup {new}) <= Cardinality(O) + 1
    BY <2>2, <2>3, FS_AddElement
  <2>5. Cardinality(mine) = Cardinality(O \cup {new})
    BY <2>1
  <2>6. Cardinality(mine) \in Nat
    BY <2>1, <2>2, FS_AddElement, FS_CardinalityType
  <2> QED BY <1>4, <2>1, <2>3, <2>4, <2>5, <2>6
<1> HIDE DEF L
<1>8. /\ ledger' \subseteq L /\ IsFiniteSet(ledger')
      /\ Cardinality(ledger') <= GlobalLimit
      /\ Cardinality({e \in ledger' : e.owner = c}) <= PerOwnerLimit
  BY <1>2, <1>6, TrimmedIsBounded
<1>9. ASSUME NEW m \in L, m \notin ledger'
      PROVE  \/ /\ m.owner = c
                /\ Cardinality(NewerThan(mine, m.id)) >= PerOwnerLimit
             \/ Cardinality(NewerThan(ledger', m.id)) >= GlobalLimit
  BY <1>2, <1>6, <1>9, TrimmedLoses
<1>10. LedgerBounded'
  <2>1. ASSUME NEW k \in Chars, k # c
        PROVE  Cardinality({e \in ledger' : e.owner = k}) <= PerOwnerLimit
    <3> DEFINE O == {e \in ledger : e.owner = k}
               N == {e \in ledger' : e.owner = k}
    <3>1. N \in SUBSET O /\ O \in SUBSET ledger
      BY <1>3, <1>8, <2>1 DEF L
    <3>2. Cardinality(O) <= PerOwnerLimit
      BY <1>4
    <3> HIDE DEF O, N
    <3>3. IsFiniteSet(O)
      BY <1>4, <3>1, FS_Subset
    <3>4. Cardinality(N) <= PerOwnerLimit
      BY <1>4, <3>1, <3>2, <3>3, PartIsNoMore
    <3> QED BY <3>4 DEF N
  <2> QED BY <1>8, <2>1 DEF LedgerBounded
<1>11. PlacedBefore'
  <2>1. \A e \in ledger : e.id <= e.result
    BY EntryOf
  <2> QED BY <1>3, <1>4, <1>8, <2>1 DEF PlacedBefore, L
<1>12. FirstsAreKept'
  <2> SUFFICES ASSUME NEW m \in sent', IsFirst(m)', m.age < LedgerSeconds
               PROVE  \/ \E e \in ledger' : e.id = m.id /\ e.result = m.id
                      \/ Cardinality(OwnLater(m)') >= PerOwnerLimit
                      \/ Cardinality(NewerThan(ledger', m.id)) >= GlobalLimit
    BY DEF FirstsAreKept
  <2>1. CASE m = a
    <3>1. new \in L
      BY DEF L
    <3>2. NewerThan(mine, new.id) = {} /\ NewerThan(ledger', new.id) = {}
      BY <1>6, <1>8 DEF NewerThan
    <3>3. Cardinality(NewerThan(mine, new.id)) = 0 /\ Cardinality(NewerThan(ledger', new.id)) = 0
      BY <3>2, FS_EmptySet
    <3>4. \/ new \in ledger'
          \/ Cardinality(NewerThan(mine, new.id)) >= PerOwnerLimit
          \/ Cardinality(NewerThan(ledger', new.id)) >= GlobalLimit
      BY <1>9, <3>1
    <3> HIDE DEF mine
    <3>5. new \in ledger'
      BY <1>4, <3>3, <3>4
    <3> QED BY <1>3, <2>1, <3>5
  <2>2. CASE m # a
    <3>1. m \in sent /\ IsFirst(m)
      BY <1>1, <2>2 DEF IsFirst
    <3>2. \/ \E e \in ledger : e.id = m.id /\ e.result = m.id
          \/ Cardinality(OwnLater(m)) >= PerOwnerLimit
          \/ Cardinality(NewerThan(ledger, m.id)) >= GlobalLimit
      BY <3>1 DEF LedgerInv, FirstsAreKept
    <3>3. m.id \in Nat /\ m.id <= lastId
      BY <3>1, EntryOf
    <3>4. ASSUME NEW e \in ledger, e.id = m.id, e.result = m.id, e \notin ledger',
                 Cardinality(NewerThan(mine, e.id)) >= PerOwnerLimit, e.owner = c
          PROVE  Cardinality(OwnLater(m)') >= PerOwnerLimit
      <4> DEFINE S == NewerThan(mine, m.id)
      <4>1. m.from = c
        BY <3>1, <3>4, EntryOf
      <4>2. \A k \in S : k \in L /\ k.owner = c /\ k.id > m.id
        BY DEF NewerThan
      <4>3. \A k \in S : k = new \/ k \in ledger
        BY <4>2 DEF L
      <4>4. S \in SUBSET L
        BY <4>2
      <4> HIDE DEF S
      <4>5. \A k \in S : \E n \in sent' :
              n.id = k.result /\ n.from = k.owner /\ n.request = k.request
        <5> TAKE k \in S
        <5>1. CASE k = new
          BY <1>1, <1>3, <5>1
        <5>2. CASE k \in ledger
          BY <1>1, <5>2, EntryOf
        <5> QED BY <4>3, <5>1, <5>2
      <4>6. \A k, f \in S : k.request = f.request => k = f
        <5>1. \A k, f \in ledger : k.owner = f.owner /\ k.request = f.request => k = f
          BY EntryOf
        <5> QED BY <1>3, <4>2, <4>3, <5>1
      <4>7. \A k \in S : k.owner = m.from /\ k.result > m.id
        <5> TAKE k \in S
        <5>1. CASE k = new
          BY <1>3, <1>4, <3>3, <4>1, <5>1
        <5>2. CASE k \in ledger
          <6>1. k.id \in Nat /\ k.result \in Nat /\ k.id <= k.result
            BY <5>2, EntryOf
          <6> QED BY <3>3, <4>1, <4>2, <6>1
        <5> QED BY <4>3, <5>1, <5>2
      <4>8. /\ OwnLater(m)' \in SUBSET sent'
            /\ \A n \in sent' : n.from = m.from /\ n.id > m.id => n \in OwnLater(m)'
        BY DEF OwnLater, NewerThan
      <4> HIDE DEF OwnLater
      <4>9. /\ Cardinality(S) <= Cardinality(OwnLater(m)')
            /\ Cardinality(S) \in Nat /\ Cardinality(OwnLater(m)') \in Nat
        <5> DEFINE O == OwnLater(m)'
                   Answer(k) == CHOOSE n \in sent' :
                                  n.id = k.result /\ n.from = k.owner /\ n.request = k.request
                   f == [k \in S |-> Answer(k)]
        <5>1. \A k \in S : /\ Answer(k) \in sent' /\ Answer(k).id = k.result
                           /\ Answer(k).from = k.owner /\ Answer(k).request = k.request
          <6> TAKE k \in S
          <6>1. \E n \in sent' : n.id = k.result /\ n.from = k.owner /\ n.request = k.request
            BY <4>5
          <6> QED BY <6>1
        <5> HIDE DEF Answer
        <5>2. f \in [S -> O]
          BY <4>7, <4>8, <5>1
        <5>3. \A k, j \in S : f[k] = f[j] => k = j
          BY <4>6, <5>1
        <5>4. IsFiniteSet(O)
          BY <1>1, <4>8, FS_Subset
        <5> HIDE DEF O, f
        <5>5. f \in Injection(S, O)
          BY <5>2, <5>3 DEF Injection, IsInjective
        <5>6. IsFiniteSet(S) /\ Cardinality(S) <= Cardinality(O)
          BY <5>4, <5>5, FS_Injection
        <5>7. Cardinality(S) \in Nat /\ Cardinality(O) \in Nat
          BY <5>4, <5>6, FS_CardinalityType
        <5> QED BY <5>6, <5>7 DEF O
      <4>12. Cardinality(S) >= PerOwnerLimit
        BY <3>4 DEF S
      <4> QED BY <1>4, <4>9, <4>12
    <3>5. CASE \E e \in ledger : e.id = m.id /\ e.result = m.id
      <4>1. PICK e \in ledger : e.id = m.id /\ e.result = m.id
        BY <3>5
      <4>2. e \in L
        BY DEF L
      <4>3. \/ e \in ledger'
            \/ e \notin ledger' /\ e.owner = c
                 /\ Cardinality(NewerThan(mine, e.id)) >= PerOwnerLimit
            \/ Cardinality(NewerThan(ledger', e.id)) >= GlobalLimit
        BY <1>9, <4>2
      <4> QED BY <3>4, <4>1, <4>3
    <3>6. CASE Cardinality(OwnLater(m)) >= PerOwnerLimit
      <4>1. OwnLater(m) \in SUBSET (OwnLater(m)') /\ OwnLater(m)' \in SUBSET sent'
        BY <1>1 DEF OwnLater, NewerThan
      <4>2. IsFiniteSet(OwnLater(m)')
        BY <1>1, <4>1, FS_Subset
      <4>3. Cardinality(OwnLater(m)) <= Cardinality(OwnLater(m)')
            /\ Cardinality(OwnLater(m)) \in Nat /\ Cardinality(OwnLater(m)') \in Nat
        BY <4>1, <4>2, PartIsNoMore
      <4> QED BY <1>4, <3>6, <4>3
    <3>7. CASE Cardinality(NewerThan(ledger, m.id)) >= GlobalLimit
      <4> DEFINE N == NewerThan(ledger, m.id)
      <4>1. NewerThan(L, m.id) = N \cup {new} /\ new \notin N /\ N \in SUBSET ledger
        BY <1>3, <1>4, <1>6, <3>3 DEF NewerThan, L
      <4> HIDE DEF N
      <4>2. IsFiniteSet(N)
        BY <1>4, <4>1, FS_Subset
      <4>3. Cardinality(N) \in Nat /\ Cardinality(N \cup {new}) = Cardinality(N) + 1
        BY <4>1, <4>2, FS_AddElement, FS_CardinalityType
      <4>4. Cardinality(N) >= GlobalLimit
        BY <3>7 DEF N
      <4>5. Cardinality(NewerThan(L, m.id)) > GlobalLimit
        BY <1>4, <4>1, <4>3, <4>4
      <4> QED BY <1>2, <1>6, <1>7, <3>3, <4>5, TrimmedStaysFull
    <3> QED BY <3>2, <3>5, <3>6, <3>7
  <2> QED BY <2>1, <2>2
<1> QED BY <1>1, <1>10, <1>11, <1>12 DEF LedgerInv

\* Every step of the server, the players and the clock.
LEMMA StepIsBounded ==
  ASSUME ConstantsAssumption, StoreInv, LedgerInv, [Next]_vars PROVE LedgerInv'
<1>1. ASSUME NEW acct \in Accounts, Player(acct) PROVE LedgerInv'
  <2>1. ASSUME NEW d \in Chars, Text(acct, d) PROVE ledger' = ledger /\ sent' = sent
    <3>1. ledger' = Recorded(slot[acct], NoRequest, lastId + 1)
          /\ sent' = sent \cup {Accepted(slot[acct], q, lastId + 1) :
                                  q \in {NoRequest} \cap Requests}
      BY <2>1 DEF Text, Send
    <3>2. {NoRequest} \cap Requests = {}
      BY DEF ConstantsAssumption
    <3> QED BY <3>1, <3>2 DEF Recorded
  <2>2. ASSUME \/ \E d \in Chars : Read(acct, d)
               \/ DeliverPending(acct) \/ Connect(acct) \/ Disconnect(acct)
               \/ \E c \in Chars : SelectCharacter(acct, c)
        PROVE  ledger' = ledger /\ sent' = sent
    BY <2>2 DEF Read, DeliverPending, Connect, Disconnect, SelectCharacter, past
  <2>3. ledger' = ledger /\ sent' = sent
    BY <1>1, <2>1, <2>2 DEF Player
  <2> QED BY <2>3, QuietIsBounded
<1>2. ASSUME NEW c \in Chars, NEW d \in Chars, NEW r \in Requests, SendOnce(c, d, r)
      PROVE LedgerInv'
  <2>1. CASE \E f \in ledger : f.owner = c /\ f.request = r
    BY <1>2, <2>1, RenewingIsBounded
  <2>2. CASE \A f \in ledger : ~(f.owner = c /\ f.request = r)
    BY <1>2, <2>2, AppendingIsBounded
  <2> QED BY <2>1, <2>2
<1>3. CASE Update
  <2>1. Expire /\ sent' = sent
    BY <1>3 DEF Update, UpdateSaves, UpdateFails, UpdateIdles, past
  <2> QED BY <2>1, ExpiringIsBounded
<1>4. CASE Second
  BY <1>4, SecondIsBounded
<1>5. CASE Crash \/ Stop
  BY <1>5, RestartIsBounded
<1>6. CASE UNCHANGED vars
  <2>1. ledger' = ledger /\ sent' = sent
    BY <1>6 DEF vars, past
  <2> QED BY <2>1, QuietIsBounded
<1> QED BY <1>1, <1>2, <1>3, <1>4, <1>5, <1>6 DEF Next

\* Only a request that is not remembered becomes a text.
LEMMA StepAnswersOnce ==
  ASSUME ConstantsAssumption, StoreInv, LedgerInv, [Next]_vars PROVE AnsweredOnce
<1> SUFFICES ASSUME NEW m \in sent, NEW k \in sent', k.id > lastId,
                    m.from = k.from, m.request = k.request,
                    IsFirst(m), m.age < LedgerSeconds
             PROVE  \/ Cardinality(OwnLater(m)) >= PerOwnerLimit
                    \/ Cardinality(ledger) >= GlobalLimit
  BY DEF AnsweredOnce
<1>1. lastId \in Nat /\ \A n \in sent : n.id \in Nat /\ n.id <= lastId
  BY EntryOf
<1>2. k \notin sent
  BY <1>1
<1>3. \E c, d \in Chars, r \in Requests :
        SendOnce(c, d, r) /\ k = Accepted(c, r, lastId + 1)
  <2>1. ASSUME NEW acct \in Accounts, NEW d \in Chars, Text(acct, d) PROVE FALSE
    <3>1. sent' = sent \cup {Accepted(slot[acct], q, lastId + 1) :
                               q \in {NoRequest} \cap Requests}
      BY <2>1 DEF Text, Send
    <3>2. {NoRequest} \cap Requests = {}
      BY DEF ConstantsAssumption
    <3> QED BY <1>2, <3>1, <3>2
  <2>2. ASSUME NEW acct \in Accounts,
               \/ \E d \in Chars : Read(acct, d)
               \/ DeliverPending(acct) \/ Connect(acct) \/ Disconnect(acct)
               \/ \E c \in Chars : SelectCharacter(acct, c)
        PROVE  FALSE
    BY <1>2, <2>2 DEF Read, DeliverPending, Connect, Disconnect, SelectCharacter, past
  <2>3. ~Update
    BY <1>2 DEF Update, UpdateSaves, UpdateFails, UpdateIdles, past
  <2>4. ~Second
    <3>1. Second => k \in {Aged(n, LedgerSeconds) : n \in sent}
      BY DEF Second
    <3>2. \A n \in sent : Aged(n, LedgerSeconds).id = n.id
      BY AgedIs DEF StoreInv, TypeOK
    <3> QED BY <1>1, <3>1, <3>2
  <2>5. ~(Crash \/ Stop)
    <3>1. Crash \/ Stop => sent' = {}
      BY DEF Crash, Stop, Load
    <3> QED BY <3>1
  <2>6. ~(UNCHANGED vars)
    BY <1>2 DEF vars, past
  <2>7. ASSUME NEW c \in Chars, NEW d \in Chars, NEW r \in Requests, SendOnce(c, d, r)
        PROVE  k = Accepted(c, r, lastId + 1)
    <3>1. sent' = sent \cup {Accepted(c, r, lastId + 1)}
      BY <2>7, SendOnceSends
    <3> QED BY <1>2, <3>1
  <2>8. \E c, d \in Chars, r \in Requests : SendOnce(c, d, r)
    BY <2>1, <2>2, <2>3, <2>4, <2>5, <2>6 DEF Next, Player
  <2> QED BY <2>7, <2>8
<1>4. PICK c \in Chars, d \in Chars, r \in Requests :
        SendOnce(c, d, r) /\ k = Accepted(c, r, lastId + 1)
  BY <1>3
<1>5. m.from = c /\ m.request = r
  BY <1>4 DEF Accepted
<1>6. \A e \in ledger : e.owner = c /\ e.request = r => ~(e.age < LedgerSeconds)
  BY <1>4, SendOnceSends
<1>7. ~\E e \in ledger : e.id = m.id /\ e.result = m.id
  <2>1. \A e \in ledger : e.result = m.id => e.owner = c /\ e.request = r /\ e.age = m.age
    BY <1>5, EntryOf
  <2> QED BY <1>6, <2>1
<1>8. \/ Cardinality(OwnLater(m)) >= PerOwnerLimit
      \/ Cardinality(NewerThan(ledger, m.id)) >= GlobalLimit
  BY <1>7 DEF LedgerInv, FirstsAreKept
<1>9. Cardinality(NewerThan(ledger, m.id)) >= GlobalLimit => Cardinality(ledger) >= GlobalLimit
  <2>1. NewerThan(ledger, m.id) \in SUBSET ledger
    BY DEF NewerThan
  <2>2. IsFiniteSet(ledger) /\ GlobalLimit \in Nat
    BY EntryOf DEF LedgerInv, LedgerBounded
  <2>3. /\ Cardinality(NewerThan(ledger, m.id)) <= Cardinality(ledger)
        /\ Cardinality(NewerThan(ledger, m.id)) \in Nat /\ Cardinality(ledger) \in Nat
    BY <2>1, <2>2, PartIsNoMore
  <2> QED BY <2>2, <2>3
<1> QED BY <1>8, <1>9

\* Whatever texts are sent, read, written and lost: a clean store is on disk,
\* an unreadable one has nothing to overwrite the file with, a text is handed
\* only to the player who plays its reader and not twice unasked, the ledger
\* answers with what was sent and stays within its bounds, and the first text
\* of a request keeps its entry until it is too old or pushed out.
THEOREM MessagesAreSound == Spec => []IInv
<1>1. Init => IInv
  BY InitIsSound, InitIsBounded, ConstantsAssumption DEF IInv
<1>2. IInv /\ [Next]_vars => IInv'
  <2> SUFFICES ASSUME IInv, [Next]_vars PROVE StoreInv' /\ LedgerInv'
    BY DEF IInv
  <2> QED BY StepIsSound, StepIsBounded, ConstantsAssumption DEF IInv
<1> QED BY <1>1, <1>2, PTL DEF Spec

\* A retry within its time makes no second text, unless the sender's own
\* later requests or a full ledger cost the first one its entry.
THEOREM RetriesAreAnsweredOnce == Spec => RetriesAreOneText
<1>1. IInv /\ [Next]_vars => AnsweredOnce
  BY StepAnswersOnce, ConstantsAssumption DEF IInv
<1> QED BY <1>1, MessagesAreSound, PTL DEF Spec, RetriesAreOneText

-----------------------------------------------------------------------------
(* The mailbox. *)

LEMMA TextPosts ==
  ASSUME NEW acct \in Accounts, NEW d \in Chars, ConstantsAssumption, StoreInv, Text(acct, d)
  PROVE  Box!Next
<1> DEFINE c == slot[acct]
           k == NewText(c, d)
<1>1. c \in Chars /\ Send(c, d, NoRequest)
  BY DEF Text, StoreInv, TypeOK
<1>2. /\ k \in Texts /\ k.id = lastId + 1 /\ k.from = c /\ k.to = d
      /\ k \in texts' /\ texts' \subseteq texts \cup {k} /\ texts \ texts' \subseteq Thread(c, d)
      /\ k \notin texts
  BY <1>1, SendTexts
<1>3. savedTexts' = savedTexts /\ savedDelivered' = savedDelivered
  BY <1>1 DEF Send, disk
<1>4. \/ delivered' = delivered
      \/ delivered' = NowDelivered(d) \cup {lastId + 1}
  BY DEF Text
<1> HIDE DEF k
<1>5. /\ \A m \in texts : m.id # lastId + 1
      /\ lastId + 1 \notin delivered
  <2>1. lastId \in Nat /\ texts \subseteq Texts /\ delivered \subseteq Ids
        /\ (\A m \in texts : m.id <= lastId) /\ (\A i \in delivered : i <= lastId)
    BY DEF StoreInv, TypeOK, IdsNameOneText, NothingIsAhead, ConstantsAssumption
  <2> QED BY <2>1
<1>6. Thread(c, d) = Box!Between(k, texts)
  BY <1>2 DEF Thread, Box!Between
<1>7. \/ Owed' = texts' \cap (Owed \cup {k})
      \/ Owed' = texts' \cap (Owed \ Box!To(k.to, Owed))
  <2>1. CASE delivered' = delivered
    <3>1. Owed' = texts' \cap (Owed \cup {k})
      BY <1>2, <1>5, <2>1 DEF Owed
    <3> QED BY <3>1
  <2>2. CASE delivered' = NowDelivered(d) \cup {lastId + 1}
    <3>1. \A m \in texts : m.id \in delivered' <=> m.id \in delivered \/ m.to = d
      BY <1>5, <2>2 DEF NowDelivered, IdsOf, StoreInv, IdsNameOneText
    <3>2. k.id \in delivered'
      BY <1>2, <2>2
    <3>3. Owed' = texts' \cap (Owed \ Box!To(k.to, Owed))
      BY <1>2, <3>1, <3>2 DEF Owed, Box!To
    <3> QED BY <3>3
  <2> QED BY <1>4, <2>1, <2>2
<1>8. OwedOnDisk' = OwedOnDisk
  BY <1>3 DEF OwedOnDisk
<1>9. Box!Post(k)
  BY <1>2, <1>3, <1>6, <1>7, <1>8 DEF Box!Post
<1> QED BY <1>2, <1>9 DEF Box!Next

LEMMA SendOncePosts ==
  ASSUME NEW c \in Chars, NEW d \in Chars, NEW r \in Requests, ConstantsAssumption, StoreInv,
         SendOnce(c, d, r)
  PROVE  Box!Next
<1> DEFINE k == NewText(c, d)
<1>1. Send(c, d, r) /\ delivered' = delivered /\ r \in Requests \cup {NoRequest}
  BY DEF SendOnce
<1>2. /\ k \in Texts /\ k.id = lastId + 1 /\ k.from = c /\ k.to = d
      /\ k \in texts' /\ texts' \subseteq texts \cup {k} /\ texts \ texts' \subseteq Thread(c, d)
      /\ k \notin texts
  BY <1>1, SendTexts
<1>3. savedTexts' = savedTexts /\ savedDelivered' = savedDelivered
  BY <1>1 DEF Send, disk
<1> HIDE DEF k
<1>4. lastId + 1 \notin delivered
  <2>1. lastId \in Nat /\ (\A i \in delivered : i <= lastId)
    BY DEF StoreInv, TypeOK, NothingIsAhead, ConstantsAssumption
  <2> QED BY <2>1
<1>5. Thread(c, d) = Box!Between(k, texts)
  BY <1>2 DEF Thread, Box!Between
<1>6. Owed' = texts' \cap (Owed \cup {k})
  BY <1>1, <1>2, <1>4 DEF Owed
<1>7. OwedOnDisk' = OwedOnDisk
  BY <1>3 DEF OwedOnDisk
<1>8. Box!Post(k)
  BY <1>2, <1>3, <1>5, <1>6, <1>7 DEF Box!Post
<1> QED BY <1>2, <1>8 DEF Box!Next

LEMMA MarkingCollects ==
  ASSUME NEW c \in Chars, StoreInv, MarkDelivered(c), UNCHANGED <<texts, disk>>
  PROVE  Box!Next
<1>1. /\ texts' = texts /\ savedTexts' = savedTexts /\ savedDelivered' = savedDelivered
      /\ delivered' = delivered \cup IdsOf({m \in texts : m.to = c})
  BY DEF MarkDelivered, NowDelivered, disk
<1>2. \A m \in texts : m.id \in delivered' <=> m.id \in delivered \/ m.to = c
  BY <1>1 DEF IdsOf, StoreInv, IdsNameOneText
<1>3. Owed' = Owed \ Box!To(c, Owed)
  BY <1>1, <1>2 DEF Owed, Box!To
<1>4. Box!Collect(c)
  BY <1>1, <1>3 DEF Box!Collect, OwedOnDisk
<1> QED BY <1>4 DEF Box!Next

LEMMA RestartRestores == ASSUME StoreInv, Crash \/ Stop PROVE Box!Next
<1>1. CASE Crash
  <2>1. savedTexts' = savedTexts /\ savedDelivered' = savedDelivered
        /\ \/ texts' = savedTexts /\ delivered' = savedDelivered
           \/ texts' = {} /\ delivered' = {}
    BY <1>1 DEF Crash, Load, disk
  <2>2. OwedOnDisk' = OwedOnDisk
    BY <2>1 DEF OwedOnDisk
  <2>3. CASE texts' = savedTexts /\ delivered' = savedDelivered
    <3>1. Owed' = OwedOnDisk
      BY <2>3 DEF Owed, OwedOnDisk
    <3> QED BY <2>1, <2>2, <2>3, <3>1 DEF Box!Next, Box!Restart
  <2>4. CASE texts' = {} /\ delivered' = {}
    <3>1. Owed' = {}
      BY <2>4 DEF Owed
    <3> QED BY <2>1, <2>2, <2>4, <3>1 DEF Box!Next, Box!Shut
  <2> QED BY <2>1, <2>3, <2>4
<1>2. CASE Stop
  <2>1. savedTexts' = texts /\ savedDelivered' = delivered
        /\ \/ texts' = texts /\ delivered' = delivered
           \/ texts' = {} /\ delivered' = {}
    BY <1>2 DEF Stop, Load
  <2>2. OwedOnDisk' = Owed
    BY <2>1 DEF OwedOnDisk, Owed
  <2>3. CASE texts' = texts /\ delivered' = delivered
    <3>1. Owed' = Owed
      BY <2>3 DEF Owed
    <3> QED BY <2>1, <2>2, <2>3, <3>1 DEF Box!Next, Box!Save
  <2>4. CASE texts' = {} /\ delivered' = {}
    <3>1. Owed' = {}
      BY <2>4 DEF Owed
    <3> QED BY <2>1, <2>2, <2>4, <3>1 DEF Box!Next, Box!StopAndShut
  <2> QED BY <2>1, <2>3, <2>4
<1> QED BY <1>1, <1>2

LEMMA StepIsBoxStep ==
  ASSUME ConstantsAssumption, StoreInv, [Next]_vars PROVE [Box!Next]_(Box!vars)
<1> DEFINE Same == /\ texts' = texts /\ delivered' = delivered
                   /\ savedTexts' = savedTexts /\ savedDelivered' = savedDelivered
<1>1. ASSUME Same PROVE UNCHANGED Box!vars
  BY <1>1 DEF Box!vars, Owed, OwedOnDisk
<1>2. ASSUME NEW acct \in Accounts, Player(acct) PROVE Box!Next \/ Same
  <2>1. ASSUME NEW d \in Chars, Text(acct, d) PROVE Box!Next
    BY <2>1, TextPosts
  <2>2. slot[acct] \in Chars
    BY DEF StoreInv, TypeOK
  <2>3. ASSUME (\E d \in Chars : Read(acct, d)) \/ DeliverPending(acct) PROVE Box!Next
    <3>1. MarkDelivered(slot[acct]) /\ UNCHANGED <<texts, disk>>
      BY <2>3 DEF Read, DeliverPending
    <3> QED BY <2>2, <3>1, MarkingCollects
  <2>4. ASSUME \/ Connect(acct) \/ Disconnect(acct)
               \/ \E c \in Chars : SelectCharacter(acct, c)
        PROVE  Same
    BY <2>4 DEF Connect, Disconnect, SelectCharacter, memory, disk
  <2> QED BY <1>2, <2>1, <2>3, <2>4 DEF Player
<1>3. ASSUME NEW c \in Chars, NEW d \in Chars, NEW r \in Requests, SendOnce(c, d, r)
      PROVE Box!Next
  BY <1>3, SendOncePosts
<1>4. ASSUME Update PROVE Box!Next \/ Same
  <2>1. ASSUME UpdateSaves PROVE Box!Next
    <3>1. texts' = texts /\ delivered' = delivered /\ savedTexts' = texts
          /\ savedDelivered' = delivered
      BY <2>1 DEF UpdateSaves, Written
    <3>2. Box!Save
      BY <3>1 DEF Box!Save, Owed, OwedOnDisk
    <3> QED BY <3>2 DEF Box!Next
  <2>2. ASSUME UpdateFails \/ UpdateIdles PROVE Same
    BY <2>2 DEF UpdateFails, UpdateIdles, memory, disk
  <2> QED BY <1>4, <2>1, <2>2 DEF Update
<1>5. ASSUME Second \/ UNCHANGED vars PROVE Same
  BY <1>5 DEF Second, vars, memory, disk
<1>6. ASSUME Crash \/ Stop PROVE Box!Next
  BY <1>6, RestartRestores
<1> HIDE DEF Same
<1> QED BY <1>1, <1>2, <1>3, <1>4, <1>5, <1>6 DEF Next

\* Whatever the caps, the timers and the failing writes: the store is a mailbox,
\* in which a text leaves only when later ones push it out or a restart finds
\* it unsaved, and only its reader's collecting ends what is owed.
THEOREM MessagesImplementMailbox == Spec => ImplementsMailbox
<1>1. Init => Box!Init
  BY DEF Init, Box!Init, Owed, OwedOnDisk
<1>2. IInv /\ [Next]_vars => [Box!Next]_(Box!vars)
  BY StepIsBoxStep, ConstantsAssumption DEF IInv
<1> QED BY <1>1, <1>2, MessagesAreSound, PTL DEF Spec, ImplementsMailbox, Box!Spec
=============================================================================
