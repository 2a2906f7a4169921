---------------------------- MODULE SavesProofs ----------------------------
(***************************************************************************)
(* The invariant of Saves for any number of deals, failures and crashes:   *)
(* one lemma per action, one step per part of the invariant; then the      *)
(* replacement of files and the books the two files implement.             *)
(***************************************************************************)
EXTENDS Saves, TLAPS

USE DEF Files, Deals

\* Every entry there is belongs to a deal that was made.
LEMMA MadeSoFar ==
  ASSUME ConstantsAssumption, IInv
  PROVE  \A f \in Files : \A e \in mem[f] \cup Kept(f) : e[1] <= deals /\ e[1] <= deals + 1
<1>1. \A e \in Entries : e[1] \in Nat
  BY DEF Entries
<1>2. \A f \in Files : mem[f] \cup Kept(f) \subseteq Entries
  BY DEF IInv, TypeOK, MemTypes, DiskTypes, Kept, FileStates, Contents
<1>3. \A f \in Files : \A e \in mem[f] \cup Kept(f) : e[1] <= deals
  BY DEF IInv, Unmade
<1>4. deals \in Nat
  BY DEF IInv, TypeOK, RestTypes, ConstantsAssumption
<1> QED BY <1>1, <1>2, <1>3, <1>4

\* Of the next deal there is nothing yet.
LEMMA NothingNew ==
  ASSUME ConstantsAssumption, IInv, NEW n \in Deals, n = deals + 1
  PROVE  /\ \A f \in Files, p \in STRING : <<n, p>> \notin mem[f] \cup Kept(f)
         /\ kind[n] = "none"
<1>1. deals \in Nat
  BY DEF IInv, TypeOK, RestTypes, ConstantsAssumption
<1>2. \A p \in STRING : <<n, p>>[1] = n
  OBVIOUS
<1>3. \A f \in Files, p \in STRING : <<n, p>> \notin mem[f] \cup Kept(f)
  BY <1>1, <1>2, MadeSoFar
<1>4. kind[n] = "none"
  BY <1>1 DEF IInv, Unmade
<1> QED BY <1>3, <1>4
\* One save of one character keeps the invariant.
LEMMA NoteKeeps ==
  ASSUME ConstantsAssumption, IInv, NEW n \in Deals, Note(n)
  PROVE  IInv'
<1> USE DEF Note, Deal, SavePlayers, Open, Idle, disk, handler, past
<1>1. MemTypes'
  BY DEF IInv, TypeOK, MemTypes, DiskTypes, RestTypes, Contents, Entries
<1>2. DiskTypes'
  BY DEF IInv, TypeOK, MemTypes, DiskTypes, RestTypes, FileStates, Contents, Entries,
     Stages, Torn, Absent, Whole
<1>3. RestTypes'
  BY DEF IInv, TypeOK, MemTypes, DiskTypes, RestTypes, Kinds, ConstantsAssumption
<1>4. AtWork'
  BY DEF IInv, TypeOK, MemTypes, DiskTypes, RestTypes, AtWork, Whole, Absent, Torn
<1>5. CleanMeansSaved'
  BY DEF IInv, TypeOK, MemTypes, DiskTypes, RestTypes, CleanMeansSaved, Kept, Whole,
     Absent, Torn, AtWork
<1>6. Ordered'
  BY DEF IInv, TypeOK, MemTypes, DiskTypes, RestTypes, Ordered, Unmade, Underway,
     NoMoneyFromCrashes, Kept
<1>7. CarsPaid'
  BY DEF IInv, TypeOK, MemTypes, DiskTypes, RestTypes, CarsPaid, Price, Sold,
     PaidBeforeHandedOver, Underway, Unmade, Kept, AtWork, CleanMeansSaved, Absent,
     Torn, Whole
<1>8. Underway'
  BY DEF IInv, TypeOK, MemTypes, DiskTypes, RestTypes, Underway, AtWork, Kept, Absent,
     Torn, Whole, CleanMeansSaved
<1>9. Unmade'
  <2>1. deals' = deals + 1 /\ n = deals + 1
    OBVIOUS
  <2>2. \A f \in Files : mem'[f] \subseteq mem[f] \cup {<<n, "note">>}
    BY DEF IInv, TypeOK, MemTypes, Contents
  <2>3. \A f \in Files : Kept(f)' = Kept(f)
    BY DEF Kept
  <2>4. \A f \in Files : \A e \in mem'[f] \cup Kept(f)' : e[1] <= deals'
    BY <2>1, <2>2, <2>3, MadeSoFar DEF IInv, TypeOK, RestTypes
  <2>5. \A m \in Deals : <<m, "lock">> \in mem'["vehicles"] => kind'[m] = "sale"
    BY <2>1, NothingNew DEF IInv, TypeOK, MemTypes, RestTypes, Unmade, Contents
  <2>6. \A m \in Deals : m > deals' => kind'[m] = "none"
    BY <2>1 DEF IInv, TypeOK, RestTypes, Unmade
  <2> QED BY <2>4, <2>5, <2>6 DEF Unmade
<1>10. NoMoneyFromCrashes'
  BY DEF IInv, TypeOK, MemTypes, DiskTypes, RestTypes, NoMoneyFromCrashes, Ordered,
     Kept, AtWork, Absent, Torn, Whole, Unmade
<1>11. PaidBeforeHandedOver'
  BY DEF IInv, TypeOK, MemTypes, DiskTypes, RestTypes, PaidBeforeHandedOver, Price,
     Sold, CarsPaid, Kept, AtWork, Absent, Torn, Whole, Unmade, Underway
<1> QED BY <1>1, <1>2, <1>3, <1>4, <1>5, <1>6, <1>7, <1>8, <1>9, <1>10, <1>11 DEF
      IInv, TypeOK

\* The first save of a payment keeps the invariant.
LEMMA PayKeeps ==
  ASSUME ConstantsAssumption, IInv, NEW n \in Deals, Pay(n)
  PROVE  IInv'
<1> USE DEF Pay, Deal, SavePlayers, Open, Idle, Half, disk, handler, past
<1>1. MemTypes'
  BY DEF IInv, TypeOK, MemTypes, DiskTypes, RestTypes, Contents, Entries
<1>2. DiskTypes'
  BY DEF IInv, TypeOK, MemTypes, DiskTypes, RestTypes, FileStates, Contents, Entries,
     Stages, Torn, Absent, Whole
<1>3. RestTypes'
  BY DEF IInv, TypeOK, MemTypes, DiskTypes, RestTypes, Kinds, ConstantsAssumption
<1>4. AtWork'
  BY DEF IInv, TypeOK, MemTypes, DiskTypes, RestTypes, AtWork, Whole, Absent, Torn
<1>5. CleanMeansSaved'
  BY DEF IInv, TypeOK, MemTypes, DiskTypes, RestTypes, CleanMeansSaved, Kept, Whole,
     Absent, Torn, AtWork
<1>6. Ordered'
  BY DEF IInv, TypeOK, MemTypes, DiskTypes, RestTypes, Ordered, Unmade, Underway,
     NoMoneyFromCrashes, Kept
<1>7. CarsPaid'
  BY DEF IInv, TypeOK, MemTypes, DiskTypes, RestTypes, CarsPaid, Price, Sold,
     PaidBeforeHandedOver, Underway, Unmade, Kept, AtWork, CleanMeansSaved, Absent,
     Torn, Whole
<1>8. Underway'
  BY DEF IInv, TypeOK, MemTypes, DiskTypes, RestTypes, Underway, AtWork, Kept, Absent,
     Torn, Whole, CleanMeansSaved
<1>9. Unmade'
  <2>1. deals' = deals + 1 /\ n = deals + 1
    OBVIOUS
  <2>2. \A f \in Files : mem'[f] \subseteq mem[f] \cup Half(n, 1)
    BY DEF IInv, TypeOK, MemTypes, Contents
  <2>3. \A f \in Files : Kept(f)' = Kept(f)
    BY DEF Kept
  <2>4. \A f \in Files : \A e \in mem'[f] \cup Kept(f)' : e[1] <= deals'
    BY <2>1, <2>2, <2>3, MadeSoFar DEF IInv, TypeOK, RestTypes
  <2>5. \A m \in Deals : <<m, "lock">> \in mem'["vehicles"] => kind'[m] = "sale"
    BY <2>1, NothingNew DEF IInv, TypeOK, MemTypes, RestTypes, Unmade, Contents
  <2>6. \A m \in Deals : m > deals' => kind'[m] = "none"
    BY <2>1 DEF IInv, TypeOK, RestTypes, Unmade
  <2> QED BY <2>4, <2>5, <2>6 DEF Unmade
<1>10. NoMoneyFromCrashes'
  BY DEF IInv, TypeOK, MemTypes, DiskTypes, RestTypes, NoMoneyFromCrashes, Ordered,
     Kept, AtWork, Absent, Torn, Whole, Unmade
<1>11. PaidBeforeHandedOver'
  BY DEF IInv, TypeOK, MemTypes, DiskTypes, RestTypes, PaidBeforeHandedOver, Price,
     Sold, CarsPaid, Kept, AtWork, Absent, Torn, Whole, Unmade, Underway
<1> QED BY <1>1, <1>2, <1>3, <1>4, <1>5, <1>6, <1>7, <1>8, <1>9, <1>10, <1>11 DEF
      IInv, TypeOK

\* The one save of a trade keeps the invariant.
LEMMA ApplyTradeKeeps ==
  ASSUME ConstantsAssumption, IInv, NEW n \in Deals, ApplyTrade(n)
  PROVE  IInv'
<1> USE DEF ApplyTrade, Deal, SavePlayers, Open, Idle, Half, disk, handler, past
<1>1. MemTypes'
  BY DEF IInv, TypeOK, MemTypes, DiskTypes, RestTypes, Contents, Entries
<1>2. DiskTypes'
  BY DEF IInv, TypeOK, MemTypes, DiskTypes, RestTypes, FileStates, Contents, Entries,
     Stages, Torn, Absent, Whole
<1>3. RestTypes'
  BY DEF IInv, TypeOK, MemTypes, DiskTypes, RestTypes, Kinds, ConstantsAssumption
<1>4. AtWork'
  BY DEF IInv, TypeOK, MemTypes, DiskTypes, RestTypes, AtWork, Whole, Absent, Torn
<1>5. CleanMeansSaved'
  BY DEF IInv, TypeOK, MemTypes, DiskTypes, RestTypes, CleanMeansSaved, Kept, Whole,
     Absent, Torn, AtWork
<1>6. Ordered'
  <2>1. mem' = [mem EXCEPT !["players"] = @ \cup (Half(n, 1) \cup Half(n, 2))]
    OBVIOUS
  <2>2. kind' = [kind EXCEPT ![n] = "trade"]
    OBVIOUS
  <2>3. \A m \in Deals \ {n} : kind'[m] = kind[m]
    BY <2>2 DEF IInv, TypeOK, RestTypes
  <2>4. \A m \in Deals \ {n}, p \in {"debit", "credit"} :
          <<m, p>> \in mem'["players"] <=> <<m, p>> \in mem["players"]
    BY <2>1 DEF IInv, TypeOK, MemTypes
  <2>5. <<n, "debit">> \in mem'["players"] /\ <<n, "credit">> \in mem'["players"]
    BY <2>1 DEF IInv, TypeOK, MemTypes
  <2>6. \A m \in Deals \ {n} :
          /\ <<m, "credit">> \in mem'["players"] => <<m, "debit">> \in mem'["players"]
          /\ kind'[m] = "trade" /\ <<m, "debit">> \in mem'["players"]
               => <<m, "credit">> \in mem'["players"]
    BY <2>3, <2>4 DEF IInv, Ordered
  <2> QED BY <2>5, <2>6 DEF Ordered
<1>7. CarsPaid'
  BY DEF IInv, TypeOK, MemTypes, DiskTypes, RestTypes, CarsPaid, Price, Sold,
     PaidBeforeHandedOver, Underway, Unmade, Kept, AtWork, CleanMeansSaved, Absent,
     Torn, Whole
<1>8. Underway'
  BY DEF IInv, TypeOK, MemTypes, DiskTypes, RestTypes, Underway, AtWork, Kept, Absent,
     Torn, Whole, CleanMeansSaved
<1>9. Unmade'
  <2>1. deals' = deals + 1 /\ n = deals + 1
    OBVIOUS
  <2>2. \A f \in Files : mem'[f] \subseteq mem[f] \cup Half(n, 1) \cup Half(n, 2)
    BY DEF IInv, TypeOK, MemTypes, Contents
  <2>3. \A f \in Files : Kept(f)' = Kept(f)
    BY DEF Kept
  <2>4. \A f \in Files : \A e \in mem'[f] \cup Kept(f)' : e[1] <= deals'
    BY <2>1, <2>2, <2>3, MadeSoFar DEF IInv, TypeOK, RestTypes
  <2>5. \A m \in Deals : <<m, "lock">> \in mem'["vehicles"] => kind'[m] = "sale"
    BY <2>1, NothingNew DEF IInv, TypeOK, MemTypes, RestTypes, Unmade, Contents
  <2>6. \A m \in Deals : m > deals' => kind'[m] = "none"
    BY <2>1 DEF IInv, TypeOK, RestTypes, Unmade
  <2> QED BY <2>4, <2>5, <2>6 DEF Unmade
<1>10. NoMoneyFromCrashes'
  BY DEF IInv, TypeOK, MemTypes, DiskTypes, RestTypes, NoMoneyFromCrashes, Ordered,
     Kept, AtWork, Absent, Torn, Whole, Unmade
<1>11. PaidBeforeHandedOver'
  BY DEF IInv, TypeOK, MemTypes, DiskTypes, RestTypes, PaidBeforeHandedOver, Price,
     Sold, CarsPaid, Kept, AtWork, Absent, Torn, Whole, Unmade, Underway
<1> QED BY <1>1, <1>2, <1>3, <1>4, <1>5, <1>6, <1>7, <1>8, <1>9, <1>10, <1>11 DEF
      IInv, TypeOK

\* A car that is given keeps the invariant.
LEMMA CreateKeeps ==
  ASSUME ConstantsAssumption, IInv, NEW n \in Deals, Create(n)
  PROVE  IInv'
<1> USE DEF Create, Deal, SaveVehicles, Open, Idle, Car, disk, handler, past
<1>1. MemTypes'
  BY DEF IInv, TypeOK, MemTypes, DiskTypes, RestTypes, Contents, Entries
<1>2. DiskTypes'
  BY DEF IInv, TypeOK, MemTypes, DiskTypes, RestTypes, FileStates, Contents, Entries,
     Stages, Torn, Absent, Whole
<1>3. RestTypes'
  BY DEF IInv, TypeOK, MemTypes, DiskTypes, RestTypes, Kinds, ConstantsAssumption
<1>4. AtWork'
  BY DEF IInv, TypeOK, MemTypes, DiskTypes, RestTypes, AtWork, Whole, Absent, Torn
<1>5. CleanMeansSaved'
  BY DEF IInv, TypeOK, MemTypes, DiskTypes, RestTypes, CleanMeansSaved, Kept, Whole,
     Absent, Torn, AtWork
<1>6. Ordered'
  BY DEF IInv, TypeOK, MemTypes, DiskTypes, RestTypes, Ordered, Unmade, Underway,
     NoMoneyFromCrashes, Kept
<1>7. CarsPaid'
  BY DEF IInv, TypeOK, MemTypes, DiskTypes, RestTypes, CarsPaid, Price, Sold,
     PaidBeforeHandedOver, Underway, Unmade, Kept, AtWork, CleanMeansSaved, Absent,
     Torn, Whole
<1>8. Underway'
  BY DEF IInv, TypeOK, MemTypes, DiskTypes, RestTypes, Underway, AtWork, Kept, Absent,
     Torn, Whole, CleanMeansSaved
<1>9. Unmade'
  <2>1. deals' = deals + 1 /\ n = deals + 1
    OBVIOUS
  <2>2. \A f \in Files : mem'[f] \subseteq mem[f] \cup Car(n)
    BY DEF IInv, TypeOK, MemTypes, Contents
  <2>3. \A f \in Files : Kept(f)' = Kept(f)
    BY DEF Kept
  <2>4. \A f \in Files : \A e \in mem'[f] \cup Kept(f)' : e[1] <= deals'
    BY <2>1, <2>2, <2>3, MadeSoFar DEF IInv, TypeOK, RestTypes
  <2>5. \A m \in Deals : <<m, "lock">> \in mem'["vehicles"] => kind'[m] = "sale"
    BY <2>1, NothingNew DEF IInv, TypeOK, MemTypes, RestTypes, Unmade, Contents
  <2>6. \A m \in Deals : m > deals' => kind'[m] = "none"
    BY <2>1 DEF IInv, TypeOK, RestTypes, Unmade
  <2> QED BY <2>4, <2>5, <2>6 DEF Unmade
<1>10. NoMoneyFromCrashes'
  BY DEF IInv, TypeOK, MemTypes, DiskTypes, RestTypes, NoMoneyFromCrashes, Ordered,
     Kept, AtWork, Absent, Torn, Whole, Unmade
<1>11. PaidBeforeHandedOver'
  BY DEF IInv, TypeOK, MemTypes, DiskTypes, RestTypes, PaidBeforeHandedOver, Price,
     Sold, CarsPaid, Kept, AtWork, Absent, Torn, Whole, Unmade, Underway
<1> QED BY <1>1, <1>2, <1>3, <1>4, <1>5, <1>6, <1>7, <1>8, <1>9, <1>10, <1>11 DEF
      IInv, TypeOK

\* The lock of an offer keeps the invariant.
LEMMA OfferKeeps ==
  ASSUME ConstantsAssumption, IInv, NEW n \in Deals, Offer(n)
  PROVE  IInv'
<1> USE DEF Offer, Deal, SaveVehicles, Open, Idle, Locked, disk, handler, past
<1>1. MemTypes'
  BY DEF IInv, TypeOK, MemTypes, DiskTypes, RestTypes, Contents, Entries
<1>2. DiskTypes'
  BY DEF IInv, TypeOK, MemTypes, DiskTypes, RestTypes, FileStates, Contents, Entries,
     Stages, Torn, Absent, Whole
<1>3. RestTypes'
  BY DEF IInv, TypeOK, MemTypes, DiskTypes, RestTypes, Kinds, ConstantsAssumption
<1>4. AtWork'
  BY DEF IInv, TypeOK, MemTypes, DiskTypes, RestTypes, AtWork, Whole, Absent, Torn
<1>5. CleanMeansSaved'
  BY DEF IInv, TypeOK, MemTypes, DiskTypes, RestTypes, CleanMeansSaved, Kept, Whole,
     Absent, Torn, AtWork
<1>6. Ordered'
  BY DEF IInv, TypeOK, MemTypes, DiskTypes, RestTypes, Ordered, Unmade, Underway,
     NoMoneyFromCrashes, Kept
<1>7. CarsPaid'
  BY DEF IInv, TypeOK, MemTypes, DiskTypes, RestTypes, CarsPaid, Price, Sold,
     PaidBeforeHandedOver, Underway, Unmade, Kept, AtWork, CleanMeansSaved, Absent,
     Torn, Whole
<1>8. Underway'
  BY DEF IInv, TypeOK, MemTypes, DiskTypes, RestTypes, Underway, AtWork, Kept, Absent,
     Torn, Whole, CleanMeansSaved
<1>9. Unmade'
  <2>1. deals' = deals + 1 /\ n = deals + 1
    OBVIOUS
  <2>2. \A f \in Files : mem'[f] \subseteq mem[f] \cup Locked(n)
    BY DEF IInv, TypeOK, MemTypes, Contents
  <2>3. \A f \in Files : Kept(f)' = Kept(f)
    BY DEF Kept
  <2>4. \A f \in Files : \A e \in mem'[f] \cup Kept(f)' : e[1] <= deals'
    BY <2>1, <2>2, <2>3, MadeSoFar DEF IInv, TypeOK, RestTypes
  <2>5. \A m \in Deals : <<m, "lock">> \in mem'["vehicles"] => kind'[m] = "sale"
    BY <2>1, NothingNew DEF IInv, TypeOK, MemTypes, RestTypes, Unmade, Contents
  <2>6. \A m \in Deals : m > deals' => kind'[m] = "none"
    BY <2>1 DEF IInv, TypeOK, RestTypes, Unmade
  <2> QED BY <2>4, <2>5, <2>6 DEF Unmade
<1>10. NoMoneyFromCrashes'
  BY DEF IInv, TypeOK, MemTypes, DiskTypes, RestTypes, NoMoneyFromCrashes, Ordered,
     Kept, AtWork, Absent, Torn, Whole, Unmade
<1>11. PaidBeforeHandedOver'
  BY DEF IInv, TypeOK, MemTypes, DiskTypes, RestTypes, PaidBeforeHandedOver, Price,
     Sold, CarsPaid, Kept, AtWork, Absent, Torn, Whole, Unmade, Underway
<1> QED BY <1>1, <1>2, <1>3, <1>4, <1>5, <1>6, <1>7, <1>8, <1>9, <1>10, <1>11 DEF
      IInv, TypeOK

\* The unlocking keeps the invariant.
LEMMA UnlockKeeps ==
  ASSUME ConstantsAssumption, IInv, NEW n \in Deals, Unlock(n)
  PROVE  IInv'
<1> USE DEF Unlock, SaveVehicles, Open, Idle, Locked, disk, handler, past
<1>1. MemTypes'
  BY DEF IInv, TypeOK, MemTypes, DiskTypes, RestTypes, Contents, Entries
<1>2. DiskTypes'
  BY DEF IInv, TypeOK, MemTypes, DiskTypes, RestTypes, FileStates, Contents, Entries,
     Stages, Torn, Absent, Whole
<1>3. RestTypes'
  BY DEF IInv, TypeOK, MemTypes, DiskTypes, RestTypes, Kinds, ConstantsAssumption
<1>4. AtWork'
  BY DEF IInv, TypeOK, MemTypes, DiskTypes, RestTypes, AtWork, Whole, Absent, Torn
<1>5. CleanMeansSaved'
  BY DEF IInv, TypeOK, MemTypes, DiskTypes, RestTypes, CleanMeansSaved, Kept, Whole,
     Absent, Torn, AtWork
<1>6. Ordered'
  BY DEF IInv, TypeOK, MemTypes, DiskTypes, RestTypes, Ordered, Unmade, Underway,
     NoMoneyFromCrashes, Kept
<1>7. CarsPaid'
  BY DEF IInv, TypeOK, MemTypes, DiskTypes, RestTypes, CarsPaid, Price, Sold,
     PaidBeforeHandedOver, Underway, Unmade, Kept, AtWork, CleanMeansSaved, Absent,
     Torn, Whole
<1>8. Underway'
  BY DEF IInv, TypeOK, MemTypes, DiskTypes, RestTypes, Underway, AtWork, Kept, Absent,
     Torn, Whole, CleanMeansSaved
<1>9. Unmade'
  BY DEF IInv, TypeOK, MemTypes, DiskTypes, RestTypes, Unmade, Kept, AtWork, Absent,
     Torn, Whole
<1>10. NoMoneyFromCrashes'
  BY DEF IInv, TypeOK, MemTypes, DiskTypes, RestTypes, NoMoneyFromCrashes, Ordered,
     Kept, AtWork, Absent, Torn, Whole, Unmade
<1>11. PaidBeforeHandedOver'
  BY DEF IInv, TypeOK, MemTypes, DiskTypes, RestTypes, PaidBeforeHandedOver, Price,
     Sold, CarsPaid, Kept, AtWork, Absent, Torn, Whole, Unmade, Underway
<1> QED BY <1>1, <1>2, <1>3, <1>4, <1>5, <1>6, <1>7, <1>8, <1>9, <1>10, <1>11 DEF
      IInv, TypeOK

\* The first save of a sale keeps the invariant.
LEMMA CompleteSaleKeeps ==
  ASSUME ConstantsAssumption, IInv, NEW n \in Deals, CompleteSale(n)
  PROVE  IInv'
<1> USE DEF CompleteSale, SavePlayers, Open, Idle, Half, disk, handler, past
<1>1. MemTypes'
  BY DEF IInv, TypeOK, MemTypes, DiskTypes, RestTypes, Contents, Entries
<1>2. DiskTypes'
  BY DEF IInv, TypeOK, MemTypes, DiskTypes, RestTypes, FileStates, Contents, Entries,
     Stages, Torn, Absent, Whole
<1>3. RestTypes'
  BY DEF IInv, TypeOK, MemTypes, DiskTypes, RestTypes, Kinds, ConstantsAssumption
<1>4. AtWork'
  <2>1. kind[n] = "sale" /\ n <= deals
    <3>1. <<n, "lock">> \in mem["vehicles"]
      OBVIOUS
    <3>2. <<n, "lock">>[1] = n
      OBVIOUS
    <3> QED BY <3>1, <3>2 DEF IInv, Unmade
  <2>2. n \in 1 .. deals
    BY <2>1 DEF IInv, TypeOK, RestTypes, ConstantsAssumption
  <2> QED BY <2>1, <2>2 DEF IInv, TypeOK, MemTypes, DiskTypes, RestTypes, AtWork,
        Whole, Absent, Torn, CompleteSale, SavePlayers, Open, Idle, Half, disk,
        handler, past, ConstantsAssumption
<1>5. CleanMeansSaved'
  BY DEF IInv, TypeOK, MemTypes, DiskTypes, RestTypes, CleanMeansSaved, Kept, Whole,
     Absent, Torn, AtWork
<1>6. Ordered'
  BY DEF IInv, TypeOK, MemTypes, DiskTypes, RestTypes, Ordered, Unmade, Underway,
     NoMoneyFromCrashes, Kept
<1>7. CarsPaid'
  BY DEF IInv, TypeOK, MemTypes, DiskTypes, RestTypes, CarsPaid, Price, Sold,
     PaidBeforeHandedOver, Underway, Unmade, Kept, AtWork, CleanMeansSaved, Absent,
     Torn, Whole
<1>8. Underway'
  BY DEF IInv, TypeOK, MemTypes, DiskTypes, RestTypes, Underway, AtWork, Kept, Absent,
     Torn, Whole, CleanMeansSaved
<1>9. Unmade'
  BY DEF IInv, TypeOK, MemTypes, DiskTypes, RestTypes, Unmade, Kept, AtWork, Absent,
     Torn, Whole
<1>10. NoMoneyFromCrashes'
  BY DEF IInv, TypeOK, MemTypes, DiskTypes, RestTypes, NoMoneyFromCrashes, Ordered,
     Kept, AtWork, Absent, Torn, Whole, Unmade
<1>11. PaidBeforeHandedOver'
  BY DEF IInv, TypeOK, MemTypes, DiskTypes, RestTypes, PaidBeforeHandedOver, Price,
     Sold, CarsPaid, Kept, AtWork, Absent, Torn, Whole, Unmade, Underway
<1> QED BY <1>1, <1>2, <1>3, <1>4, <1>5, <1>6, <1>7, <1>8, <1>9, <1>10, <1>11 DEF
      IInv, TypeOK

\* The second save keeps the invariant.
LEMMA SaveOtherKeeps ==
  ASSUME ConstantsAssumption, IInv, SaveOther
  PROVE  IInv'
<1> USE DEF SaveOther, SavePlayers, Open, Half, disk, handler, past
<1>1. MemTypes'
  <2>1. deal \in Deals
    BY DEF IInv, TypeOK, RestTypes, AtWork, ConstantsAssumption
  <2>2. \A p \in {"credit", "debit", "car"} : <<deal, p>> \in Entries
    BY <2>1 DEF Entries
  <2>3. mem' \in [Files -> Contents]
    BY <2>2 DEF IInv, TypeOK, MemTypes, Contents
  <2>4. dirty' \in BOOLEAN
    BY Zenon DEF IInv, TypeOK, MemTypes, SaveOther, SavePlayers, Half, Open
  <2> QED BY <2>3, <2>4 DEF MemTypes
<1>2. DiskTypes'
  BY DEF IInv, TypeOK, MemTypes, DiskTypes, RestTypes, FileStates, Contents, Entries,
     Stages, Torn, Absent, Whole
<1>3. RestTypes'
  BY DEF IInv, TypeOK, MemTypes, DiskTypes, RestTypes, Kinds, ConstantsAssumption
<1>4. AtWork'
  BY DEF IInv, TypeOK, MemTypes, DiskTypes, RestTypes, AtWork, Whole, Absent, Torn
<1>5. CleanMeansSaved'
  BY DEF IInv, TypeOK, MemTypes, DiskTypes, RestTypes, CleanMeansSaved, Kept, Whole,
     Absent, Torn, AtWork
<1>6. Ordered'
  BY DEF IInv, TypeOK, MemTypes, DiskTypes, RestTypes, Ordered, Unmade, Underway,
     NoMoneyFromCrashes, Kept
<1>7. CarsPaid'
  BY DEF IInv, TypeOK, MemTypes, DiskTypes, RestTypes, CarsPaid, Price, Sold,
     PaidBeforeHandedOver, Underway, Unmade, Kept, AtWork, CleanMeansSaved, Absent,
     Torn, Whole
<1>8. Underway'
  BY DEF IInv, TypeOK, MemTypes, DiskTypes, RestTypes, Underway, AtWork, Kept, Absent,
     Torn, Whole, CleanMeansSaved
<1>9. Unmade'
  BY DEF IInv, TypeOK, MemTypes, DiskTypes, RestTypes, Unmade, Kept, AtWork, Absent,
     Torn, Whole
<1>10. NoMoneyFromCrashes'
  BY DEF IInv, TypeOK, MemTypes, DiskTypes, RestTypes, NoMoneyFromCrashes, Ordered,
     Kept, AtWork, Absent, Torn, Whole, Unmade
<1>11. PaidBeforeHandedOver'
  BY DEF IInv, TypeOK, MemTypes, DiskTypes, RestTypes, PaidBeforeHandedOver, Price,
     Sold, CarsPaid, Kept, AtWork, Absent, Torn, Whole, Unmade, Underway
<1> QED BY <1>1, <1>2, <1>3, <1>4, <1>5, <1>6, <1>7, <1>8, <1>9, <1>10, <1>11 DEF
      IInv, TypeOK

\* The car handed over, which relies on both saves before it keeps the invariant.
LEMMA TransferKeeps ==
  ASSUME ConstantsAssumption, IInv, Transfer
  PROVE  IInv'
<1> USE DEF Transfer, SaveVehicles, Open, Locked, Car, disk, handler, past
<1>1. MemTypes'
  <2>1. deal \in Deals
    BY DEF IInv, TypeOK, RestTypes, AtWork, ConstantsAssumption
  <2>2. \A p \in {"credit", "debit", "car"} : <<deal, p>> \in Entries
    BY <2>1 DEF Entries
  <2>3. mem' \in [Files -> Contents]
    BY <2>2 DEF IInv, TypeOK, MemTypes, Contents
  <2>4. dirty' \in BOOLEAN
    BY Zenon DEF IInv, TypeOK, MemTypes, Transfer, SaveVehicles, Locked, Car, Open
  <2> QED BY <2>3, <2>4 DEF MemTypes
<1>2. DiskTypes'
  BY DEF IInv, TypeOK, MemTypes, DiskTypes, RestTypes, FileStates, Contents, Entries,
     Stages, Torn, Absent, Whole
<1>3. RestTypes'
  BY DEF IInv, TypeOK, MemTypes, DiskTypes, RestTypes, Kinds, ConstantsAssumption
<1>4. AtWork'
  BY DEF IInv, TypeOK, MemTypes, DiskTypes, RestTypes, AtWork, Whole, Absent, Torn
<1>5. CleanMeansSaved'
  BY DEF IInv, TypeOK, MemTypes, DiskTypes, RestTypes, CleanMeansSaved, Kept, Whole,
     Absent, Torn, AtWork
<1>6. Ordered'
  BY DEF IInv, TypeOK, MemTypes, DiskTypes, RestTypes, Ordered, Unmade, Underway,
     NoMoneyFromCrashes, Kept
<1>7. CarsPaid'
  BY DEF IInv, TypeOK, MemTypes, DiskTypes, RestTypes, CarsPaid, Price, Sold,
     PaidBeforeHandedOver, Underway, Unmade, Kept, AtWork, CleanMeansSaved, Absent,
     Torn, Whole
<1>8. Underway'
  BY DEF IInv, TypeOK, MemTypes, DiskTypes, RestTypes, Underway, AtWork, Kept, Absent,
     Torn, Whole, CleanMeansSaved
<1>9. Unmade'
  BY DEF IInv, TypeOK, MemTypes, DiskTypes, RestTypes, Unmade, Kept, AtWork, Absent,
     Torn, Whole
<1>10. NoMoneyFromCrashes'
  BY DEF IInv, TypeOK, MemTypes, DiskTypes, RestTypes, NoMoneyFromCrashes, Ordered,
     Kept, AtWork, Absent, Torn, Whole, Unmade
<1>11. PaidBeforeHandedOver'
  BY DEF IInv, TypeOK, MemTypes, DiskTypes, RestTypes, PaidBeforeHandedOver, Price,
     Sold, CarsPaid, Kept, AtWork, Absent, Torn, Whole, Unmade, Underway
<1> QED BY <1>1, <1>2, <1>3, <1>4, <1>5, <1>6, <1>7, <1>8, <1>9, <1>10, <1>11 DEF
      IInv, TypeOK

\* The timed save keeps the invariant.
LEMMA AutosaveKeeps ==
  ASSUME ConstantsAssumption, IInv, Autosave
  PROVE  IInv'
<1> USE DEF Autosave, Open, Idle, disk, handler, past
<1>1. MemTypes'
  BY DEF IInv, TypeOK, MemTypes, DiskTypes, RestTypes, Contents, Entries
<1>2. DiskTypes'
  BY DEF IInv, TypeOK, MemTypes, DiskTypes, RestTypes, FileStates, Contents, Entries,
     Stages, Torn, Absent, Whole
<1>3. RestTypes'
  BY DEF IInv, TypeOK, MemTypes, DiskTypes, RestTypes, Kinds, ConstantsAssumption
<1>4. AtWork'
  BY DEF IInv, TypeOK, MemTypes, DiskTypes, RestTypes, AtWork, Whole, Absent, Torn
<1>5. CleanMeansSaved'
  BY DEF IInv, TypeOK, MemTypes, DiskTypes, RestTypes, CleanMeansSaved, Kept, Whole,
     Absent, Torn, AtWork
<1>6. Ordered'
  BY DEF IInv, TypeOK, MemTypes, DiskTypes, RestTypes, Ordered, Unmade, Underway,
     NoMoneyFromCrashes, Kept
<1>7. CarsPaid'
  BY DEF IInv, TypeOK, MemTypes, DiskTypes, RestTypes, CarsPaid, Price, Sold,
     PaidBeforeHandedOver, Underway, Unmade, Kept, AtWork, CleanMeansSaved, Absent,
     Torn, Whole
<1>8. Underway'
  BY DEF IInv, TypeOK, MemTypes, DiskTypes, RestTypes, Underway, AtWork, Kept, Absent,
     Torn, Whole, CleanMeansSaved
<1>9. Unmade'
  BY DEF IInv, TypeOK, MemTypes, DiskTypes, RestTypes, Unmade, Kept, AtWork, Absent,
     Torn, Whole
<1>10. NoMoneyFromCrashes'
  BY DEF IInv, TypeOK, MemTypes, DiskTypes, RestTypes, NoMoneyFromCrashes, Ordered,
     Kept, AtWork, Absent, Torn, Whole, Unmade
<1>11. PaidBeforeHandedOver'
  BY DEF IInv, TypeOK, MemTypes, DiskTypes, RestTypes, PaidBeforeHandedOver, Price,
     Sold, CarsPaid, Kept, AtWork, Absent, Torn, Whole, Unmade, Underway
<1> QED BY <1>1, <1>2, <1>3, <1>4, <1>5, <1>6, <1>7, <1>8, <1>9, <1>10, <1>11 DEF
      IInv, TypeOK

\* The synced bytes keeps the invariant.
LEMMA SyncKeeps ==
  ASSUME ConstantsAssumption, IInv, Sync
  PROVE  IInv'
<1> USE DEF Sync, disk, handler, past
<1>1. MemTypes'
  BY DEF IInv, TypeOK, MemTypes, DiskTypes, RestTypes, Contents, Entries
<1>2. DiskTypes'
  BY DEF IInv, TypeOK, MemTypes, DiskTypes, RestTypes, FileStates, Contents, Entries,
     Stages, Torn, Absent, Whole
<1>3. RestTypes'
  BY DEF IInv, TypeOK, MemTypes, DiskTypes, RestTypes, Kinds, ConstantsAssumption
<1>4. AtWork'
  BY DEF IInv, TypeOK, MemTypes, DiskTypes, RestTypes, AtWork, Whole, Absent, Torn
<1>5. CleanMeansSaved'
  BY DEF IInv, TypeOK, MemTypes, DiskTypes, RestTypes, CleanMeansSaved, Kept, Whole,
     Absent, Torn, AtWork
<1>6. Ordered'
  BY DEF IInv, TypeOK, MemTypes, DiskTypes, RestTypes, Ordered, Unmade, Underway,
     NoMoneyFromCrashes, Kept
<1>7. CarsPaid'
  BY DEF IInv, TypeOK, MemTypes, DiskTypes, RestTypes, CarsPaid, Price, Sold,
     PaidBeforeHandedOver, Underway, Unmade, Kept, AtWork, CleanMeansSaved, Absent,
     Torn, Whole
<1>8. Underway'
  BY DEF IInv, TypeOK, MemTypes, DiskTypes, RestTypes, Underway, AtWork, Kept, Absent,
     Torn, Whole, CleanMeansSaved
<1>9. Unmade'
  BY DEF IInv, TypeOK, MemTypes, DiskTypes, RestTypes, Unmade, Kept, AtWork, Absent,
     Torn, Whole
<1>10. NoMoneyFromCrashes'
  BY DEF IInv, TypeOK, MemTypes, DiskTypes, RestTypes, NoMoneyFromCrashes, Ordered,
     Kept, AtWork, Absent, Torn, Whole, Unmade
<1>11. PaidBeforeHandedOver'
  BY DEF IInv, TypeOK, MemTypes, DiskTypes, RestTypes, PaidBeforeHandedOver, Price,
     Sold, CarsPaid, Kept, AtWork, Absent, Torn, Whole, Unmade, Underway
<1> QED BY <1>1, <1>2, <1>3, <1>4, <1>5, <1>6, <1>7, <1>8, <1>9, <1>10, <1>11 DEF
      IInv, TypeOK

\* The backup begun keeps the invariant.
LEMMA BeginCopyKeeps ==
  ASSUME ConstantsAssumption, IInv, BeginCopy
  PROVE  IInv'
<1> USE DEF BeginCopy, disk, handler, past
<1>1. MemTypes'
  BY DEF IInv, TypeOK, MemTypes, DiskTypes, RestTypes, Contents, Entries
<1>2. DiskTypes'
  BY DEF IInv, TypeOK, MemTypes, DiskTypes, RestTypes, FileStates, Contents, Entries,
     Stages, Torn, Absent, Whole
<1>3. RestTypes'
  BY DEF IInv, TypeOK, MemTypes, DiskTypes, RestTypes, Kinds, ConstantsAssumption
<1>4. AtWork'
  BY DEF IInv, TypeOK, MemTypes, DiskTypes, RestTypes, AtWork, Whole, Absent, Torn
<1>5. CleanMeansSaved'
  BY DEF IInv, TypeOK, MemTypes, DiskTypes, RestTypes, CleanMeansSaved, Kept, Whole,
     Absent, Torn, AtWork
<1>6. Ordered'
  BY DEF IInv, TypeOK, MemTypes, DiskTypes, RestTypes, Ordered, Unmade, Underway,
     NoMoneyFromCrashes, Kept
<1>7. CarsPaid'
  BY DEF IInv, TypeOK, MemTypes, DiskTypes, RestTypes, CarsPaid, Price, Sold,
     PaidBeforeHandedOver, Underway, Unmade, Kept, AtWork, CleanMeansSaved, Absent,
     Torn, Whole
<1>8. Underway'
  BY DEF IInv, TypeOK, MemTypes, DiskTypes, RestTypes, Underway, AtWork, Kept, Absent,
     Torn, Whole, CleanMeansSaved
<1>9. Unmade'
  BY DEF IInv, TypeOK, MemTypes, DiskTypes, RestTypes, Unmade, Kept, AtWork, Absent,
     Torn, Whole
<1>10. NoMoneyFromCrashes'
  BY DEF IInv, TypeOK, MemTypes, DiskTypes, RestTypes, NoMoneyFromCrashes, Ordered,
     Kept, AtWork, Absent, Torn, Whole, Unmade
<1>11. PaidBeforeHandedOver'
  BY DEF IInv, TypeOK, MemTypes, DiskTypes, RestTypes, PaidBeforeHandedOver, Price,
     Sold, CarsPaid, Kept, AtWork, Absent, Torn, Whole, Unmade, Underway
<1> QED BY <1>1, <1>2, <1>3, <1>4, <1>5, <1>6, <1>7, <1>8, <1>9, <1>10, <1>11 DEF
      IInv, TypeOK

\* The backup finished keeps the invariant.
LEMMA EndCopyKeeps ==
  ASSUME ConstantsAssumption, IInv, EndCopy
  PROVE  IInv'
<1> USE DEF EndCopy, disk, handler, past
<1>1. MemTypes'
  BY DEF IInv, TypeOK, MemTypes, DiskTypes, RestTypes, Contents, Entries
<1>2. DiskTypes'
  BY DEF IInv, TypeOK, MemTypes, DiskTypes, RestTypes, FileStates, Contents, Entries,
     Stages, Torn, Absent, Whole
<1>3. RestTypes'
  BY DEF IInv, TypeOK, MemTypes, DiskTypes, RestTypes, Kinds, ConstantsAssumption
<1>4. AtWork'
  BY DEF IInv, TypeOK, MemTypes, DiskTypes, RestTypes, AtWork, Whole, Absent, Torn
<1>5. CleanMeansSaved'
  BY DEF IInv, TypeOK, MemTypes, DiskTypes, RestTypes, CleanMeansSaved, Kept, Whole,
     Absent, Torn, AtWork
<1>6. Ordered'
  BY DEF IInv, TypeOK, MemTypes, DiskTypes, RestTypes, Ordered, Unmade, Underway,
     NoMoneyFromCrashes, Kept
<1>7. CarsPaid'
  BY DEF IInv, TypeOK, MemTypes, DiskTypes, RestTypes, CarsPaid, Price, Sold,
     PaidBeforeHandedOver, Underway, Unmade, Kept, AtWork, CleanMeansSaved, Absent,
     Torn, Whole
<1>8. Underway'
  BY DEF IInv, TypeOK, MemTypes, DiskTypes, RestTypes, Underway, AtWork, Kept, Absent,
     Torn, Whole, CleanMeansSaved
<1>9. Unmade'
  BY DEF IInv, TypeOK, MemTypes, DiskTypes, RestTypes, Unmade, Kept, AtWork, Absent,
     Torn, Whole
<1>10. NoMoneyFromCrashes'
  BY DEF IInv, TypeOK, MemTypes, DiskTypes, RestTypes, NoMoneyFromCrashes, Ordered,
     Kept, AtWork, Absent, Torn, Whole, Unmade
<1>11. PaidBeforeHandedOver'
  BY DEF IInv, TypeOK, MemTypes, DiskTypes, RestTypes, PaidBeforeHandedOver, Price,
     Sold, CarsPaid, Kept, AtWork, Absent, Torn, Whole, Unmade, Underway
<1> QED BY <1>1, <1>2, <1>3, <1>4, <1>5, <1>6, <1>7, <1>8, <1>9, <1>10, <1>11 DEF
      IInv, TypeOK

\* A backup that fails keeps the invariant.
LEMMA CopyFailsKeeps ==
  ASSUME ConstantsAssumption, IInv, CopyFails
  PROVE  IInv'
<1> USE DEF CopyFails, Fault, disk, handler, past
<1>1. MemTypes'
  BY DEF IInv, TypeOK, MemTypes, DiskTypes, RestTypes, Contents, Entries
<1>2. DiskTypes'
  BY DEF IInv, TypeOK, MemTypes, DiskTypes, RestTypes, FileStates, Contents, Entries,
     Stages, Torn, Absent, Whole
<1>3. RestTypes'
  BY DEF IInv, TypeOK, MemTypes, DiskTypes, RestTypes, Kinds, ConstantsAssumption
<1>4. AtWork'
  BY DEF IInv, TypeOK, MemTypes, DiskTypes, RestTypes, AtWork, Whole, Absent, Torn
<1>5. CleanMeansSaved'
  BY DEF IInv, TypeOK, MemTypes, DiskTypes, RestTypes, CleanMeansSaved, Kept, Whole,
     Absent, Torn, AtWork
<1>6. Ordered'
  BY DEF IInv, TypeOK, MemTypes, DiskTypes, RestTypes, Ordered, Unmade, Underway,
     NoMoneyFromCrashes, Kept
<1>7. CarsPaid'
  BY DEF IInv, TypeOK, MemTypes, DiskTypes, RestTypes, CarsPaid, Price, Sold,
     PaidBeforeHandedOver, Underway, Unmade, Kept, AtWork, CleanMeansSaved, Absent,
     Torn, Whole
<1>8. Underway'
  BY DEF IInv, TypeOK, MemTypes, DiskTypes, RestTypes, Underway, AtWork, Kept, Absent,
     Torn, Whole, CleanMeansSaved
<1>9. Unmade'
  BY DEF IInv, TypeOK, MemTypes, DiskTypes, RestTypes, Unmade, Kept, AtWork, Absent,
     Torn, Whole
<1>10. NoMoneyFromCrashes'
  BY DEF IInv, TypeOK, MemTypes, DiskTypes, RestTypes, NoMoneyFromCrashes, Ordered,
     Kept, AtWork, Absent, Torn, Whole, Unmade
<1>11. PaidBeforeHandedOver'
  BY DEF IInv, TypeOK, MemTypes, DiskTypes, RestTypes, PaidBeforeHandedOver, Price,
     Sold, CarsPaid, Kept, AtWork, Absent, Torn, Whole, Unmade, Underway
<1> QED BY <1>1, <1>2, <1>3, <1>4, <1>5, <1>6, <1>7, <1>8, <1>9, <1>10, <1>11 DEF
      IInv, TypeOK

\* The replacement, which brings memory to the disk keeps the invariant.
LEMMA RenameKeeps ==
  ASSUME ConstantsAssumption, IInv, Rename
  PROVE  IInv'
<1> USE DEF Rename, disk, handler, past
<1>1. MemTypes'
  BY DEF IInv, TypeOK, MemTypes, DiskTypes, RestTypes, Contents, Entries
<1>2. DiskTypes'
  BY DEF IInv, TypeOK, MemTypes, DiskTypes, RestTypes, FileStates, Contents, Entries,
     Stages, Torn, Absent, Whole
<1>3. RestTypes'
  BY DEF IInv, TypeOK, MemTypes, DiskTypes, RestTypes, Kinds, ConstantsAssumption
<1>4. AtWork'
  BY DEF IInv, TypeOK, MemTypes, DiskTypes, RestTypes, AtWork, Whole, Absent, Torn
<1>5. CleanMeansSaved'
  BY DEF IInv, TypeOK, MemTypes, DiskTypes, RestTypes, CleanMeansSaved, Kept, Whole,
     Absent, Torn, AtWork
<1>6. Ordered'
  BY DEF IInv, TypeOK, MemTypes, DiskTypes, RestTypes, Ordered, Unmade, Underway,
     NoMoneyFromCrashes, Kept
<1>7. CarsPaid'
  BY DEF IInv, TypeOK, MemTypes, DiskTypes, RestTypes, CarsPaid, Price, Sold,
     PaidBeforeHandedOver, Underway, Unmade, Kept, AtWork, CleanMeansSaved, Absent,
     Torn, Whole
<1>8. Underway'
  <2>1. up # "down" /\ temp = Whole(mem[file])
    BY DEF IInv, AtWork
  <2>2. Kept("players")' = IF file = "players" THEN mem["players"] ELSE Kept("players")
    BY <2>1 DEF IInv, TypeOK, DiskTypes, Kept, Whole
  <2>3. Kept("players")' \subseteq mem'["players"]
    BY <2>1, <2>2 DEF IInv, Underway
  <2>4. next # "nothing" => file = "players"
    BY DEF IInv, AtWork
  <2> QED BY <2>3, <2>4 DEF IInv, Underway, Rename, handler, past
<1>9. Unmade'
  BY DEF IInv, TypeOK, MemTypes, DiskTypes, RestTypes, Unmade, Kept, AtWork, Absent,
     Torn, Whole
<1>10. NoMoneyFromCrashes'
  BY DEF IInv, TypeOK, MemTypes, DiskTypes, RestTypes, NoMoneyFromCrashes, Ordered,
     Kept, AtWork, Absent, Torn, Whole, Unmade
<1>11. PaidBeforeHandedOver'
  BY DEF IInv, TypeOK, MemTypes, DiskTypes, RestTypes, PaidBeforeHandedOver, Price,
     Sold, CarsPaid, Kept, AtWork, Absent, Torn, Whole, Unmade, Underway
<1> QED BY <1>1, <1>2, <1>3, <1>4, <1>5, <1>6, <1>7, <1>8, <1>9, <1>10, <1>11 DEF
      IInv, TypeOK

\* A write that fails keeps the invariant.
LEMMA ReplaceFailsKeeps ==
  ASSUME ConstantsAssumption, IInv, ReplaceFails
  PROVE  IInv'
<1> USE DEF ReplaceFails, Fault, disk, handler, past
<1>1. MemTypes'
  BY DEF IInv, TypeOK, MemTypes, DiskTypes, RestTypes, Contents, Entries
<1>2. DiskTypes'
  BY DEF IInv, TypeOK, MemTypes, DiskTypes, RestTypes, FileStates, Contents, Entries,
     Stages, Torn, Absent, Whole
<1>3. RestTypes'
  BY DEF IInv, TypeOK, MemTypes, DiskTypes, RestTypes, Kinds, ConstantsAssumption
<1>4. AtWork'
  BY DEF IInv, TypeOK, MemTypes, DiskTypes, RestTypes, AtWork, Whole, Absent, Torn
<1>5. CleanMeansSaved'
  BY DEF IInv, TypeOK, MemTypes, DiskTypes, RestTypes, CleanMeansSaved, Kept, Whole,
     Absent, Torn, AtWork
<1>6. Ordered'
  BY DEF IInv, TypeOK, MemTypes, DiskTypes, RestTypes, Ordered, Unmade, Underway,
     NoMoneyFromCrashes, Kept
<1>7. CarsPaid'
  BY DEF IInv, TypeOK, MemTypes, DiskTypes, RestTypes, CarsPaid, Price, Sold,
     PaidBeforeHandedOver, Underway, Unmade, Kept, AtWork, CleanMeansSaved, Absent,
     Torn, Whole
<1>8. Underway'
  BY DEF IInv, TypeOK, MemTypes, DiskTypes, RestTypes, Underway, AtWork, Kept, Absent,
     Torn, Whole, CleanMeansSaved
<1>9. Unmade'
  BY DEF IInv, TypeOK, MemTypes, DiskTypes, RestTypes, Unmade, Kept, AtWork, Absent,
     Torn, Whole
<1>10. NoMoneyFromCrashes'
  BY DEF IInv, TypeOK, MemTypes, DiskTypes, RestTypes, NoMoneyFromCrashes, Ordered,
     Kept, AtWork, Absent, Torn, Whole, Unmade
<1>11. PaidBeforeHandedOver'
  BY DEF IInv, TypeOK, MemTypes, DiskTypes, RestTypes, PaidBeforeHandedOver, Price,
     Sold, CarsPaid, Kept, AtWork, Absent, Torn, Whole, Unmade, Underway
<1> QED BY <1>1, <1>2, <1>3, <1>4, <1>5, <1>6, <1>7, <1>8, <1>9, <1>10, <1>11 DEF
      IInv, TypeOK

\* A start, which brings the disk to memory keeps the invariant.
LEMMA BootKeeps ==
  ASSUME ConstantsAssumption, IInv, Boot
  PROVE  IInv'
<1> USE DEF Boot, Open, Locks, disk, handler, past
<1>1. MemTypes'
  <2>1. \A f \in Files : Kept(f) \in Contents
    BY DEF IInv, TypeOK, DiskTypes, FileStates, Kept
  <2>2. mem' \in [Files -> Contents]
    BY <2>1 DEF Contents
  <2>3. dirty' \in BOOLEAN
    BY Zenon DEF IInv, TypeOK, MemTypes, Boot
  <2> QED BY <2>2, <2>3 DEF MemTypes
<1>2. DiskTypes'
  BY DEF IInv, TypeOK, MemTypes, DiskTypes, RestTypes, FileStates, Contents, Entries,
     Stages, Torn, Absent, Whole
<1>3. RestTypes'
  BY DEF IInv, TypeOK, MemTypes, DiskTypes, RestTypes, Kinds, ConstantsAssumption
<1>4. AtWork'
  BY DEF IInv, TypeOK, MemTypes, DiskTypes, RestTypes, AtWork, Whole, Absent, Torn
<1>5. CleanMeansSaved'
  BY DEF IInv, TypeOK, MemTypes, DiskTypes, RestTypes, CleanMeansSaved, Kept, Whole,
     Absent, Torn, AtWork
<1>6. Ordered'
  BY DEF IInv, TypeOK, MemTypes, DiskTypes, RestTypes, Ordered, Unmade, Underway,
     NoMoneyFromCrashes, Kept
<1>7. CarsPaid'
  BY DEF IInv, TypeOK, MemTypes, DiskTypes, RestTypes, CarsPaid, Price, Sold,
     PaidBeforeHandedOver, Underway, Unmade, Kept, AtWork, CleanMeansSaved, Absent,
     Torn, Whole
<1>8. Underway'
  BY DEF IInv, TypeOK, MemTypes, DiskTypes, RestTypes, Underway, AtWork, Kept, Absent,
     Torn, Whole, CleanMeansSaved
<1>9. Unmade'
  BY DEF IInv, TypeOK, MemTypes, DiskTypes, RestTypes, Unmade, Kept, AtWork, Absent,
     Torn, Whole
<1>10. NoMoneyFromCrashes'
  BY DEF IInv, TypeOK, MemTypes, DiskTypes, RestTypes, NoMoneyFromCrashes, Ordered,
     Kept, AtWork, Absent, Torn, Whole, Unmade
<1>11. PaidBeforeHandedOver'
  BY DEF IInv, TypeOK, MemTypes, DiskTypes, RestTypes, PaidBeforeHandedOver, Price,
     Sold, CarsPaid, Kept, AtWork, Absent, Torn, Whole, Unmade, Underway
<1> QED BY <1>1, <1>2, <1>3, <1>4, <1>5, <1>6, <1>7, <1>8, <1>9, <1>10, <1>11 DEF
      IInv, TypeOK

\* A stop keeps the invariant.
LEMMA StopKeeps ==
  ASSUME ConstantsAssumption, IInv, Stop
  PROVE  IInv'
<1> USE DEF Stop, Open, Idle, disk, handler, past
<1>1. MemTypes'
  BY DEF IInv, TypeOK, MemTypes, DiskTypes, RestTypes, Contents, Entries
<1>2. DiskTypes'
  BY DEF IInv, TypeOK, MemTypes, DiskTypes, RestTypes, FileStates, Contents, Entries,
     Stages, Torn, Absent, Whole
<1>3. RestTypes'
  BY DEF IInv, TypeOK, MemTypes, DiskTypes, RestTypes, Kinds, ConstantsAssumption
<1>4. AtWork'
  BY DEF IInv, TypeOK, MemTypes, DiskTypes, RestTypes, AtWork, Whole, Absent, Torn
<1>5. CleanMeansSaved'
  BY DEF IInv, TypeOK, MemTypes, DiskTypes, RestTypes, CleanMeansSaved, Kept, Whole,
     Absent, Torn, AtWork
<1>6. Ordered'
  BY DEF IInv, TypeOK, MemTypes, DiskTypes, RestTypes, Ordered, Unmade, Underway,
     NoMoneyFromCrashes, Kept
<1>7. CarsPaid'
  BY DEF IInv, TypeOK, MemTypes, DiskTypes, RestTypes, CarsPaid, Price, Sold,
     PaidBeforeHandedOver, Underway, Unmade, Kept, AtWork, CleanMeansSaved, Absent,
     Torn, Whole
<1>8. Underway'
  BY DEF IInv, TypeOK, MemTypes, DiskTypes, RestTypes, Underway, AtWork, Kept, Absent,
     Torn, Whole, CleanMeansSaved
<1>9. Unmade'
  BY DEF IInv, TypeOK, MemTypes, DiskTypes, RestTypes, Unmade, Kept, AtWork, Absent,
     Torn, Whole
<1>10. NoMoneyFromCrashes'
  BY DEF IInv, TypeOK, MemTypes, DiskTypes, RestTypes, NoMoneyFromCrashes, Ordered,
     Kept, AtWork, Absent, Torn, Whole, Unmade
<1>11. PaidBeforeHandedOver'
  BY DEF IInv, TypeOK, MemTypes, DiskTypes, RestTypes, PaidBeforeHandedOver, Price,
     Sold, CarsPaid, Kept, AtWork, Absent, Torn, Whole, Unmade, Underway
<1> QED BY <1>1, <1>2, <1>3, <1>4, <1>5, <1>6, <1>7, <1>8, <1>9, <1>10, <1>11 DEF
      IInv, TypeOK

\* The end of a stop keeps the invariant.
LEMMA ExitKeeps ==
  ASSUME ConstantsAssumption, IInv, Exit
  PROVE  IInv'
<1> USE DEF Exit, Gone, disk, handler, past
<1>1. MemTypes'
  BY DEF IInv, TypeOK, MemTypes, DiskTypes, RestTypes, Contents, Entries
<1>2. DiskTypes'
  BY DEF IInv, TypeOK, MemTypes, DiskTypes, RestTypes, FileStates, Contents, Entries,
     Stages, Torn, Absent, Whole
<1>3. RestTypes'
  BY DEF IInv, TypeOK, MemTypes, DiskTypes, RestTypes, Kinds, ConstantsAssumption
<1>4. AtWork'
  BY DEF IInv, TypeOK, MemTypes, DiskTypes, RestTypes, AtWork, Whole, Absent, Torn
<1>5. CleanMeansSaved'
  BY DEF IInv, TypeOK, MemTypes, DiskTypes, RestTypes, CleanMeansSaved, Kept, Whole,
     Absent, Torn, AtWork
<1>6. Ordered'
  BY DEF IInv, TypeOK, MemTypes, DiskTypes, RestTypes, Ordered, Unmade, Underway,
     NoMoneyFromCrashes, Kept
<1>7. CarsPaid'
  BY DEF IInv, TypeOK, MemTypes, DiskTypes, RestTypes, CarsPaid, Price, Sold,
     PaidBeforeHandedOver, Underway, Unmade, Kept, AtWork, CleanMeansSaved, Absent,
     Torn, Whole
<1>8. Underway'
  BY DEF IInv, TypeOK, MemTypes, DiskTypes, RestTypes, Underway, AtWork, Kept, Absent,
     Torn, Whole, CleanMeansSaved
<1>9. Unmade'
  BY DEF IInv, TypeOK, MemTypes, DiskTypes, RestTypes, Unmade, Kept, AtWork, Absent,
     Torn, Whole
<1>10. NoMoneyFromCrashes'
  BY DEF IInv, TypeOK, MemTypes, DiskTypes, RestTypes, NoMoneyFromCrashes, Ordered,
     Kept, AtWork, Absent, Torn, Whole, Unmade
<1>11. PaidBeforeHandedOver'
  BY DEF IInv, TypeOK, MemTypes, DiskTypes, RestTypes, PaidBeforeHandedOver, Price,
     Sold, CarsPaid, Kept, AtWork, Absent, Torn, Whole, Unmade, Underway
<1> QED BY <1>1, <1>2, <1>3, <1>4, <1>5, <1>6, <1>7, <1>8, <1>9, <1>10, <1>11 DEF
      IInv, TypeOK

\* A crash keeps the invariant.
LEMMA CrashKeeps ==
  ASSUME ConstantsAssumption, IInv, Crash
  PROVE  IInv'
<1> USE DEF Crash, Gone, disk, handler, past
<1>1. MemTypes'
  BY DEF IInv, TypeOK, MemTypes, DiskTypes, RestTypes, Contents, Entries
<1>2. DiskTypes'
  BY DEF IInv, TypeOK, MemTypes, DiskTypes, RestTypes, FileStates, Contents, Entries,
     Stages, Torn, Absent, Whole
<1>3. RestTypes'
  BY DEF IInv, TypeOK, MemTypes, DiskTypes, RestTypes, Kinds, ConstantsAssumption
<1>4. AtWork'
  BY DEF IInv, TypeOK, MemTypes, DiskTypes, RestTypes, AtWork, Whole, Absent, Torn
<1>5. CleanMeansSaved'
  BY DEF IInv, TypeOK, MemTypes, DiskTypes, RestTypes, CleanMeansSaved, Kept, Whole,
     Absent, Torn, AtWork
<1>6. Ordered'
  BY DEF IInv, TypeOK, MemTypes, DiskTypes, RestTypes, Ordered, Unmade, Underway,
     NoMoneyFromCrashes, Kept
<1>7. CarsPaid'
  BY DEF IInv, TypeOK, MemTypes, DiskTypes, RestTypes, CarsPaid, Price, Sold,
     PaidBeforeHandedOver, Underway, Unmade, Kept, AtWork, CleanMeansSaved, Absent,
     Torn, Whole
<1>8. Underway'
  BY DEF IInv, TypeOK, MemTypes, DiskTypes, RestTypes, Underway, AtWork, Kept, Absent,
     Torn, Whole, CleanMeansSaved
<1>9. Unmade'
  BY DEF IInv, TypeOK, MemTypes, DiskTypes, RestTypes, Unmade, Kept, AtWork, Absent,
     Torn, Whole
<1>10. NoMoneyFromCrashes'
  BY DEF IInv, TypeOK, MemTypes, DiskTypes, RestTypes, NoMoneyFromCrashes, Ordered,
     Kept, AtWork, Absent, Torn, Whole, Unmade
<1>11. PaidBeforeHandedOver'
  BY DEF IInv, TypeOK, MemTypes, DiskTypes, RestTypes, PaidBeforeHandedOver, Price,
     Sold, CarsPaid, Kept, AtWork, Absent, Torn, Whole, Unmade, Underway
<1> QED BY <1>1, <1>2, <1>3, <1>4, <1>5, <1>6, <1>7, <1>8, <1>9, <1>10, <1>11 DEF
      IInv, TypeOK

\* An empty disk.
LEMMA InitIInv == ASSUME ConstantsAssumption, Init PROVE IInv
<1>1. MemTypes /\ DiskTypes
  BY DEF Init, MemTypes, DiskTypes, Contents, FileStates, Absent, Stages
<1>a. RestTypes
  BY DEF Init, RestTypes, Kinds, ConstantsAssumption
<1>2. AtWork /\ CleanMeansSaved /\ Ordered /\ CarsPaid /\ Underway
  BY DEF Init, AtWork, CleanMeansSaved, Ordered, CarsPaid, Underway, Kept, Absent
<1>3. Unmade
  BY DEF Init, Unmade, Kept, Absent
<1>4. NoMoneyFromCrashes /\ PaidBeforeHandedOver
  BY DEF Init, NoMoneyFromCrashes, PaidBeforeHandedOver, Sold, Kept, Absent, Torn
<1> QED BY <1>1, <1>a, <1>2, <1>3, <1>4 DEF IInv, TypeOK

\* Steps that change nothing.
LEMMA StutterKeeps == ASSUME IInv, UNCHANGED vars PROVE IInv'
<1>1. TypeOK'
  BY DEF vars, disk, handler, past, IInv, TypeOK, MemTypes, DiskTypes, RestTypes
<1>2. AtWork' /\ CleanMeansSaved' /\ Ordered' /\ CarsPaid' /\ Underway' /\ Unmade'
  BY DEF vars, disk, handler, past, IInv, AtWork, CleanMeansSaved, Ordered, CarsPaid,
     Underway,
         Unmade, Kept
<1>3. NoMoneyFromCrashes' /\ PaidBeforeHandedOver'
  BY DEF vars, disk, past, IInv, NoMoneyFromCrashes, PaidBeforeHandedOver, Sold, Kept
<1> QED BY <1>1, <1>2, <1>3 DEF IInv

\* Every step keeps the invariant.
LEMMA StepKeeps == ASSUME ConstantsAssumption, IInv, [Next]_vars PROVE IInv'
<1>1. CASE \E n \in Deals : Begin(n)
  <2>1. PICK n \in Deals : Begin(n)
    BY <1>1
  <2> QED BY <2>1, NoteKeeps, PayKeeps, ApplyTradeKeeps, CreateKeeps, OfferKeeps,
        UnlockKeeps,
             CompleteSaleKeeps DEF Begin
<1>2. CASE Continue \/ Autosave
  BY <1>2, SaveOtherKeeps, TransferKeeps, AutosaveKeeps DEF Continue
<1>3. CASE Write
  BY <1>3, SyncKeeps, BeginCopyKeeps, EndCopyKeeps, CopyFailsKeeps, RenameKeeps,
     ReplaceFailsKeeps DEF Write
<1>4. CASE Boot \/ Stop \/ Exit \/ Crash
  BY <1>4, BootKeeps, StopKeeps, ExitKeeps, CrashKeeps
<1>5. CASE UNCHANGED vars
  BY <1>5, StutterKeeps
<1> QED BY <1>1, <1>2, <1>3, <1>4, <1>5 DEF Next

\* Wherever the server dies and whichever writes fail: no file is torn, no
\* money is on the disk that left nobody, a clean store is what its file
\* says, and without failures a sold car is on the disk only when paid.
THEOREM CrashesMakeNothing == Spec => []IInv
<1>1. Init => IInv
  BY InitIInv, ConstantsAssumption
<1>2. IInv /\ [Next]_vars => IInv'
  BY StepKeeps, ConstantsAssumption
<1> QED BY <1>1, <1>2, PTL DEF Spec

\* Wherever the server dies and whichever writes fail, every file is whole,
\* what somebody was paid on the disk has left somebody else there, and a
\* trade is on the disk for both sides or for neither.
THEOREM NoCrashMakesMoney == Spec => []NoMoneyFromCrashes
<1>1. IInv => NoMoneyFromCrashes
  BY DEF IInv
<1> QED BY <1>1, CrashesMakeNothing, PTL

\* A live file is replaced whole and by what the running server holds, its
\* old contents being in the backup unless that could not be written.
THEOREM FilesAreReplacedWhole == Spec => ReplacedWhole
<1>1. ASSUME IInv, [Next]_vars PROVE [Replaced]_vars
  <2>1. CASE Rename
    BY <1>1, <2>1 DEF IInv, AtWork, TypeOK, DiskTypes, Rename, Replaced
  <2>2. CASE live' = live
    BY <2>2 DEF Replaced
  <2>3. CASE UNCHANGED vars
    BY <2>3
  <2>4. Next => Rename \/ live' = live
    BY DEF Next, Begin, Continue, Write, Note, Pay, ApplyTrade, Create, Offer, Unlock,
           CompleteSale, SaveOther, Transfer, Autosave, Sync, BeginCopy, EndCopy, CopyFails,
           ReplaceFails, Boot, Stop, Exit, Crash, Deal, SavePlayers, SaveVehicles, Open, disk
  <2> QED BY <1>1, <2>1, <2>2, <2>3, <2>4
<1>2. IInv /\ [Next]_vars => [Replaced]_vars
  BY <1>1
<1>3. Spec => []IInv
  BY CrashesMakeNothing
<1> QED BY <1>2, <1>3, PTL DEF Spec, ReplacedWhole

\* Changing what one store holds is working on one book.
LEMMA StoreChanges ==
  ASSUME IInv, IInv', NEW f \in Files, up = "up", up' = "up", UNCHANGED live,
         \A g \in Files \ {f} : mem'[g] = mem[g]
  PROVE  Books!Work(f)
<1>1. Work = mem /\ Work' = mem' /\ OnDisk' = OnDisk
  BY DEF Work, OnDisk, Kept
<1>2. mem'[f] \subseteq Entries
  BY DEF IInv, TypeOK, MemTypes, Contents
<1>3. mem' = [mem EXCEPT ![f] = mem'[f]]
  BY DEF IInv, TypeOK, MemTypes
<1> QED BY <1>1, <1>2, <1>3 DEF Books!Work

\* Every step is one of the books' or none of theirs.
LEMMA StepOfBooks ==
  ASSUME IInv, IInv', [Next]_vars
  PROVE  Books!Next \/ UNCHANGED <<Work, OnDisk>>
<1>1. ASSUME NEW n \in Deals, Begin(n) PROVE Books!Next
  <2>1. \E f \in Files : \A g \in Files \ {f} : mem'[g] = mem[g]
    BY <1>1 DEF IInv, TypeOK, MemTypes, Begin, Note, Pay, ApplyTrade, Create, Offer,
       Unlock,
                CompleteSale, Deal, SavePlayers, SaveVehicles
  <2>2. up = "up" /\ up' = "up" /\ UNCHANGED live
    BY <1>1 DEF Begin, Note, Pay, ApplyTrade, Create, Offer, Unlock, CompleteSale, Deal,
                SavePlayers, SaveVehicles, Idle, Open
  <2> QED BY <2>1, <2>2, StoreChanges DEF Books!Next
<1>2. CASE Continue
  <2>1. \E f \in Files : \A g \in Files \ {f} : mem'[g] = mem[g]
    BY <1>2 DEF IInv, TypeOK, MemTypes, Continue, SaveOther, Transfer, SavePlayers,
       SaveVehicles
  <2>2. up = "up" /\ up' = "up" /\ UNCHANGED live
    BY <1>2 DEF Continue, SaveOther, Transfer, SavePlayers, SaveVehicles, Open
  <2> QED BY <2>1, <2>2, StoreChanges DEF Books!Next
<1>3. CASE Autosave \/ Sync \/ BeginCopy \/ EndCopy \/ CopyFails \/ ReplaceFails
  BY <1>3 DEF Autosave, Sync, BeginCopy, EndCopy, CopyFails, ReplaceFails, Open, Work,
     OnDisk, Kept
<1>4. CASE Rename
  <2>1. up # "down" /\ up' # "down" /\ temp = Whole(mem[file]) /\ file \in Files
    BY <1>4 DEF IInv, TypeOK, DiskTypes, AtWork, Rename
  <2>2. Work = mem /\ Work' = Work
    BY <1>4, <2>1 DEF Work, Rename
  <2>3. OnDisk' = [OnDisk EXCEPT ![file] = mem[file]]
    BY <1>4, <2>1 DEF IInv, TypeOK, DiskTypes, OnDisk, Kept, Rename, Whole
  <2> QED BY <2>1, <2>2, <2>3 DEF Books!Next, Books!Keep
<1>5. CASE Boot
  <2>1. Work = OnDisk /\ OnDisk' = OnDisk /\ Work' = mem'
    BY <1>5 DEF Boot, Work, OnDisk, Kept, Open, disk
  <2>2. mem' = [OnDisk EXCEPT !["vehicles"] = mem'["vehicles"]]
    BY <1>5 DEF Boot, OnDisk
  <2>3. mem'["vehicles"] \subseteq Entries
    BY DEF IInv, TypeOK, MemTypes, Contents
  <2> QED BY <2>1, <2>2, <2>3 DEF Books!Next, Books!Work
<1>6. CASE Stop
  BY <1>6 DEF Stop, Idle, Open, disk, Work, OnDisk, Kept
<1>7. CASE Exit \/ Crash
  BY <1>7 DEF Exit, Crash, Gone, disk, Work, OnDisk, Kept, Books!Next, Books!Fall
<1>8. CASE UNCHANGED vars
  BY <1>8 DEF vars, disk, Work, OnDisk, Kept
<1> QED BY <1>1, <1>2, <1>3, <1>4, <1>5, <1>6, <1>7, <1>8 DEF Next, Write

\* The two files under crashes and failures are books kept whole: a restart
\* finds what was last kept of each, which the server once held.
THEOREM SavesImplementBooks == Spec => ImplementsBooks
<1>1. Init => Books!Init
  BY DEF Init, Books!Init, Work, OnDisk, Kept, Absent
<1>2. IInv /\ IInv' /\ [Next]_vars => [Books!Next]_(Books!vars)
  BY StepOfBooks DEF Books!vars
<1>3. Spec => []IInv
  BY CrashesMakeNothing
<1> QED BY <1>1, <1>2, <1>3, PTL DEF Spec, ImplementsBooks, Books!Spec

=============================================================================
