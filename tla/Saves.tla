------------------------------- MODULE Saves -------------------------------
(***************************************************************************)
(* What is on the disk: AtomicWrite::Replace, the two stores that hold     *)
(* everything worth stealing (PlayerStore, VehicleStore), and the handlers *)
(* that write to one of them more than once, with the server dying between *)
(* any two steps of any write and writes that fail.                        *)
(*                                                                         *)
(* A balance is abstracted to the movements it reflects: deal n's debit,   *)
(* its credit, the car it handed over, its lock on that car, or a note     *)
(* (a position, a name, a look).  A file's contents are a set of such      *)
(* entries.  Refusals write nothing and are left out, but for those of a   *)
(* sale, which unlock.  Handlers run to their end on one thread, so at     *)
(* most one file is being written.                                         *)
(***************************************************************************)
EXTENDS Naturals, FiniteSets

CONSTANTS
  MaxDeals,      \* bound: deals and notes ever made
  MaxFaults,     \* bound: steps of a write that fail
  MaxCrashes     \* bound: times the server dies or is stopped

Deals == 1 .. MaxDeals
Files == {"players", "vehicles"}
Entries == Deals \X {"note", "debit", "credit", "lock", "car"}

ASSUME ConstantsAssumption ==
  /\ MaxDeals \in Nat /\ MaxFaults \in Nat /\ MaxCrashes \in Nat

Contents == SUBSET Entries

\* A file, and what reading it gives.
FileStates == [is : {"absent", "torn", "whole"}, has : Contents]
Absent == [is |-> "absent", has |-> {}]
Torn == [is |-> "torn", has |-> {}]
Whole(S) == [is |-> "whole", has |-> S]

Stages == {"none", "opened", "synced", "copying", "copied"}

Kinds == {"none", "note", "pay", "trade", "sale", "gift"}

VARIABLES
  up,        \* "down", "up", or "stopping": the last write before the process goes
  mem,       \* m_records and m_vehicles
  dirty,     \* PlayerStore::m_dirty
  live, bak, \* per file, the file itself and its .bak
  temp,      \* the temporary file of the write under way
  stage,     \* how far that write is
  file,      \* and which file it replaces
  next,      \* what the handler under way does when its write has returned
  deal,      \* and the deal it is about
  kind,      \* history: what each deal was
  deals, faults, crashes   \* history: how many there were

disk == <<live, bak, temp, stage, file>>
handler == <<next, deal>>
past == <<kind, deals, faults, crashes>>
vars == <<up, mem, dirty, disk, handler, past>>

Init ==
  /\ up = "down"
  /\ mem = [f \in Files |-> {}] /\ dirty = FALSE
  /\ live = [f \in Files |-> Absent] /\ bak = [f \in Files |-> Absent]
  /\ temp = Absent /\ stage = "none" /\ file = "players"
  /\ next = "nothing" /\ deal = 0
  /\ kind = [n \in Deals |-> "none"]
  /\ deals = 0 /\ faults = 0 /\ crashes = 0

-----------------------------------------------------------------------------
(* AtomicWrite::Replace, one step per thing a crash can come before.        *)

\* Wrong on purpose: the live file is opened, which truncates it.
OpenInPlace(f) ==
  /\ stage = "none"
  /\ stage' = "opened" /\ file' = f /\ temp' = Torn
  /\ live' = [live EXCEPT ![f] = Torn]
  /\ UNCHANGED bak

\* WriteAndSync opens a temporary file of its own and starts writing.
Open(f) ==
  /\ stage = "none"
  /\ stage' = "opened" /\ file' = f /\ temp' = Torn
  /\ UNCHANGED <<live, bak>>

\* Wrong on purpose: the bytes are taken to be there without the sync.
UnsyncedWrite ==
  /\ stage = "opened"
  /\ stage' = "synced"
  /\ UNCHANGED <<up, mem, dirty, live, bak, temp, file, handler, past>>

\* The bytes are on the disk.
Sync ==
  /\ stage = "opened"
  /\ stage' = "synced" /\ temp' = Whole(mem[file])
  /\ UNCHANGED <<up, mem, dirty, live, bak, file, handler, past>>

\* The copy of the live file over the backup, if there is a live file.
BeginCopy ==
  /\ stage = "synced"
  /\ IF live[file] = Absent
       THEN stage' = "copied" /\ UNCHANGED bak
       ELSE stage' = "copying" /\ bak' = [bak EXCEPT ![file] = Torn]
  /\ UNCHANGED <<up, mem, dirty, live, temp, file, handler, past>>

EndCopy ==
  /\ stage = "copying"
  /\ stage' = "copied" /\ bak' = [bak EXCEPT ![file] = live[file]]
  /\ UNCHANGED <<up, mem, dirty, live, temp, file, handler, past>>

Fault == faults < MaxFaults /\ faults' = faults + 1 /\ UNCHANGED <<kind, deals, crashes>>

\* A backup that cannot be written fails nothing.
CopyFails ==
  /\ Fault
  /\ stage = "copying"
  /\ stage' = "copied"
  /\ UNCHANGED <<up, mem, dirty, live, bak, temp, file, handler>>

\* The store's save returns: m_dirty is cleared on success, and only there.
Rename ==
  /\ stage = "copied"
  /\ live' = [live EXCEPT ![file] = temp]
  /\ temp' = Absent /\ stage' = "none"
  /\ dirty' = (dirty /\ file # "players")
  /\ UNCHANGED <<up, mem, bak, file, handler, past>>

\* Wrong on purpose: the store believes it has been saved.
FailsClean ==
  /\ Fault
  /\ stage \in {"opened", "copied"}
  /\ temp' = Absent /\ stage' = "none"
  /\ dirty' = (dirty /\ file # "players")
  /\ UNCHANGED <<up, mem, live, bak, file, handler>>

\* WriteAndSync or the rename fails: the temporary file is removed.
ReplaceFails ==
  /\ Fault
  /\ stage \in {"opened", "copied"}
  /\ temp' = Absent /\ stage' = "none"
  /\ UNCHANGED <<up, mem, dirty, live, bak, file, handler>>

Write == Sync \/ BeginCopy \/ EndCopy \/ CopyFails \/ Rename \/ ReplaceFails

-----------------------------------------------------------------------------
(* The stores.                                                              *)

\* SaveCharacter, ApplyTrade, Remember and then Flush: the file is never
\* clean by the time it is asked for.
SavePlayers(S) ==
  /\ mem' = [mem EXCEPT !["players"] = @ \cup S]
  /\ dirty' = TRUE
  /\ Open("players")

\* Create, Lock, Unlock and Transfer, and the Save each of them ends with.
SaveVehicles(gone, S) ==
  /\ mem' = [mem EXCEPT !["vehicles"] = (@ \ gone) \cup S]
  /\ Open("vehicles")
  /\ UNCHANGED dirty

Idle == up = "up" /\ stage = "none" /\ next = "nothing"

\* Wrong on purpose: who receives is saved first.
OtherHalf(n, i) == {<<n, IF i = 1 THEN "credit" ELSE "debit">>}

\* Who pays is saved first and who receives second.
Half(n, i) == {<<n, IF i = 1 THEN "debit" ELSE "credit">>}

Locked(n) == {<<n, "lock">>}
Car(n) == {<<n, "car">>}

\* A new deal of kind k begins its handler, which goes on with step s.
Deal(n, k, s) ==
  /\ Idle
  /\ n = deals + 1 /\ n \in Deals
  /\ deals' = n /\ kind' = [kind EXCEPT ![n] = k]
  /\ next' = s /\ deal' = n
  /\ UNCHANGED <<up, faults, crashes>>

\* SavePlayerPositions while somebody is connected, a disconnect, and every
\* handler that saves one character once.
Note(n) == Deal(n, "note", "nothing") /\ SavePlayers({<<n, "note">>})

\* /pay: the sender's record is saved first.
Pay(n) == Deal(n, "pay", "credit") /\ SavePlayers(Half(n, 1))

\* ApplyTrade: both records, then one Flush.
ApplyTrade(n) == Deal(n, "trade", "nothing") /\ SavePlayers(Half(n, 1) \cup Half(n, 2))

\* /givecar.
Create(n) == Deal(n, "gift", "nothing") /\ SaveVehicles({}, Car(n))

\* /sellcar locks the car.
Offer(n) == Deal(n, "sale", "nothing") /\ SaveVehicles({}, Locked(n))

\* /buycar that is refused, and /declinecar.
Unlock(n) ==
  /\ Idle
  /\ <<n, "lock">> \in mem["vehicles"]
  /\ SaveVehicles(Locked(n), {})
  /\ UNCHANGED <<up, handler, past>>

\* Wrong on purpose: the seller is not saved.
SellerForgotten(n) ==
  /\ Idle
  /\ <<n, "lock">> \in mem["vehicles"]
  /\ next' = "transfer" /\ deal' = n
  /\ SavePlayers(Half(n, 1))
  /\ UNCHANGED <<up, past>>

\* /buycar, CompleteSale: the buyer's record, the seller's, then the car.
CompleteSale(n) ==
  /\ Idle
  /\ <<n, "lock">> \in mem["vehicles"]
  /\ next' = "credit" /\ deal' = n
  /\ SavePlayers(Half(n, 1))
  /\ UNCHANGED <<up, past>>

\* The handler goes on, whatever came of its last write.
SaveOther ==
  /\ up = "up" /\ stage = "none" /\ next = "credit"
  /\ next' = IF kind[deal] = "sale" THEN "transfer" ELSE "nothing"
  /\ SavePlayers(Half(deal, 2))
  /\ UNCHANGED <<up, deal, past>>

Transfer ==
  /\ up = "up" /\ stage = "none" /\ next = "transfer"
  /\ next' = "nothing"
  /\ SaveVehicles(Locked(deal), Car(deal))
  /\ UNCHANGED <<up, deal, past>>

\* The timed Flush with nobody to remember: it retries what failed.
Autosave ==
  /\ Idle /\ dirty
  /\ Open("players")
  /\ UNCHANGED <<up, mem, dirty, handler, past>>

-----------------------------------------------------------------------------
(* Starts and ends.                                                         *)

\* What reading a file gives; one that is missing or torn gives nothing.
Kept(f) == live[f].has

Locks == Deals \X {"lock"}

\* The constructor loads both stores.  A lock in the file is of a sale no
\* longer pending; a file of vehicles that is missing is written at once.  (The
\* write that gives ids to characters from before there were any is left out.)
Boot ==
  /\ up = "down"
  /\ up' = "up"
  /\ mem' = [f \in Files |-> IF f = "vehicles" THEN Kept(f) \ Locks ELSE Kept(f)]
  /\ IF live["vehicles"] = Absent \/ Kept("vehicles") \cap Locks # {}
       THEN Open("vehicles")
       ELSE UNCHANGED disk
  /\ UNCHANGED <<dirty, handler, past>>

Gone ==
  /\ up' = "down"
  /\ mem' = [f \in Files |-> {}] /\ dirty' = FALSE
  /\ next' = "nothing" /\ deal' = 0

\* ~GameServer: one last Flush.
Stop ==
  /\ Idle /\ crashes < MaxCrashes
  /\ up' = "stopping" /\ crashes' = crashes + 1
  /\ IF dirty THEN Open("players") ELSE UNCHANGED disk
  /\ UNCHANGED <<mem, dirty, handler, kind, deals, faults>>

Exit ==
  /\ up = "stopping" /\ stage = "none"
  /\ Gone
  /\ UNCHANGED <<disk, past>>

\* Between any two steps.  A temporary file left behind has a name nothing
\* will ever read.
Crash ==
  /\ up # "down" /\ crashes < MaxCrashes
  /\ crashes' = crashes + 1
  /\ Gone
  /\ temp' = Absent /\ stage' = "none"
  /\ UNCHANGED <<live, bak, file, kind, deals, faults>>

Begin(n) ==
  \/ Note(n) \/ Pay(n) \/ ApplyTrade(n) \/ Create(n) \/ Offer(n)
  \/ Unlock(n) \/ CompleteSale(n)

Continue == SaveOther \/ Transfer

Next ==
  \/ \E n \in Deals : Begin(n)
  \/ Continue \/ Autosave \/ Write
  \/ Boot \/ Stop \/ Exit \/ Crash

Spec == Init /\ [][Next]_vars

\* A write and a handler under way go on, the timer that saves comes round,
\* and whoever runs the server starts it again.
FairSpec ==
  /\ Spec
  /\ WF_vars(Write) /\ WF_vars(Continue) /\ WF_vars(Autosave)
  /\ WF_vars(Boot) /\ WF_vars(Exit)

-----------------------------------------------------------------------------
(* What makes it correct. *)

MemTypes == mem \in [Files -> Contents] /\ dirty \in BOOLEAN

DiskTypes ==
  /\ live \in [Files -> FileStates] /\ bak \in [Files -> FileStates]
  /\ temp \in FileStates
  /\ stage \in Stages /\ file \in Files

RestTypes ==
  /\ up \in {"down", "up", "stopping"}
  /\ next \in {"nothing", "credit", "transfer"} /\ deal \in Deals \cup {0}
  /\ kind \in [Deals -> Kinds]
  /\ deals \in 0 .. MaxDeals /\ faults \in 0 .. MaxFaults /\ crashes \in 0 .. MaxCrashes

TypeOK == MemTypes /\ DiskTypes /\ RestTypes

\* Who is at work: a write needs a process and a step needs a deal.
AtWork ==
  /\ stage # "none" \/ dirty => up # "down"
  /\ stage # "none" /\ file = "players" => dirty
  /\ stage \in {"synced", "copying", "copied"} => temp = Whole(mem[file])
  /\ stage = "copying" => bak[file] = Torn
  /\ stage = "copied" /\ live[file] # Absent => bak[file] \in {live[file], Torn}
  /\ next # "nothing" => up = "up" /\ deal \in 1 .. deals
  /\ next # "nothing" /\ stage # "none" => file = "players"
  /\ next = "credit" => kind[deal] \in {"pay", "sale"}
  /\ next = "transfer" => kind[deal] = "sale"

\* A clean store is what its file says: what a failed or interrupted write
\* left out is still marked as owed to the disk (PlayerStore::Flush).
CleanMeansSaved == up # "down" /\ ~dirty => Kept("players") = mem["players"]

\* Whatever a write was doing when the server died, no file is left torn,
\* and no money is on the disk that did not leave somebody on the disk;
\* a trade is there for both or for neither.
NoMoneyFromCrashes ==
  /\ \A f \in Files : live[f] # Torn
  /\ \A n \in Deals :
       /\ <<n, "credit">> \in Kept("players") => <<n, "debit">> \in Kept("players")
       /\ kind[n] = "trade" /\ <<n, "debit">> \in Kept("players")
            => <<n, "credit">> \in Kept("players")

Price(n) == {<<n, "debit">>, <<n, "credit">>}

Sold(n) == kind[n] = "sale" /\ <<n, "car">> \in Kept("vehicles")

\* As long as every write succeeds, a car that was sold is on the disk only
\* with both halves of its price, wherever CompleteSale was interrupted.
PaidBeforeHandedOver ==
  faults = 0 =>
    \A n \in Deals :
      Sold(n) => Price(n) \subseteq Kept("players")

\* In memory, too, nobody receives what nobody paid.
Ordered ==
  \A n \in Deals :
    /\ <<n, "credit">> \in mem["players"] => <<n, "debit">> \in mem["players"]
    /\ kind[n] = "trade" /\ <<n, "debit">> \in mem["players"]
         => <<n, "credit">> \in mem["players"]

\* A car in memory that was sold has its price on the disk already.
CarsPaid ==
  faults = 0 =>
    \A n \in Deals :
      kind[n] = "sale" /\ <<n, "car">> \in mem["vehicles"] => Price(n) \subseteq Kept("players")

\* A handler between two writes has its money in memory, and on the disk
\* unless a write failed; a running server never forgets what is on the disk.
Underway ==
  /\ up # "down" => Kept("players") \subseteq mem["players"]
  /\ next # "nothing" => <<deal, "debit">> \in mem["players"]
  /\ next = "transfer" => <<deal, "credit">> \in mem["players"]
  /\ next # "nothing" /\ stage = "none" /\ faults = 0 => ~dirty

\* What is not yet made is nowhere, and a lock is a sale's.
Unmade ==
  /\ \A f \in Files : \A e \in mem[f] \cup Kept(f) : e[1] <= deals
  /\ \A n \in Deals : <<n, "lock">> \in mem["vehicles"] => kind[n] = "sale"
  /\ \A n \in Deals : n > deals => kind[n] = "none"

IInv ==
  /\ TypeOK /\ AtWork /\ CleanMeansSaved
  /\ Ordered /\ CarsPaid /\ Underway /\ Unmade
  /\ NoMoneyFromCrashes /\ PaidBeforeHandedOver

Replaced ==
  \A f \in Files :
    live'[f] # live[f] =>
      /\ live'[f] = Whole(mem[f]) /\ up # "down"
      /\ live[f] # Absent => bak[f] \in {live[f], Torn}

\* A file is only ever replaced whole, by what the running server holds, and
\* what it held before is in its backup unless the backup failed.
ReplacedWhole == [][Replaced]_vars

\* What a program on this disk works with.
Work == IF up = "down" THEN [f \in Files |-> Kept(f)] ELSE mem
OnDisk == [f \in Files |-> Kept(f)]

Books == INSTANCE SafeBooks WITH Books <- Files, work <- Work, kept <- OnDisk

\* Files, writes and crashes implement books that are kept whole.
ImplementsBooks == Books!Spec

\* What is done to a player's record reaches the disk, failed writes being
\* tried again by the next autosave, unless the server goes down first.
WrittenInTheEnd ==
  \A e \in Deals \X {"note", "debit", "credit"} :
    e \in mem["players"] ~> (e \in Kept("players") \/ up = "down")
=============================================================================
