--------------------------- MODULE WebWorker_proofs ---------------------------
(***************************************************************************)
(* Proofs about WebWorker, for any names and any number of edits, empires, *)
(* crashes, faults and flushes, provided the registry and the parked copy  *)
(* can be written.  After a refused read of a switch's target the worker's *)
(* key is not its session's: KeyFits.                                      *)
(***************************************************************************)
EXTENDS WebWorker, TLAPS

(* The registry and the copies of unreadable data are stored when asked;
   everything else in Failing may be refused.  (empireOp does not take the
   live session back when saveRegistry rejects, nor does ensureReady's
   cascade keep what backupCorruptBlob could not store.)                   *)
Dependable == "registry" \notin Failing /\ "backup" \notin Failing

Ops == {"none", "boot", "edit", "create", "register", "seed", "switch",
        "load", "activate", "erase", "erase parked"}

Blob    == [edits : SUBSET Edits, old : BOOLEAN]
Disk    == [slots : Slots, active : Name, blobs : [Key -> Blob],
            parked : [Key -> SUBSET Edits], docs : Docs]
Session == [edits : SUBSET Edits, docs : Docs \cup {"none"}]
Worker  == [session : Session, key : Key, docs : Docs, pending : BOOLEAN,
            timer : BOOLEAN, flushes : 0 .. MaxFlushes]
Work    == [op : Ops, name : Key]
Budget  == [edits : 0 .. MaxEdits, empires : 0 .. MaxEmpires,
            crashes : Nat, faults : Nat, upgrades : Nat]

Typed ==
  /\ disk \in Disk /\ worker \in Worker /\ work \in Work /\ spent \in Budget
  /\ disk.slots # EmptySlot => disk.active \in DOMAIN disk.slots
  /\ ledger \in [Empire -> SUBSET Edits] /\ made \in [Empire -> SUBSET Edits]
  /\ shared \in SUBSET Key

(* An empire has one name; a key that two names have is on record.         *)
NamesIssued ==
  /\ \A n \in DOMAIN disk.slots : disk.slots[n].empire <= spent.empires
  /\ \A n, m \in DOMAIN disk.slots :
       n # m => /\ disk.slots[n].empire # disk.slots[m].empire
                /\ disk.slots[n].key = disk.slots[m].key => disk.slots[n].key \in shared

(* Edits are numbered as they are made; an answered edit was made.         *)
EditsIssued ==
  /\ \A k \in Key : Holds(k) \subseteq 1 .. spent.edits
  /\ worker.session.edits \subseteq 1 .. spent.edits
  /\ \A e \in Empire :
       /\ ledger[e] \subseteq made[e] /\ made[e] \subseteq 1 .. spent.edits
       /\ e > spent.empires \/ disk.slots = EmptySlot => made[e] = {}

(* No key, a living empire's or one left behind, holds another's edits.    *)
KeysApart ==
  \A k \in Key \ shared, m \in DOMAIN disk.slots :
    disk.slots[m].key \notin shared \cup {k} => Holds(k) \cap made[disk.slots[m].empire] = {}

(* What is unreadable is parked whole or not at all: a build changes once. *)
OldIsParked ==
  \A k \in Key :
    /\ disk.blobs[k].old => disk.parked[k] \subseteq disk.blobs[k].edits
    /\ spent.upgrades = 0 => ~disk.blobs[k].old /\ disk.parked[k] = {}

(* The slot whose plan the live session is. *)
Open       == IF work.op = "activate" THEN work.name ELSE disk.active
SessionKey == disk.slots[Open].key

(* The worker's key is that slot's, except while a switch reads its target,
   and after that read was refused: then both keys are on record.          *)
KeyFits ==
  /\ work.op = "load" => worker.key = TargetKey
  /\ work.op # "load" => worker.key = SessionKey \/ {worker.key, SessionKey} \subseteq shared

(* With its parked edits the session has what its empire was answered, and
   it has no other empire's.                                               *)
SessionFits ==
  ~Booting =>
    /\ disk.slots # EmptySlot /\ Open \in DOMAIN disk.slots
    /\ KeyFits
    /\ SessionKey \notin shared /\ work.op # "register" =>
         /\ ledger[disk.slots[Open].empire] \subseteq worker.session.edits \cup disk.parked[SessionKey]
         /\ \A m \in DOMAIN disk.slots :
              disk.slots[m].key \notin shared \cup {SessionKey} =>
                worker.session.edits \cap made[disk.slots[m].empire] = {}

(* What each stage of a request may rely on. *)
WorkFits ==
  /\ Booting => work.op \in {"none", "boot"} /\ worker.session.edits = {}
  /\ ~Booting => work.op # "boot" /\ worker.session.docs # "none"
  /\ work.op = "edit" => spent.edits \in worker.session.edits \cap made[Owner]
  /\ work.op \in {"create", "register"} =>
       work.name \in Name \ DOMAIN disk.slots /\ spent.empires < MaxEmpires
  /\ work.op = "register" => worker.session.edits = {}
  /\ work.op \in {"switch", "load"} => work.name \in DOMAIN disk.slots
  /\ work.op \in {"erase", "erase parked"} => work.name \notin LiveKeys \/ work.name \in shared

IInv ==
  /\ Typed /\ NamesIssued /\ EditsIssued /\ AnsweredEditsKept /\ KeysApart
  /\ OldIsParked /\ SessionFits /\ WorkFits

------------------------------------------------------------------------------
USE WorkerAssumption DEF OpenKey

(* An empty store and a worker without a session. *)
LEMMA InitInv ==
  ASSUME Init
  PROVE  IInv
<1>1. EmptySlot \in Slots /\ DOMAIN EmptySlot = {} /\ NewWorker \in Worker /\ First \in Key /\ Idle \in Work
  <2>1. EmptySlot \in [{} -> [key : Key, empire : Empire]] /\ {} \in SUBSET Name
    BY DEF EmptySlot
  <2>2. EmptySlot \in Slots /\ DOMAIN EmptySlot = {}
    BY <2>1 DEF Slots
  <2>3. First \in Key /\ "current" \in Key
    BY DEF Key
  <2>4. Asleep \in Session /\ "fixture" \in Docs
    BY DEF Asleep, Session, Docs
  <2>5. NewWorker \in Worker
    BY <2>3, <2>4 DEF NewWorker, Worker
  <2>6. QED
    BY <2>2, <2>3, <2>5 DEF Idle, Work, Ops
<1>2. [k \in Key |-> Nothing] \in [Key -> Blob] /\ [k \in Key |-> {}] \in [Key -> SUBSET Edits]
  BY DEF Nothing, Blob
<1>3. Typed
  BY <1>1, <1>2 DEF Init, Typed, Disk, Docs, Budget
<1>4. NamesIssued /\ EditsIssued /\ AnsweredEditsKept /\ KeysApart /\ OldIsParked
  BY <1>1 DEF Init, NamesIssued, EditsIssued, AnsweredEditsKept, KeysApart, OldIsParked, Holds,
       Nothing, NewWorker, Asleep
<1>5. Booting /\ work = Idle
  BY DEF Init, Booting, NewWorker
<1>6. SessionFits /\ WorkFits
  BY <1>5 DEF SessionFits, WorkFits, Idle, Booting, Asleep
<1>7. QED
  BY <1>3, <1>4, <1>6 DEF IInv

(* A slot is a key and an empire. *)
LEMMA SlotFields ==
  ASSUME Typed
  PROVE  /\ DOMAIN disk.slots \subseteq Name
         /\ \A n \in DOMAIN disk.slots : disk.slots[n].key \in Key /\ disk.slots[n].empire \in Empire
<1>1. PICK S \in SUBSET Name : disk.slots \in [S -> [key : Key, empire : Empire]]
  BY DEF Typed, Disk, Slots
<1>2. QED
  BY <1>1

------------------------------------------------------------------------------
(* Transactions *)

(* What no transaction of a kind that may fail touches. *)
SameBudget ==
  /\ spent' \in Budget
  /\ spent'.edits = spent.edits /\ spent'.empires = spent.empires /\ spent'.upgrades = spent.upgrades

(* A refused transaction is counted, and changes nothing. *)
LEMMA RefusedFacts ==
  ASSUME Typed, NEW kind, Refused(kind)
  PROVE  SameBudget /\ disk' = disk
  BY DEF Typed, Refused, Spend, SameBudget, Budget

(* What storing the session's plan leaves on disk. *)
PlanStored ==
  /\ disk' \in Disk
  /\ disk'.slots = disk.slots /\ disk'.active = disk.active /\ disk'.parked = disk.parked
  /\ \A k \in Key : disk'.blobs[k] = IF k = worker.key THEN Stored(worker.session.edits) ELSE disk.blobs[k]

(* saveBlob does just that. *)
LEMMA SaveBlobFacts ==
  ASSUME Typed, SaveBlob
  PROVE  PlanStored
<1>1. Stored(worker.session.edits) \in Blob /\ worker.key \in Key
  BY DEF Typed, Stored, Blob, Worker, Session
<1>2. QED
  BY <1>1 DEF Typed, SaveBlob, PlanStored, Disk

(* The plan of the live session replaces what its key held; an answer that
   goes with it is for an edit the session has.                            *)
LEMMA StoreKeeps ==
  ASSUME IInv, ~Booting, work.op \notin {"register", "load"}, PlanStored, SameBudget,
         UNCHANGED <<made, shared>>, ledger' \in [Empire -> SUBSET Edits],
         \A e \in Empire :
           \/ ledger'[e] = ledger[e]
           \/ /\ e = disk.slots[Open].empire
              /\ ledger'[e] \subseteq ledger[e] \cup worker.session.edits
  PROVE  /\ AnsweredEditsKept' /\ KeysApart' /\ OldIsParked'
         /\ \A k \in Key : Holds(k)' \subseteq 1 .. spent.edits
<1>1. Typed /\ SessionFits /\ NamesIssued
  BY DEF IInv
<1>2. /\ \A n \in DOMAIN disk.slots : disk.slots[n].key \in Key /\ disk.slots[n].empire \in Empire
      /\ DOMAIN disk.slots \subseteq Name
  BY <1>1, SlotFields
<1>3. /\ Open \in DOMAIN disk.slots /\ SessionKey = disk.slots[Open].key
      /\ worker.key = SessionKey \/ (worker.key \in shared /\ SessionKey \in shared)
      /\ SessionKey \notin shared =>
           /\ ledger[disk.slots[Open].empire] \subseteq worker.session.edits \cup disk.parked[SessionKey]
           /\ \A m \in DOMAIN disk.slots :
                disk.slots[m].key \notin shared \cup {SessionKey} =>
                  worker.session.edits \cap made[disk.slots[m].empire] = {}
  BY <1>1 DEF SessionFits, KeyFits, SessionKey
<1>4. \A k \in Key : Holds(k)' = IF k = worker.key THEN worker.session.edits \cup disk.parked[k] ELSE Holds(k)
  BY DEF PlanStored, Holds, Stored
<1>5. AnsweredEditsKept'
  <2> SUFFICES ASSUME NEW n \in DOMAIN disk.slots, disk.slots[n].key \notin shared
               PROVE  ledger'[disk.slots[n].empire] \subseteq Holds(disk.slots[n].key)'
    BY DEF AnsweredEditsKept, PlanStored
  <2>1. CASE n = Open
    BY <2>1, <1>2, <1>3, <1>4 DEF PlanStored
  <2>2. CASE n # Open
    <3>1. /\ disk.slots[n].key # worker.key
          /\ disk.slots[n].empire # disk.slots[Open].empire
      BY <2>2, <1>1, <1>3 DEF NamesIssued
    <3>2. ledger[disk.slots[n].empire] \subseteq Holds(disk.slots[n].key)
      BY DEF IInv, AnsweredEditsKept
    <3>3. QED
      BY <3>1, <3>2, <1>2, <1>4 DEF PlanStored
  <2>3. QED
    BY <2>1, <2>2
<1>6. KeysApart'
  <2> SUFFICES ASSUME NEW k \in Key \ shared, NEW m \in DOMAIN disk.slots,
                      disk.slots[m].key \notin shared \cup {k}
               PROVE  Holds(k)' \cap made[disk.slots[m].empire] = {}
    BY DEF KeysApart, PlanStored
  <2>1. Holds(k) \cap made[disk.slots[m].empire] = {}
    BY DEF IInv, KeysApart
  <2>2. disk.parked[k] \subseteq Holds(k)
    BY DEF Holds
  <2>3. QED
    BY <2>1, <2>2, <1>3, <1>4
<1>7. OldIsParked'
  BY DEF IInv, OldIsParked, PlanStored, SameBudget, Stored
<1>8. ASSUME NEW k \in Key PROVE Holds(k)' \subseteq 1 .. spent.edits
  BY <1>4 DEF IInv, EditsIssued, Holds
<1>9. QED
  BY <1>5, <1>6, <1>7, <1>8

(* No key gains or loses an edit. *)
HoldsSame ==
  /\ disk' \in Disk
  /\ disk'.slots = disk.slots /\ disk'.active = disk.active
  /\ \A k \in Key : Holds(k)' = Holds(k)

(* Then what was kept is kept, and what was apart is. *)
LEMMA HoldsKeep ==
  ASSUME IInv, HoldsSame, UNCHANGED <<ledger, made, shared>>
  PROVE  /\ AnsweredEditsKept' /\ KeysApart'
         /\ \A k \in Key : Holds(k)' \subseteq 1 .. spent.edits
<1>1. /\ \A n \in DOMAIN disk.slots : disk.slots[n].key \in Key /\ disk.slots[n].empire \in Empire
      /\ DOMAIN disk.slots \subseteq Name
  BY SlotFields DEF IInv
<1>2. AnsweredEditsKept'
  BY <1>1 DEF IInv, HoldsSame, AnsweredEditsKept
<1>3. KeysApart'
  BY <1>1 DEF IInv, HoldsSame, KeysApart
<1>4. QED
  BY <1>2, <1>3 DEF IInv, HoldsSame, EditsIssued

(* What a step that makes no edit and no empire leaves as it is. *)
LEMMA IssuedKeep ==
  ASSUME IInv, SameBudget, disk'.slots = disk.slots, UNCHANGED <<made, shared>>,
         worker'.session.edits \subseteq 1 .. spent.edits,
         \A k \in Key : Holds(k)' \subseteq 1 .. spent.edits,
         \A e \in Empire : ledger'[e] \subseteq made[e]
  PROVE  NamesIssued' /\ EditsIssued'
<1>1. NamesIssued'
  BY DEF IInv, NamesIssued, SameBudget
<1>2. EditsIssued'
  BY DEF IInv, EditsIssued, SameBudget
<1>3. QED
  BY <1>1, <1>2

(* The fields of what is typed, step by step. *)
LEMMA TypedKeep ==
  ASSUME Typed, disk' \in Disk, worker' \in Worker, work' \in Work, spent' \in Budget,
         disk'.slots = disk.slots, disk'.active = disk.active, UNCHANGED shared,
         ledger' \in [Empire -> SUBSET Edits], made' \in [Empire -> SUBSET Edits]
  PROVE  Typed'
BY DEF Typed

------------------------------------------------------------------------------
(* Boot *)

(* A session that has what its key holds, or what of it is not parked. *)
LEMMA WakeInv ==
  ASSUME IInv, Booting, disk.slots # EmptySlot, HoldsSame, OldIsParked', SameBudget,
         UNCHANGED <<ledger, made, shared>>, work' \in Work, work'.op = "none",
         worker' \in Worker, worker'.session.docs # "none",
         worker'.key = disk.slots[disk.active].key,
         worker'.session.edits \subseteq Holds(worker'.key),
         Holds(worker'.key) \subseteq worker'.session.edits \cup disk'.parked[worker'.key]
  PROVE  IInv'
<1>1. /\ \A n \in DOMAIN disk.slots : disk.slots[n].key \in Key /\ disk.slots[n].empire \in Empire
      /\ DOMAIN disk.slots \subseteq Name
      /\ disk.active \in DOMAIN disk.slots
  BY SlotFields DEF IInv, Typed
<1>2. Typed'
  BY TypedKeep DEF IInv, HoldsSame, SameBudget, Typed
<1>3. /\ AnsweredEditsKept' /\ KeysApart'
      /\ \A k \in Key : Holds(k)' \subseteq 1 .. spent.edits
  BY HoldsKeep
<1>4. worker'.key \in Key /\ worker'.session.edits \subseteq 1 .. spent.edits
  BY <1>1 DEF IInv, EditsIssued
<1>5. NamesIssued' /\ EditsIssued'
  <2>1. \A e \in Empire : ledger'[e] \subseteq made[e]
    BY DEF IInv, EditsIssued
  <2>2. disk'.slots = disk.slots
    BY DEF HoldsSame
  <2>3. QED
    BY <1>3, <1>4, <2>1, <2>2, IssuedKeep
<1>6. Open' = disk.active /\ ~Booting'
  BY DEF Open, HoldsSame, Booting, Asleep
<1>7. SessionFits'
  <2>1. worker'.key \notin shared => ledger[disk.slots[disk.active].empire] \subseteq Holds(worker'.key)
    BY <1>1 DEF IInv, AnsweredEditsKept
  <2>2. ASSUME worker'.key \notin shared, NEW m \in DOMAIN disk.slots,
               disk.slots[m].key \notin shared \cup {worker'.key}
        PROVE  Holds(worker'.key) \cap made[disk.slots[m].empire] = {}
    BY <2>2, <1>4 DEF IInv, KeysApart
  <2>3. SessionKey' = worker'.key /\ KeyFits'
    BY <1>6 DEF SessionKey, KeyFits, HoldsSame
  <2>4. QED
    BY <2>1, <2>2, <2>3, <1>1, <1>6 DEF SessionFits, HoldsSame
<1>8. WorkFits'
  BY <1>6 DEF WorkFits
<1>9. QED
  BY <1>2, <1>3, <1>5, <1>7, <1>8 DEF IInv

(* The active slot's key, and the plan under it. *)
LEMMA ActiveFields ==
  ASSUME Typed, disk.slots # EmptySlot
  PROVE  /\ disk.active \in DOMAIN disk.slots
         /\ disk.slots[disk.active].key \in Key
         /\ ActiveBlob \in Blob
BY SlotFields DEF Typed, Disk, ActiveBlob

(* Parking copies what is unreadable, and OldIsParked says nothing is lost
   of what was parked before.                                              *)
LEMMA ParkFacts ==
  ASSUME IInv, disk.slots # EmptySlot, ActiveBlob.old, disk' = Park, SameBudget
  PROVE  /\ HoldsSame /\ OldIsParked'
         /\ disk'.parked[disk.slots[disk.active].key] = Holds(disk.slots[disk.active].key)
<1> DEFINE k == disk.slots[disk.active].key
<1>1. k \in Key /\ ActiveBlob \in Blob /\ ActiveBlob = disk.blobs[k]
  BY ActiveFields DEF IInv, ActiveBlob
<1>2. /\ disk' \in Disk
      /\ disk'.slots = disk.slots /\ disk'.active = disk.active /\ disk'.blobs = disk.blobs
      /\ \A j \in Key : disk'.parked[j] = IF j = k THEN ActiveBlob.edits ELSE disk.parked[j]
  BY <1>1 DEF IInv, Typed, Disk, Park, Blob
<1>3. disk.parked[k] \subseteq ActiveBlob.edits /\ spent.upgrades # 0
  BY <1>1 DEF IInv, OldIsParked
<1>4. \A j \in Key : Holds(j)' = Holds(j)
  BY <1>1, <1>2, <1>3 DEF Holds
<1>5. OldIsParked'
  BY <1>1, <1>2, <1>3 DEF IInv, OldIsParked, SameBudget
<1>6. disk'.parked[k] = Holds(k)
  BY <1>1, <1>2, <1>3 DEF Holds
<1>7. QED
  BY <1>2, <1>4, <1>5, <1>6 DEF HoldsSame

(* A disk that stays holds what it held. *)
LEMMA DiskStays ==
  ASSUME IInv, UNCHANGED disk, SameBudget
  PROVE  HoldsSame /\ OldIsParked'
BY DEF IInv, HoldsSame, Holds, OldIsParked, Typed, SameBudget

(* A readable plan is the session's. *)
LEMMA BootWholeInv ==
  ASSUME IInv, Booting, disk.slots # EmptySlot, BootWhole, work = Idle,
         UNCHANGED <<work, ledger, made, shared>>
  PROVE  IInv'
<1> DEFINE k == disk.slots[disk.active].key
<1>1. SameBudget /\ disk' = disk
  BY DEF IInv, Typed, BootWhole, SameBudget
<1>2. k \in Key /\ ActiveBlob \in Blob /\ ActiveBlob = disk.blobs[k]
  BY ActiveFields DEF IInv, ActiveBlob
<1>3. /\ worker' \in Worker /\ worker'.key = k
      /\ worker'.session.edits = ActiveBlob.edits /\ worker'.session.docs = disk.docs
      /\ disk.docs # "none"
  BY <1>2 DEF IInv, Typed, BootWhole, Worker, Session, Blob, Disk, Docs
<1>4. HoldsSame /\ OldIsParked'
  BY <1>1, DiskStays
<1>5. /\ worker'.session.edits \subseteq Holds(k)
      /\ Holds(k) \subseteq worker'.session.edits \cup disk'.parked[k]
  BY <1>1, <1>2, <1>3 DEF Holds
<1>6. work' \in Work /\ work'.op = "none"
  BY DEF IInv, Typed, Idle
<1>7. QED
  BY <1>1, <1>3, <1>4, <1>5, <1>6, WakeInv

(* An unreadable plan is parked, and the session starts empty. *)
LEMMA BootWithoutPlanInv ==
  ASSUME IInv, Dependable, Booting, disk.slots # EmptySlot, BootWithoutPlan, work = Idle,
         UNCHANGED <<work, ledger, made, shared>>
  PROVE  IInv'
<1> DEFINE k == disk.slots[disk.active].key
<1>1. SameBudget /\ disk' = Park /\ ActiveBlob.old
  BY DEF IInv, Typed, BootWithoutPlan, SameBudget, Refused, Dependable
<1>2. k \in Key
  BY ActiveFields DEF IInv
<1>3. /\ worker' \in Worker /\ worker'.key = k
      /\ worker'.session.edits = {} /\ worker'.session.docs = disk.docs
      /\ disk.docs # "none"
  BY <1>2 DEF IInv, Typed, BootWithoutPlan, Worker, Session, Disk, Docs
<1>4. HoldsSame /\ OldIsParked' /\ disk'.parked[k] = Holds(k)
  BY <1>1, ParkFacts
<1>5. work' \in Work /\ work'.op = "none"
  BY DEF IInv, Typed, Idle
<1>6. QED
  BY <1>1, <1>3, <1>4, <1>5, WakeInv

(* Without its catalog the app opens on the fixture; plans are as they were. *)
LEMMA BootWithoutDocsInv ==
  ASSUME IInv, Dependable, Booting, BootWithoutDocs, UNCHANGED <<ledger, made, shared>>
  PROVE  IInv'
<1>1. SameBudget /\ disk' = [disk EXCEPT !.docs = "fixture"]
  BY DEF IInv, Typed, BootWithoutDocs, SameBudget, Refused, Dependable
<1>2. HoldsSame /\ disk'.blobs = disk.blobs /\ disk'.parked = disk.parked
  BY <1>1 DEF IInv, Typed, HoldsSame, Holds, Disk, Docs
<1>3. OldIsParked'
  BY <1>1, <1>2 DEF IInv, OldIsParked, SameBudget
<1>4. /\ worker' \in Worker /\ worker'.session = worker.session
      /\ work' \in Work /\ work'.op = "boot"
  BY DEF IInv, Typed, BootWithoutDocs, Worker, Work, Ops, Disk
<1>5. Typed'
  BY <1>1, <1>2, <1>4, TypedKeep DEF IInv, HoldsSame, SameBudget, Typed
<1>6. /\ AnsweredEditsKept' /\ KeysApart'
      /\ \A k \in Key : Holds(k)' \subseteq 1 .. spent.edits
  BY <1>2, HoldsKeep
<1>7. NamesIssued' /\ EditsIssued'
  <2>1. \A e \in Empire : ledger'[e] \subseteq made[e]
    BY DEF IInv, EditsIssued
  <2>2. worker'.session.edits \subseteq 1 .. spent.edits
    BY <1>4 DEF IInv, EditsIssued
  <2>3. QED
    BY <1>1, <1>2, <1>6, <2>1, <2>2, IssuedKeep DEF HoldsSame
<1>8. Booting' /\ worker'.session.edits = {}
  BY <1>4 DEF Booting, Asleep
<1>9. SessionFits' /\ WorkFits'
  BY <1>4, <1>8 DEF SessionFits, WorkFits
<1>10. QED
  BY <1>3, <1>5, <1>6, <1>7, <1>9 DEF IInv

(* On the fixture, the plan is the session's if it reads, parked if not. *)
LEMMA BootOnFixtureInv ==
  ASSUME IInv, Dependable, Booting, disk.slots # EmptySlot, BootOnFixture,
         UNCHANGED <<ledger, made, shared>>
  PROVE  IInv'
<1> DEFINE k == disk.slots[disk.active].key
<1>1. k \in Key /\ ActiveBlob \in Blob /\ ActiveBlob = disk.blobs[k]
  BY ActiveFields DEF IInv, ActiveBlob
<1>2. work' \in Work /\ work'.op = "none"
  BY DEF BootOnFixture, Idle, Work, Ops, Key
<1>3. ASSUME NEW edits \in SUBSET Edits, Wake("fixture", edits)
      PROVE  /\ worker' \in Worker /\ worker'.key = k
             /\ worker'.session.edits = edits /\ worker'.session.docs # "none"
  BY <1>1, <1>3 DEF IInv, Typed, Wake, Worker, Session, Docs
<1>4. CASE ~ActiveBlob.old
  <2>1. UNCHANGED <<disk, spent>> /\ Wake("fixture", ActiveBlob.edits)
    BY <1>4 DEF BootOnFixture
  <2>2. SameBudget /\ disk' = disk
    BY <2>1 DEF IInv, Typed, SameBudget
  <2>3. HoldsSame /\ OldIsParked'
    BY <2>2, DiskStays
  <2>4. /\ worker' \in Worker /\ worker'.key = k
        /\ worker'.session.edits = ActiveBlob.edits /\ worker'.session.docs # "none"
    BY <1>1, <1>3, <2>1 DEF Blob
  <2>5. /\ worker'.session.edits \subseteq Holds(k)
        /\ Holds(k) \subseteq worker'.session.edits \cup disk'.parked[k]
    BY <1>1, <2>2, <2>4 DEF Holds
  <2>6. QED
    BY <1>2, <2>2, <2>3, <2>4, <2>5, WakeInv
<1>5. CASE ActiveBlob.old
  <2>1. SameBudget /\ disk' = Park /\ Wake("fixture", {})
    BY <1>5 DEF IInv, Typed, BootOnFixture, SameBudget, Refused, Dependable
  <2>2. HoldsSame /\ OldIsParked' /\ disk'.parked[k] = Holds(k)
    BY <1>5, <2>1, ParkFacts
  <2>3. /\ worker' \in Worker /\ worker'.key = k
        /\ worker'.session.edits = {} /\ worker'.session.docs # "none"
    BY <1>3, <2>1
  <2>4. QED
    BY <1>2, <2>1, <2>2, <2>3, WakeInv
<1>6. QED
  BY <1>4, <1>5

(* The first boot registers the one plan the store may hold. *)
LEMMA AdoptInv ==
  ASSUME IInv, Adopt
  PROVE  IInv'
<1> DEFINE slots == SlotsWith(First, [key |-> "current", empire |-> 0])
<1>1. /\ DOMAIN slots = {First} /\ slots[First] = [key |-> "current", empire |-> 0]
      /\ slots \in Slots
  <2>1. slots = [n \in {First} |-> [key |-> "current", empire |-> 0]]
    BY DEF Adopt, EmptySlot, SlotsWith
  <2>2. slots \in [{First} -> [key : Key, empire : Empire]]
    BY <2>1 DEF Key, Empire
  <2>3. QED
    BY <2>1, <2>2 DEF Slots
<1>2. /\ disk' \in Disk /\ disk'.slots = slots /\ disk'.active = First
      /\ disk'.blobs = disk.blobs /\ disk'.parked = disk.parked
  BY <1>1 DEF IInv, Typed, Adopt, SaveRegistry, Disk
<1>3. UNCHANGED <<worker, work, ledger, made, spent>> /\ Booting /\ disk.slots = EmptySlot
  BY DEF Adopt
<1>4. shared' = shared
  BY <1>1 DEF Adopt, SaveRegistry
<1>5. Typed'
  BY <1>1, <1>2, <1>3, <1>4 DEF IInv, Typed
<1>6. \A e \in Empire : made[e] = {} /\ ledger[e] = {}
  BY <1>3 DEF IInv, EditsIssued
<1>7. \A k \in Key : Holds(k)' = Holds(k)
  BY <1>2 DEF Holds
<1>8. NamesIssued'
  BY <1>1, <1>2, <1>3 DEF IInv, Typed, Budget, NamesIssued
<1>9. EditsIssued'
  BY <1>3, <1>6, <1>7 DEF IInv, EditsIssued
<1>10. AnsweredEditsKept' /\ KeysApart'
  <2>1. 0 \in Empire
    BY DEF Empire
  <2>2. QED
    BY <1>1, <1>2, <1>3, <1>6, <2>1 DEF AnsweredEditsKept, KeysApart
<1>11. OldIsParked'
  BY <1>2, <1>3 DEF IInv, OldIsParked
<1>12. SessionFits' /\ WorkFits'
  BY <1>3 DEF IInv, SessionFits, WorkFits, Booting
<1>13. QED
  BY <1>5, <1>8, <1>9, <1>10, <1>11, <1>12 DEF IInv

------------------------------------------------------------------------------
(* Dispatches *)

(* The live session stays the same: its edits, its empire and, but for a
   switch that reads its target, its key.                                  *)
KeyMoves ==
  \/ worker'.key = worker.key /\ (work' = work \/ "load" \notin {work.op, work'.op})
  \/ worker'.key = SessionKey /\ work'.op # "load"
  \/ worker'.key = TargetKey /\ work'.op = "load" /\ work'.name = work.name

SessionSame ==
  /\ worker' \in Worker /\ work' \in Work
  /\ worker'.session.edits = worker.session.edits /\ KeyMoves
  /\ Booting' = Booting /\ Open' = Open
  /\ work.op = "register" => work'.op = "register"

(* Then the session fits as it did, whatever was stored of it. *)
LEMMA SessionSameInv ==
  ASSUME IInv, SessionSame, SameBudget, WorkFits', UNCHANGED <<made, shared>>,
         disk' \in Disk, disk'.slots = disk.slots, disk'.active = disk.active,
         disk'.parked = disk.parked,
         ledger' \in [Empire -> SUBSET Edits],
         \A e \in Empire :
           \/ ledger'[e] = ledger[e]
           \/ /\ ~Booting /\ work.op # "register" /\ e = disk.slots[Open].empire
              /\ ledger'[e] \subseteq ledger[e] \cup (worker.session.edits \cap made[e]),
         AnsweredEditsKept', KeysApart', OldIsParked',
         \A k \in Key : Holds(k)' \subseteq 1 .. spent.edits
  PROVE  IInv'
<1>1. /\ \A n \in DOMAIN disk.slots : disk.slots[n].key \in Key /\ disk.slots[n].empire \in Empire
      /\ DOMAIN disk.slots \subseteq Name
  BY SlotFields DEF IInv
<1>2. Typed'
  BY TypedKeep DEF IInv, SessionSame, SameBudget, Typed
<1>3. NamesIssued' /\ EditsIssued'
  <2>1. \A e \in Empire : ledger'[e] \subseteq made[e]
    BY DEF IInv, EditsIssued
  <2>2. worker'.session.edits \subseteq 1 .. spent.edits
    BY DEF IInv, EditsIssued, SessionSame
  <2>3. QED
    BY <2>1, <2>2, IssuedKeep
<1>4. SessionFits'
  <2> SUFFICES ASSUME ~Booting
               PROVE  SessionFits'
    BY DEF SessionFits, SessionSame
  <2>1. /\ disk.slots # EmptySlot /\ Open \in DOMAIN disk.slots /\ KeyFits
        /\ SessionKey \notin shared /\ work.op # "register" =>
             /\ ledger[disk.slots[Open].empire] \subseteq worker.session.edits \cup disk.parked[SessionKey]
             /\ \A m \in DOMAIN disk.slots :
                  disk.slots[m].key \notin shared \cup {SessionKey} =>
                    worker.session.edits \cap made[disk.slots[m].empire] = {}
    BY DEF IInv, SessionFits
  <2>2. ASSUME SessionKey \notin shared, work.op # "register"
        PROVE  ledger'[disk.slots[Open].empire] \subseteq worker.session.edits \cup disk.parked[SessionKey]
    BY <1>1, <2>1, <2>2
  <2>3. SessionKey' = SessionKey
    BY DEF SessionSame, SessionKey
  <2>4. KeyFits'
    BY <2>1, <2>3 DEF KeyFits, SessionSame, KeyMoves, TargetKey
  <2>5. QED
    BY <2>1, <2>2, <2>3, <2>4 DEF SessionFits, SessionSame
<1>5. QED
  BY <1>2, <1>3, <1>4 DEF IInv

(* A step that stores nothing and leaves the session alone. *)
LEMMA NothingStoredInv ==
  ASSUME IInv, SessionSame, SameBudget, WorkFits', UNCHANGED <<disk, ledger, made, shared>>
  PROVE  IInv'
<1>1. HoldsSame /\ OldIsParked'
  BY DiskStays
<1>2. /\ AnsweredEditsKept' /\ KeysApart'
      /\ \A k \in Key : Holds(k)' \subseteq 1 .. spent.edits
  BY <1>1, HoldsKeep
<1>3. disk' \in Disk /\ ledger' \in [Empire -> SUBSET Edits]
  BY DEF IInv, Typed
<1>4. QED
  BY <1>1, <1>2, <1>3, SessionSameInv

(* A step that stores the session's plan and leaves the session alone. *)
LEMMA PlanStoredInv ==
  ASSUME IInv, ~Booting, work.op \notin {"register", "load"}, SessionSame, PlanStored, SameBudget, WorkFits',
         UNCHANGED <<ledger, made, shared>>
  PROVE  IInv'
<1>1. ledger' \in [Empire -> SUBSET Edits]
  BY DEF IInv, Typed
<1>2. /\ AnsweredEditsKept' /\ KeysApart' /\ OldIsParked'
      /\ \A k \in Key : Holds(k)' \subseteq 1 .. spent.edits
  BY <1>1, StoreKeeps
<1>3. QED
  BY <1>1, <1>2, SessionSameInv DEF PlanStored

(* A session that fits its empire makes an edit. *)
LEMMA EditMadeInv ==
  ASSUME IInv, Ready, spent.edits < MaxEdits, UNCHANGED <<disk, ledger, shared>>,
         worker' \in Worker, worker'.key = worker.key, ~Booting',
         worker'.session.edits = worker.session.edits \cup {NextEdit},
         worker'.session.docs = worker.session.docs,
         work' \in Work, work'.op \in {"none", "edit"},
         made' = [made EXCEPT ![Owner] = @ \cup {NextEdit}], Spend("edits")
  PROVE  IInv'
<1>1. /\ \A n \in DOMAIN disk.slots : disk.slots[n].key \in Key /\ disk.slots[n].empire \in Empire
      /\ DOMAIN disk.slots \subseteq Name
  BY SlotFields DEF IInv
<1>2. ~Booting /\ work.op = "none" /\ Open = disk.active /\ Open' = disk.active
  BY DEF Ready, Idle, Open
<1>3. /\ disk.slots # EmptySlot /\ disk.active \in DOMAIN disk.slots
      /\ SessionKey = disk.slots[disk.active].key /\ KeyFits
      /\ SessionKey \notin shared =>
           /\ ledger[Owner] \subseteq worker.session.edits \cup disk.parked[SessionKey]
           /\ \A m \in DOMAIN disk.slots :
                disk.slots[m].key \notin shared \cup {SessionKey} =>
                  worker.session.edits \cap made[disk.slots[m].empire] = {}
  BY <1>2 DEF IInv, SessionFits, SessionKey, Owner
<1>4. /\ spent' \in Budget /\ spent'.edits = NextEdit /\ NextEdit = spent.edits + 1
      /\ NextEdit \in Edits /\ spent.edits \in Nat
      /\ spent'.empires = spent.empires /\ spent'.upgrades = spent.upgrades
  BY DEF IInv, Typed, Spend, Budget, NextEdit, Edits
<1>5. /\ Owner \in Empire /\ made' \in [Empire -> SUBSET Edits]
      /\ \A e \in Empire : made'[e] = IF e = Owner THEN made[e] \cup {NextEdit} ELSE made[e]
  BY <1>1, <1>3, <1>4 DEF IInv, Typed, Owner
<1>6. \A k \in Key : Holds(k)' = Holds(k) /\ NextEdit \notin Holds(k)
  BY <1>4 DEF Holds, IInv, EditsIssued
<1>7. Typed'
  BY <1>4, <1>5 DEF IInv, Typed
<1>8. NamesIssued'
  BY <1>4 DEF IInv, NamesIssued
<1>9. EditsIssued'
  <2>1. \A k \in Key : Holds(k)' \subseteq 1 .. NextEdit
    BY <1>4, <1>6 DEF IInv, EditsIssued
  <2>2. worker'.session.edits \subseteq 1 .. NextEdit
    BY <1>4 DEF IInv, EditsIssued
  <2>3. ASSUME NEW e \in Empire
        PROVE  /\ ledger'[e] \subseteq made'[e] /\ made'[e] \subseteq 1 .. NextEdit
               /\ e > spent.empires \/ disk.slots = EmptySlot => made'[e] = {}
    <3>1. Owner <= spent.empires
      BY <1>3 DEF IInv, NamesIssued, Owner
    <3>2. spent.empires \in Nat /\ e \in Nat /\ Owner \in Nat
      BY <1>5 DEF IInv, Typed, Budget, Empire
    <3>3. ledger[e] \subseteq made[e] /\ made[e] \subseteq 1 .. spent.edits
      BY DEF IInv, EditsIssued
    <3>4. e > spent.empires => made[e] = {} /\ e # Owner
      BY <3>1, <3>2 DEF IInv, EditsIssued
    <3>5. made'[e] \subseteq made[e] \cup {NextEdit} /\ made[e] \subseteq made'[e]
      BY <1>5
    <3>6. made'[e] \subseteq 1 .. NextEdit
      BY <1>4, <3>3, <3>5
    <3>7. QED
      BY <1>3, <1>5, <3>3, <3>4, <3>5, <3>6
  <2>4. QED
    BY <1>4, <2>1, <2>2, <2>3 DEF EditsIssued
<1>10. AnsweredEditsKept'
  BY <1>1, <1>6 DEF IInv, AnsweredEditsKept
<1>11. KeysApart'
  <2> SUFFICES ASSUME NEW k \in Key \ shared, NEW m \in DOMAIN disk.slots,
                      disk.slots[m].key \notin shared \cup {k}
               PROVE  Holds(k) \cap made'[disk.slots[m].empire] = {}
    BY <1>6 DEF KeysApart
  <2>1. Holds(k) \cap made[disk.slots[m].empire] = {}
    BY DEF IInv, KeysApart
  <2>2. QED
    BY <1>1, <1>5, <1>6, <2>1
<1>12. OldIsParked'
  BY <1>4 DEF IInv, OldIsParked
<1>13. SessionFits'
  <2>1. ASSUME SessionKey \notin shared, NEW m \in DOMAIN disk.slots,
               disk.slots[m].key \notin shared \cup {SessionKey}
        PROVE  worker'.session.edits \cap made'[disk.slots[m].empire] = {}
    <3>1. m # disk.active /\ disk.slots[m].empire # Owner
      BY <1>3, <2>1 DEF IInv, NamesIssued, Owner
    <3>2. made'[disk.slots[m].empire] = made[disk.slots[m].empire]
      BY <1>1, <1>5, <3>1
    <3>3. NextEdit \notin made[disk.slots[m].empire]
      BY <1>1, <1>4 DEF IInv, EditsIssued
    <3>4. QED
      BY <1>3, <2>1, <3>2, <3>3
  <2>2. SessionKey' = SessionKey /\ KeyFits'
    BY <1>2, <1>3 DEF KeyFits, SessionKey
  <2>3. QED
    BY <1>2, <1>3, <2>1, <2>2 DEF SessionFits, Owner
<1>14. WorkFits'
  BY <1>4, <1>5 DEF IInv, WorkFits, Ready, Owner
<1>15. QED
  BY <1>7, <1>8, <1>9, <1>10, <1>11, <1>12, <1>13, <1>14 DEF IInv

(* A dispatch's edit waits for its answer. *)
LEMMA EditInv ==
  ASSUME IInv, Edit
  PROVE  IInv'
<1>1. /\ worker' = [Settled EXCEPT !.session.edits = @ \cup {NextEdit}]
      /\ work' = [Idle EXCEPT !.op = "edit"]
      /\ NextEdit \in Edits
  BY DEF Edit, IInv, Typed, Budget, NextEdit, Edits
<1>2. /\ worker' \in Worker /\ worker'.key = worker.key
      /\ worker'.session.edits = worker.session.edits \cup {NextEdit}
      /\ worker'.session.docs = worker.session.docs
  BY <1>1 DEF IInv, Typed, Settled, Worker, Session
<1>3. work' \in Work /\ work'.op = "edit"
  BY <1>1 DEF Idle, Work, Ops, Key
<1>4. ~Booting'
  BY <1>2 DEF Booting, Asleep
<1>5. QED
  BY <1>2, <1>3, <1>4, EditMadeInv DEF Edit

(* A view change is answered at once. *)
LEMMA SetViewStateInv ==
  ASSUME IInv, SetViewState
  PROVE  IInv'
<1>1. /\ worker' = [worker EXCEPT !.session.edits = @ \cup {NextEdit}, !.pending = TRUE, !.timer = TRUE]
      /\ NextEdit \in Edits
  BY DEF SetViewState, IInv, Typed, Budget, NextEdit, Edits
<1>2. /\ worker' \in Worker /\ worker'.key = worker.key
      /\ worker'.session.edits = worker.session.edits \cup {NextEdit}
      /\ worker'.session.docs = worker.session.docs
  BY <1>1 DEF IInv, Typed, Worker, Session
<1>3. work' \in Work /\ work'.op = "none"
  BY DEF SetViewState, IInv, Typed, Ready, Idle
<1>4. ~Booting'
  BY <1>2 DEF Booting, Asleep
<1>5. QED
  BY <1>2, <1>3, <1>4, EditMadeInv DEF SetViewState

(* A stored edit enters the ledger of the empire it was made in. *)
LEMMA AnswerEditInv ==
  ASSUME IInv, AnswerEdit
  PROVE  IInv'
<1>1. /\ work.op = "edit" /\ work' = Idle /\ UNCHANGED <<worker, made, shared>>
      /\ ~Booting
  BY DEF AnswerEdit, IInv, WorkFits
<1>2. Open = disk.active /\ Idle \in Work
  BY <1>1 DEF Open, Idle, Work, Ops, Key
<1>3. /\ disk.active \in DOMAIN disk.slots /\ Owner \in Empire
      /\ spent.edits \in worker.session.edits \cap made[Owner]
      /\ worker.session.edits \subseteq Edits
  BY <1>1, <1>2, SlotFields DEF IInv, SessionFits, WorkFits, Owner, Typed, Worker, Session
<1>4. CASE Refused("snapshot") /\ UNCHANGED ledger
  <2>1. SameBudget /\ disk' = disk
    BY <1>4, RefusedFacts DEF IInv
  <2>2. SessionSame
    BY <1>1, <1>2, <2>1 DEF SessionSame, KeyMoves, IInv, Typed, Booting, Open, Idle
  <2>3. WorkFits'
    BY <1>1, <2>1 DEF IInv, WorkFits, Idle, Booting
  <2>4. QED
    BY <1>1, <1>4, <2>1, <2>2, <2>3, NothingStoredInv
<1>5. CASE /\ SaveBlob /\ UNCHANGED spent
           /\ ledger' = [ledger EXCEPT ![Owner] = @ \cup {spent.edits}]
  <2>1. PlanStored /\ SameBudget
    BY <1>5, SaveBlobFacts DEF IInv, Typed, SameBudget
  <2>2. SessionSame
    BY <1>1, <1>2, <2>1 DEF SessionSame, KeyMoves, PlanStored, IInv, Typed, Booting, Open, Idle
  <2>3. WorkFits'
    BY <1>1 DEF IInv, WorkFits, Idle, Booting
  <2>4. /\ ledger' \in [Empire -> SUBSET Edits]
        /\ \A e \in Empire : ledger'[e] = IF e = Owner THEN ledger[e] \cup {spent.edits} ELSE ledger[e]
    BY <1>3, <1>5 DEF IInv, Typed
  <2>5. Owner = disk.slots[Open].empire
    BY <1>2 DEF Owner
  <2>6. \A e \in Empire :
          \/ ledger'[e] = ledger[e]
          \/ e = Owner /\ ledger'[e] \subseteq ledger[e] \cup (worker.session.edits \cap made[e])
    BY <1>3, <2>4
  <2>7. \A e \in Empire :
          \/ ledger'[e] = ledger[e]
          \/ e = Owner /\ ledger'[e] \subseteq ledger[e] \cup worker.session.edits
    BY <2>6
  <2>8. /\ AnsweredEditsKept' /\ KeysApart' /\ OldIsParked'
        /\ \A k \in Key : Holds(k)' \subseteq 1 .. spent.edits
    BY <1>1, <2>1, <2>4, <2>5, <2>7, StoreKeeps
  <2>9. QED
    BY <1>1, <2>1, <2>2, <2>3, <2>4, <2>5, <2>6, <2>8, SessionSameInv DEF PlanStored
<1>6. QED
  BY <1>4, <1>5 DEF AnswerEdit

(* The timer only queues its flush. *)
LEMMA ViewTimerFiresInv ==
  ASSUME IInv, ViewTimerFires
  PROVE  IInv'
<1>1. SameBudget /\ UNCHANGED <<disk, work, ledger, made, shared, spent>>
  BY DEF ViewTimerFires, IInv, Typed, SameBudget
<1>2. /\ worker' \in Worker /\ worker'.session = worker.session /\ worker'.key = worker.key
  <2>1. worker.flushes + 1 \in 0 .. MaxFlushes
    BY DEF ViewTimerFires, IInv, Typed, Worker
  <2>2. QED
    BY <2>1 DEF ViewTimerFires, IInv, Typed, Worker
<1>3. SessionSame
  BY <1>1, <1>2 DEF SessionSame, KeyMoves, IInv, Typed, Booting, Open
<1>4. WorkFits'
  BY <1>1, <1>2 DEF IInv, WorkFits, Booting, LiveKeys, Owner
<1>5. QED
  BY <1>1, <1>3, <1>4, NothingStoredInv

(* The late flush stores the session's plan, or finds nothing to store. *)
LEMMA FlushInv ==
  ASSUME IInv, Flush
  PROVE  IInv'
<1>1. ~Booting /\ work.op = "none" /\ UNCHANGED <<work, ledger, made, shared>>
  BY DEF Flush, Ready, Idle
<1>2. /\ worker' \in Worker /\ worker'.session = worker.session /\ worker'.key = worker.key
  <2>1. worker.flushes - 1 \in 0 .. MaxFlushes
    BY DEF Flush, IInv, Typed, Worker
  <2>2. QED
    BY <2>1 DEF Flush, IInv, Typed, Worker
<1>3. ASSUME disk'.active = disk.active
      PROVE  SessionSame
  BY <1>1, <1>2, <1>3 DEF SessionSame, KeyMoves, IInv, Typed, Booting, Open
<1>4. WorkFits'
  BY <1>1, <1>2 DEF IInv, WorkFits, Booting
<1>5. CASE disk' = disk /\ SameBudget
  BY <1>1, <1>3, <1>4, <1>5, NothingStoredInv
<1>6. CASE PlanStored /\ SameBudget
  BY <1>1, <1>3, <1>4, <1>6, PlanStoredInv DEF PlanStored
<1>7. CASE UNCHANGED <<disk, spent>>
  BY <1>5, <1>7 DEF IInv, Typed, SameBudget
<1>8. CASE SaveBlob /\ UNCHANGED spent
  BY <1>6, <1>8, SaveBlobFacts DEF IInv, Typed, SameBudget
<1>9. CASE Refused("snapshot")
  BY <1>5, <1>9, RefusedFacts DEF IInv
<1>10. QED
  BY <1>7, <1>8, <1>9 DEF Flush

(* An upload stores the plan with the catalog, in one transaction. *)
LEMMA UploadDocsInv ==
  ASSUME IInv, UploadDocs
  PROVE  IInv'
<1>1. ~Booting /\ work.op = "none" /\ UNCHANGED <<work, ledger, made, shared>>
  BY DEF UploadDocs, Ready, Idle
<1>2. CASE Refused("docs") /\ UNCHANGED worker
  <2>1. SameBudget /\ disk' = disk
    BY <1>2, RefusedFacts DEF IInv
  <2>2. SessionSame /\ WorkFits'
    BY <1>1, <1>2, <2>1 DEF SessionSame, KeyMoves, IInv, Typed, Booting, Open, WorkFits
  <2>3. QED
    BY <1>1, <2>1, <2>2, NothingStoredInv
<1>3. CASE /\ disk' = [disk EXCEPT !.docs = "uploaded", !.blobs[worker.key] = Stored(worker.session.edits)]
           /\ worker' = [worker EXCEPT !.session.docs = "uploaded", !.docs = "uploaded"]
           /\ UNCHANGED spent
  <2>1. Stored(worker.session.edits) \in Blob /\ worker.key \in Key
    BY DEF IInv, Typed, Stored, Blob, Worker, Session
  <2>2. PlanStored /\ SameBudget
    BY <1>3, <2>1 DEF IInv, Typed, PlanStored, SameBudget, Disk, Docs
  <2>3. /\ worker' \in Worker /\ worker'.session.docs = "uploaded"
        /\ worker'.session.edits = worker.session.edits /\ worker'.key = worker.key
    BY <1>3 DEF IInv, Typed, Worker, Session, Docs
  <2>4. ~Booting'
    BY <2>3 DEF Booting, Asleep
  <2>5. SessionSame
    BY <1>1, <2>2, <2>3, <2>4 DEF SessionSame, KeyMoves, PlanStored, IInv, Typed, Open, Booting
  <2>6. WorkFits'
    BY <1>1, <2>3, <2>4 DEF WorkFits
  <2>7. QED
    BY <1>1, <2>2, <2>5, <2>6, PlanStoredInv
<1>4. QED
  BY <1>2, <1>3 DEF UploadDocs

------------------------------------------------------------------------------
(* Empires *)

(* Every request about empires first points the worker at the registry's
   slot.                                                                   *)
LEMMA LeaveInv ==
  ASSUME IInv, NEW op \in {"create", "switch"}, NEW n \in Name, Leave(op, n),
         op = "create" => n \notin DOMAIN disk.slots /\ spent.empires < MaxEmpires,
         op = "switch" => n \in DOMAIN disk.slots
  PROVE  IInv'
<1>1. ~Booting /\ work.op = "none" /\ UNCHANGED <<disk, ledger, made, shared, spent>>
      /\ work' = [op |-> op, name |-> n]
  BY DEF Leave, Ready, Idle
<1>2. Open = disk.active /\ SessionKey \in Key
  BY <1>1, SlotFields DEF IInv, SessionFits, Open, SessionKey
<1>3. /\ worker' \in Worker /\ worker'.session = worker.session /\ worker'.key = SessionKey
  BY <1>2 DEF Leave, Registered, Settled, IInv, Typed, Worker, SessionKey
<1>4. work' \in Work /\ SameBudget
  BY <1>1 DEF Work, Ops, Key, IInv, Typed, SameBudget
<1>5. SessionSame
  BY <1>1, <1>2, <1>3, <1>4 DEF SessionSame, KeyMoves, Booting, Open
<1>6. WorkFits'
  BY <1>1, <1>3 DEF IInv, WorkFits, Booting
<1>7. QED
  BY <1>1, <1>4, <1>5, <1>6, NothingStoredInv

(* A listing does no more than that. *)
LEMMA ListInv ==
  ASSUME IInv, List
  PROVE  IInv'
<1>1. ~Booting /\ work.op = "none" /\ UNCHANGED <<disk, work, ledger, made, shared, spent>>
  BY DEF List, Ready, Idle
<1>2. Open = disk.active /\ SessionKey \in Key
  BY <1>1, SlotFields DEF IInv, SessionFits, Open, SessionKey
<1>3. /\ worker' \in Worker /\ worker'.session = worker.session /\ worker'.key = SessionKey
  BY <1>2 DEF List, IInv, Typed, Worker, SessionKey
<1>4. SessionSame /\ SameBudget
  BY <1>1, <1>2, <1>3 DEF SessionSame, KeyMoves, Booting, Open, IInv, Typed, SameBudget
<1>5. WorkFits'
  BY <1>1, <1>3 DEF IInv, WorkFits, Booting
<1>6. QED
  BY <1>1, <1>4, <1>5, NothingStoredInv

(* A new empire's name is free. *)
LEMMA CreateInv ==
  ASSUME IInv, NEW n \in Name, Create(n)
  PROVE  IInv'
BY LeaveInv DEF Create

(* A switch's target has a name. *)
LEMMA SwitchInv ==
  ASSUME IInv, NEW n \in Name, Switch(n)
  PROVE  IInv'
BY LeaveInv DEF Switch

(* A request that ends before its session is replaced. *)
LEMMA GivenUpInv ==
  ASSUME IInv, ~Booting, work.op \in {"create", "switch"}, UNCHANGED <<worker, ledger, made, shared>>,
         work' = Idle,
         \/ SaveBlob /\ UNCHANGED spent
         \/ Refused("snapshot")
  PROVE  IInv'
<1>1. Idle \in Work /\ Idle.op = "none"
  BY DEF Idle, Work, Ops, Key
<1>2. WorkFits'
  BY <1>1 DEF IInv, WorkFits, Booting
<1>3. ASSUME disk'.active = disk.active
      PROVE  SessionSame
  BY <1>1, <1>3 DEF SessionSame, KeyMoves, IInv, Typed, Booting, Open
<1>4. CASE SaveBlob /\ UNCHANGED spent
  <2>1. PlanStored /\ SameBudget
    BY <1>4, SaveBlobFacts DEF IInv, Typed, SameBudget
  <2>2. QED
    BY <1>2, <1>3, <2>1, PlanStoredInv DEF PlanStored
<1>5. CASE Refused("snapshot")
  <2>1. disk' = disk /\ SameBudget
    BY <1>5, RefusedFacts DEF IInv
  <2>2. QED
    BY <1>2, <1>3, <2>1, NothingStoredInv
<1>6. QED
  BY <1>4, <1>5

(* The outgoing plan is stored; the fresh session has no slot yet. *)
LEMMA CreatedInv ==
  ASSUME IInv, Created
  PROVE  IInv'
<1>1. work.op = "create" /\ ~Booting /\ UNCHANGED <<ledger, made, shared>>
  BY DEF Created, IInv, WorkFits
<1>2. CASE work' = Idle
  <2>1. UNCHANGED worker /\ ((SaveBlob /\ UNCHANGED spent) \/ Refused("snapshot"))
    BY <1>2 DEF Created, Idle
  <2>2. QED
    BY <1>1, <1>2, <2>1, GivenUpInv
<1>3. CASE work' # Idle
  <2>1. /\ SaveBlob /\ UNCHANGED spent
        /\ worker' = [worker EXCEPT !.session = [edits |-> {}, docs |-> worker.docs]]
        /\ work' = [work EXCEPT !.op = "register"]
    BY <1>3 DEF Created
  <2>2. PlanStored /\ SameBudget
    BY <2>1, SaveBlobFacts DEF IInv, Typed, SameBudget
  <2>3. /\ worker' \in Worker /\ worker'.session.edits = {}
        /\ worker'.session.docs # "none" /\ worker'.key = worker.key
    BY <2>1 DEF IInv, Typed, Worker, Session, Docs
  <2>4. work' \in Work /\ work'.op = "register" /\ work'.name = work.name
    BY <2>1 DEF IInv, Typed, Work, Ops
  <2>5. ledger' \in [Empire -> SUBSET Edits] /\ made' \in [Empire -> SUBSET Edits]
    BY <1>1 DEF IInv, Typed
  <2>6. /\ AnsweredEditsKept' /\ KeysApart' /\ OldIsParked'
        /\ \A k \in Key : Holds(k)' \subseteq 1 .. spent.edits
    BY <1>1, <2>2, <2>5, StoreKeeps
  <2>7. Typed'
    BY <1>1, <2>2, <2>3, <2>4, <2>5, TypedKeep DEF IInv, PlanStored, SameBudget
  <2>8. NamesIssued' /\ EditsIssued'
    <3>1. \A e \in Empire : ledger'[e] \subseteq made[e]
      BY <1>1 DEF IInv, EditsIssued
    <3>2. QED
      BY <1>1, <2>2, <2>3, <2>6, <3>1, IssuedKeep DEF PlanStored
  <2>9. ~Booting' /\ Open' = disk.active
    BY <2>2, <2>3, <2>4 DEF Booting, Asleep, Open, PlanStored
  <2>10. SessionFits'
    <3>1. disk.slots # EmptySlot /\ Open = disk.active /\ Open \in DOMAIN disk.slots /\ KeyFits
      BY <1>1 DEF IInv, SessionFits, Open
    <3>2. SessionKey' = SessionKey
      BY <2>2, <2>9, <3>1 DEF SessionKey, PlanStored
    <3>3. KeyFits'
      BY <1>1, <2>3, <2>4, <3>1, <3>2 DEF KeyFits
    <3>4. QED
      BY <2>2, <2>4, <2>9, <3>1, <3>3 DEF SessionFits, PlanStored
  <2>11. WorkFits'
    BY <1>1, <2>1, <2>2, <2>3, <2>4, <2>9 DEF IInv, WorkFits, PlanStored
  <2>12. QED
    BY <2>6, <2>7, <2>8, <2>10, <2>11 DEF IInv
<1>4. QED
  BY <1>2, <1>3

(* The outgoing plan is stored, and the key moves to the target's slot. *)
LEMMA SwitchedInv ==
  ASSUME IInv, Switched
  PROVE  IInv'
<1>1. work.op = "switch" /\ ~Booting /\ UNCHANGED <<ledger, made, shared>>
  BY DEF Switched, IInv, WorkFits
<1>2. CASE work' = Idle
  <2>1. Refused("snapshot") /\ UNCHANGED worker
    <3>1. work'.op # "load"
      BY <1>2 DEF Idle
    <3>2. [work EXCEPT !.op = "load"].op = "load"
      BY DEF IInv, Typed, Work
    <3>3. QED
      BY <3>1, <3>2 DEF Switched
  <2>2. QED
    BY <1>1, <1>2, <2>1, GivenUpInv
<1>3. CASE work' # Idle
  <2>1. /\ SaveBlob /\ UNCHANGED spent
        /\ worker' = [worker EXCEPT !.key = TargetKey]
        /\ work' = [work EXCEPT !.op = "load"]
    BY <1>3 DEF Switched, TargetKey
  <2>2. PlanStored /\ SameBudget
    BY <2>1, SaveBlobFacts DEF IInv, Typed, SameBudget
  <2>3. work.name \in DOMAIN disk.slots /\ TargetKey \in Key
    BY <1>1, SlotFields DEF IInv, WorkFits, TargetKey
  <2>4. /\ worker' \in Worker /\ worker'.session = worker.session /\ worker'.key = TargetKey
    BY <2>1, <2>3 DEF IInv, Typed, Worker
  <2>5. work' \in Work /\ work'.op = "load" /\ work'.name = work.name
    BY <2>1 DEF IInv, Typed, Work, Ops
  <2>6. SessionSame
    BY <1>1, <2>2, <2>4, <2>5 DEF SessionSame, KeyMoves, Booting, Open, PlanStored
  <2>7. WorkFits'
    BY <1>1, <2>2, <2>3, <2>4, <2>5 DEF IInv, WorkFits, Booting, PlanStored
  <2>8. QED
    BY <1>1, <2>2, <2>6, <2>7, PlanStoredInv
<1>4. QED
  BY <1>2, <1>3

(* The target's plan goes live under its own key. *)
LEMMA TargetLivesInv ==
  ASSUME IInv, work.op = "load", TargetLives, UNCHANGED <<ledger, made>>
  PROVE  IInv'
<1> DEFINE k == disk.slots[work.name].key
<1>1. ~Booting /\ work.name \in DOMAIN disk.slots /\ worker.key = k /\ disk.slots # EmptySlot
  BY DEF IInv, WorkFits, SessionFits, KeyFits, TargetKey
<1>2. /\ k \in Key
      /\ \A n \in DOMAIN disk.slots : disk.slots[n].key \in Key /\ disk.slots[n].empire \in Empire
  BY <1>1, SlotFields DEF IInv
<1>3. /\ worker.docs # "stale" /\ UNCHANGED <<disk, shared, spent>>
      /\ worker' = [worker EXCEPT !.session = [edits |-> disk.blobs[k].edits, docs |-> worker.docs]]
      /\ work' = [work EXCEPT !.op = "activate"]
  BY DEF TargetLives, Constructs, TargetBlob, TargetKey
<1>4. SameBudget /\ HoldsSame /\ OldIsParked'
  BY <1>3, DiskStays DEF IInv, Typed, SameBudget
<1>5. /\ worker' \in Worker /\ worker'.session.edits = disk.blobs[k].edits
      /\ worker'.session.docs # "none" /\ worker'.key = k
  <2>1. disk.blobs[k].edits \in SUBSET Edits
    BY <1>2 DEF IInv, Typed, Disk, Blob
  <2>2. QED
    BY <1>1, <1>3, <2>1 DEF IInv, Typed, Worker, Session, Docs
<1>6. work' \in Work /\ work'.op = "activate" /\ work'.name = work.name
  BY <1>3 DEF IInv, Typed, Work, Ops
<1>7. Typed'
  BY <1>3, <1>4, <1>5, <1>6 DEF IInv, Typed, SameBudget
<1>8. /\ AnsweredEditsKept' /\ KeysApart'
      /\ \A j \in Key : Holds(j)' \subseteq 1 .. spent.edits
  BY <1>3, <1>4, HoldsKeep
<1>9. Holds(k) = worker'.session.edits \cup disk.parked[k]
  BY <1>5 DEF Holds
<1>10. NamesIssued' /\ EditsIssued'
  <2>1. \A e \in Empire : ledger'[e] \subseteq made[e]
    BY DEF IInv, EditsIssued
  <2>2. worker'.session.edits \subseteq 1 .. spent.edits
    BY <1>2, <1>9 DEF IInv, EditsIssued
  <2>3. disk'.slots = disk.slots
    BY <1>3
  <2>4. QED
    BY <1>3, <1>4, <1>8, <2>1, <2>2, <2>3, IssuedKeep
<1>11. ~Booting' /\ Open' = work.name /\ SessionKey' = k
  BY <1>3, <1>5, <1>6 DEF Booting, Asleep, Open, SessionKey
<1>12. SessionFits'
  <2>1. KeyFits'
    BY <1>5, <1>6, <1>11 DEF KeyFits
  <2>2. k \notin shared =>
          ledger[disk.slots[work.name].empire] \subseteq worker'.session.edits \cup disk.parked[k]
    BY <1>1, <1>9 DEF IInv, AnsweredEditsKept
  <2>3. ASSUME k \notin shared, NEW m \in DOMAIN disk.slots, disk.slots[m].key \notin shared \cup {k}
        PROVE  worker'.session.edits \cap made[disk.slots[m].empire] = {}
    <3>1. Holds(k) \cap made[disk.slots[m].empire] = {}
      BY <1>2, <2>3 DEF IInv, KeysApart
    <3>2. QED
      BY <1>9, <3>1
  <2>4. QED
    BY <1>1, <1>3, <1>11, <2>1, <2>2, <2>3 DEF SessionFits
<1>13. WorkFits'
  BY <1>5, <1>6, <1>11 DEF WorkFits
<1>14. QED
  BY <1>4, <1>7, <1>8, <1>10, <1>12, <1>13 DEF IInv

(* A refused read leaves the session where it was and puts both keys on
   record, which asks less of the plans under them.                        *)
LEMMA ReadRefusedInv ==
  ASSUME IInv, work.op = "load", ReadRefused, UNCHANGED <<ledger, made>>
  PROVE  IInv'
<1>1. ~Booting /\ work.name \in DOMAIN disk.slots /\ worker.key = TargetKey
      /\ disk.slots # EmptySlot /\ Open = disk.active /\ Open \in DOMAIN disk.slots
  BY DEF IInv, WorkFits, SessionFits, KeyFits, Open
<1>2. TargetKey \in Key /\ SessionKey \in Key /\ OpenKey = SessionKey
  BY <1>1, SlotFields DEF IInv, TargetKey, SessionKey
<1>3. SameBudget /\ UNCHANGED <<disk, worker>> /\ work' = Idle
      /\ shared' = shared \cup {TargetKey, SessionKey}
  BY <1>2, RefusedFacts DEF ReadRefused, IInv
<1>4. Idle \in Work /\ Idle.op = "none"
  BY DEF Idle, Work, Ops, Key
<1>5. Typed'
  BY <1>2, <1>3, <1>4 DEF IInv, Typed, SameBudget
<1>6. HoldsSame /\ OldIsParked'
  BY <1>3, DiskStays
<1>7. NamesIssued' /\ EditsIssued'
  <2>1. NamesIssued'
    BY <1>3 DEF IInv, NamesIssued, SameBudget
  <2>2. EditsIssued'
    BY <1>3, <1>6 DEF IInv, EditsIssued, HoldsSame, SameBudget
  <2>3. QED
    BY <2>1, <2>2
<1>8. AnsweredEditsKept'
  <2>1. \A n \in DOMAIN disk.slots :
          disk.slots[n].key \notin shared =>
            ledger[disk.slots[n].empire] \subseteq Holds(disk.slots[n].key)
    BY DEF IInv, AnsweredEditsKept
  <2>2. \A n \in DOMAIN disk.slots : disk.slots[n].key \in Key
    BY SlotFields DEF IInv
  <2>3. QED
    BY <1>3, <1>6, <2>1, <2>2 DEF AnsweredEditsKept, HoldsSame
<1>9. KeysApart'
  <2> SUFFICES ASSUME NEW k \in Key \ shared', NEW m \in DOMAIN disk.slots,
                      disk.slots[m].key \notin shared' \cup {k}
               PROVE  Holds(k) \cap made[disk.slots[m].empire] = {}
    BY <1>3, <1>6 DEF KeysApart, HoldsSame
  <2>1. k \in Key \ shared /\ disk.slots[m].key \notin shared \cup {k}
    BY <1>3
  <2>2. QED
    BY <2>1 DEF IInv, KeysApart
<1>10. SessionFits'
  <2>1. Open' = Open /\ SessionKey' = SessionKey
    BY <1>1, <1>3, <1>4 DEF Open, SessionKey
  <2>2. KeyFits'
    BY <1>1, <1>3, <1>4, <2>1 DEF KeyFits
  <2>3. SessionKey \in shared'
    BY <1>3
  <2>4. QED
    BY <1>1, <1>3, <2>1, <2>2, <2>3 DEF SessionFits
<1>11. WorkFits'
  BY <1>1, <1>3, <1>4 DEF IInv, WorkFits, Booting
<1>12. QED
  BY <1>5, <1>6, <1>7, <1>8, <1>9, <1>10, <1>11 DEF IInv

(* Reading the target: it goes live, or the key goes back, or stays. *)
LEMMA LoadedInv ==
  ASSUME IInv, Loaded
  PROVE  IInv'
<1>1. work.op = "load" /\ ~Booting /\ UNCHANGED <<ledger, made>>
  BY DEF Loaded, IInv, WorkFits
<1>2. CASE /\ work' = Idle /\ worker' = [worker EXCEPT !.key = OpenKey]
           /\ UNCHANGED <<disk, shared, spent>>
  <2>1. Open = disk.active /\ SessionKey \in Key /\ OpenKey = SessionKey
    BY <1>1, SlotFields DEF IInv, SessionFits, Open, SessionKey
  <2>2. /\ worker' \in Worker /\ worker'.session = worker.session /\ worker'.key = SessionKey
    BY <1>2, <2>1 DEF IInv, Typed, Worker
  <2>3. Idle \in Work /\ Idle.op = "none"
    BY DEF Idle, Work, Ops, Key
  <2>4. SessionSame /\ SameBudget
    BY <1>1, <1>2, <2>1, <2>2, <2>3 DEF SessionSame, KeyMoves, Booting, Open, IInv, Typed, SameBudget
  <2>5. WorkFits'
    BY <1>1, <1>2, <2>2, <2>3 DEF IInv, WorkFits, Booting
  <2>6. QED
    BY <1>1, <1>2, <2>4, <2>5, NothingStoredInv
<1>3. QED
  BY <1>1, <1>2, TargetLivesInv, ReadRefusedInv DEF Loaded

(* Storing the registry touches no plan, and puts every key that two of its
   names have on record.                                                   *)
LEMMA RegistryFacts ==
  ASSUME Typed, NEW slots \in Slots, NEW active \in Name, SaveRegistry(slots, active)
  PROVE  /\ disk' \in Disk /\ disk'.slots = slots /\ disk'.active = active
         /\ disk'.blobs = disk.blobs /\ disk'.parked = disk.parked
         /\ \A k \in Key : Holds(k)' = Holds(k)
         /\ shared \subseteq shared' /\ shared' \in SUBSET Key
         /\ \A x, y \in DOMAIN slots :
              x # y /\ slots[x].key = slots[y].key => slots[x].key \in shared'
<1>1. /\ disk' \in Disk /\ disk'.slots = slots /\ disk'.active = active
      /\ disk'.blobs = disk.blobs /\ disk'.parked = disk.parked
  BY DEF Typed, SaveRegistry, Disk
<1>2. \A k \in Key : Holds(k)' = Holds(k)
  BY <1>1 DEF Holds
<1>3. \A n \in DOMAIN slots : slots[n].key \in Key
  <2>1. PICK S \in SUBSET Name : slots \in [S -> [key : Key, empire : Empire]]
    BY DEF Slots
  <2>2. QED
    BY <2>1
<1>4. shared \subseteq shared' /\ shared' \in SUBSET Key
  BY <1>3 DEF Typed, SaveRegistry
<1>5. ASSUME NEW x \in DOMAIN slots, NEW y \in DOMAIN slots, x # y, slots[x].key = slots[y].key
      PROVE  slots[x].key \in shared'
  BY <1>5 DEF SaveRegistry
<1>6. QED
  BY <1>1, <1>2, <1>4, <1>5

(* A registry whose slots are those of the old one, under any names: what a
   switch, a rename and a delete store.                                    *)
LEMMA RegistryMovedInv ==
  ASSUME IInv, ~Booting, SameBudget, UNCHANGED <<ledger, made>>, work.op \notin {"register", "load"},
         NEW slots \in Slots, NEW active \in DOMAIN slots, active \in Name,
         SaveRegistry(slots, active),
         NEW was \in [DOMAIN slots -> DOMAIN disk.slots],
         \A n \in DOMAIN slots : slots[n] = disk.slots[was[n]],
         \A n, m \in DOMAIN slots : was[n] = was[m] => n = m,
         worker' \in Worker, worker'.session = worker.session,
         worker'.key \in {worker.key, SessionKey},
         work' \in Work, work'.op \notin {"register", "load", "activate"}, was[active] = Open,
         WorkFits'
  PROVE  IInv'
<1>1. /\ disk' \in Disk /\ disk'.slots = slots /\ disk'.active = active
      /\ disk'.blobs = disk.blobs /\ disk'.parked = disk.parked
      /\ \A k \in Key : Holds(k)' = Holds(k)
      /\ shared \subseteq shared' /\ shared' \in SUBSET Key
      /\ \A x, y \in DOMAIN slots :
           x # y /\ slots[x].key = slots[y].key => slots[x].key \in shared'
  BY RegistryFacts DEF IInv
<1>2. \A n \in DOMAIN disk.slots : disk.slots[n].key \in Key /\ disk.slots[n].empire \in Empire
  BY SlotFields DEF IInv
<1>3. /\ disk.slots # EmptySlot /\ Open \in DOMAIN disk.slots
      /\ SessionKey = disk.slots[Open].key /\ KeyFits
      /\ SessionKey \notin shared =>
           /\ ledger[disk.slots[Open].empire] \subseteq worker.session.edits \cup disk.parked[SessionKey]
           /\ \A m \in DOMAIN disk.slots :
                disk.slots[m].key \notin shared \cup {SessionKey} =>
                  worker.session.edits \cap made[disk.slots[m].empire] = {}
  BY DEF IInv, SessionFits, SessionKey
<1>4. slots # EmptySlot
  <2>1. DOMAIN EmptySlot = {}
    BY DEF EmptySlot
  <2>2. QED
    BY <2>1
<1>5. Typed'
  BY <1>1 DEF IInv, Typed, SameBudget
<1>6. NamesIssued'
  <2>1. ASSUME NEW n \in DOMAIN slots
        PROVE  slots[n].empire <= spent.empires
    BY DEF IInv, NamesIssued
  <2>2. ASSUME NEW n \in DOMAIN slots, NEW m \in DOMAIN slots, n # m
        PROVE  slots[n].empire # slots[m].empire
    <3>1. was[n] # was[m] /\ was[n] \in DOMAIN disk.slots /\ was[m] \in DOMAIN disk.slots
      BY <2>2
    <3>2. disk.slots[was[n]].empire # disk.slots[was[m]].empire
      BY <3>1 DEF IInv, NamesIssued
    <3>3. QED
      BY <3>2
  <2>3. QED
    BY <1>1, <2>1, <2>2 DEF NamesIssued, SameBudget
<1>7. EditsIssued'
  BY <1>1, <1>3, <1>4 DEF IInv, EditsIssued, SameBudget
<1>8. AnsweredEditsKept'
  <2> SUFFICES ASSUME NEW n \in DOMAIN slots, slots[n].key \notin shared'
               PROVE  ledger[slots[n].empire] \subseteq Holds(slots[n].key)
    BY <1>1, <1>2 DEF AnsweredEditsKept
  <2>1. was[n] \in DOMAIN disk.slots /\ disk.slots[was[n]].key \notin shared
    BY <1>1
  <2>2. QED
    BY <2>1 DEF IInv, AnsweredEditsKept
<1>9. KeysApart'
  <2> SUFFICES ASSUME NEW k \in Key \ shared', NEW m \in DOMAIN slots,
                      slots[m].key \notin shared' \cup {k}
               PROVE  Holds(k) \cap made[slots[m].empire] = {}
    BY <1>1 DEF KeysApart
  <2>1. /\ was[m] \in DOMAIN disk.slots /\ disk.slots[was[m]].key \notin shared \cup {k}
        /\ k \in Key \ shared
    BY <1>1
  <2>2. QED
    BY <2>1 DEF IInv, KeysApart
<1>10. OldIsParked'
  BY <1>1 DEF IInv, OldIsParked, SameBudget
<1>11. SessionFits'
  <2>1. Open' = active /\ slots[active] = disk.slots[Open] /\ SessionKey' = SessionKey
    BY <1>1 DEF Open, SessionKey
  <2>2. ASSUME SessionKey \notin shared', NEW m \in DOMAIN slots,
               slots[m].key \notin shared' \cup {SessionKey}
        PROVE  worker.session.edits \cap made[slots[m].empire] = {}
    BY <1>1, <1>3, <2>2
  <2>3. KeyFits'
    BY <1>1, <1>3, <2>1 DEF KeyFits
  <2>4. QED
    BY <1>1, <1>3, <1>4, <2>1, <2>2, <2>3 DEF SessionFits
<1>12. QED
  BY <1>5, <1>6, <1>7, <1>8, <1>9, <1>10, <1>11 DEF IInv

(* A switch is over once the registry names the session's slot. *)
LEMMA ActivateInv ==
  ASSUME IInv, Dependable, Activate
  PROVE  IInv'
<1> DEFINE was == [n \in DOMAIN disk.slots |-> n]
<1>1. /\ work.op = "activate" /\ work' = Idle /\ UNCHANGED <<worker, ledger, made, spent>>
      /\ SaveRegistry(disk.slots, work.name)
  BY DEF Activate, Refused, Dependable
<1>2. ~Booting /\ Open = work.name /\ work.name \in DOMAIN disk.slots
  BY <1>1 DEF IInv, WorkFits, SessionFits, Open
<1>3. disk.slots \in Slots /\ work.name \in Name /\ SameBudget
  BY <1>1, <1>2, SlotFields DEF IInv, Typed, Disk, SameBudget
<1>4. work' \in Work /\ work'.op = "none"
  BY <1>1 DEF Idle, Work, Ops, Key
<1>5. WorkFits'
  BY <1>1, <1>2, <1>4 DEF IInv, WorkFits, Booting
<1>6. worker' \in Worker
  BY <1>1 DEF IInv, Typed
<1>7. was \in [DOMAIN disk.slots -> DOMAIN disk.slots]
  OBVIOUS
<1>8. QED
  BY <1>1, <1>2, <1>3, <1>4, <1>5, <1>6, <1>7, RegistryMovedInv

(* A rename moves a slot to another name; the key stays. *)
LEMMA RenameInv ==
  ASSUME IInv, Dependable, NEW f \in Name, NEW t \in Name, Rename(f, t)
  PROVE  IInv'
<1> DEFINE slots == Renamed(f, t)
           active == IF disk.active = f THEN t ELSE disk.active
           was == [n \in (DOMAIN disk.slots \ {f}) \cup {t} |-> IF n = t THEN f ELSE n]
<1>1. /\ ~Booting /\ work.op = "none" /\ f \in DOMAIN disk.slots /\ t \notin DOMAIN disk.slots
      /\ UNCHANGED <<work, ledger, made, spent>> /\ SaveRegistry(slots, active)
      /\ worker' = [worker EXCEPT !.key = disk.slots[disk.active].key]
  BY DEF Rename, Ready, Idle, Refused, Dependable
<1>2. Open = disk.active /\ disk.active \in DOMAIN disk.slots
      /\ SessionKey = disk.slots[disk.active].key /\ SessionKey \in Key
  BY <1>1, SlotFields DEF IInv, SessionFits, Open, SessionKey
<1>3. DOMAIN slots = (DOMAIN disk.slots \ {f}) \cup {t} /\ DOMAIN disk.slots \subseteq Name
      /\ \A n \in DOMAIN slots : slots[n] = disk.slots[was[n]]
  BY SlotFields DEF Renamed, IInv
<1>4. slots \in Slots
  <2>1. PICK S \in SUBSET Name : disk.slots \in [S -> [key : Key, empire : Empire]]
    BY DEF IInv, Typed, Disk, Slots
  <2>2. slots \in [((S \ {f}) \cup {t}) -> [key : Key, empire : Empire]]
    BY <1>1, <2>1 DEF Renamed
  <2>3. QED
    BY <2>2 DEF Slots
<1>5. was \in [DOMAIN slots -> DOMAIN disk.slots] /\ \A n, m \in DOMAIN slots : was[n] = was[m] => n = m
  BY <1>1, <1>3
<1>6. active \in DOMAIN slots /\ active \in Name /\ was[active] = Open
  BY <1>1, <1>2, <1>3
<1>7. worker' \in Worker /\ worker'.session = worker.session /\ worker'.key = SessionKey
  BY <1>1, <1>2 DEF IInv, Typed, Worker
<1>8. work' \in Work /\ work'.op = "none" /\ SameBudget
  BY <1>1 DEF IInv, Typed, SameBudget
<1>9. WorkFits'
  BY <1>1, <1>7, <1>8 DEF IInv, WorkFits, Booting
<1>10. QED
  <2> HIDE DEF slots, active, was
  <2> QED
    BY <1>1, <1>3, <1>4, <1>5, <1>6, <1>7, <1>8, <1>9, RegistryMovedInv

(* A delete takes a name away.  Its key is then no one's, or two had it. *)
LEMMA DeleteInv ==
  ASSUME IInv, Dependable, NEW n \in Name, Delete(n)
  PROVE  IInv'
<1> DEFINE slots == Restrict(disk.slots, DOMAIN disk.slots \ {n})
           was == [m \in DOMAIN disk.slots \ {n} |-> m]
<1>1. /\ ~Booting /\ work.op = "none" /\ n \in DOMAIN disk.slots /\ n # disk.active
      /\ UNCHANGED <<ledger, made, spent>> /\ SaveRegistry(slots, disk.active)
      /\ worker' = [worker EXCEPT !.key = disk.slots[disk.active].key]
      /\ work' = [op |-> "erase", name |-> disk.slots[n].key]
  BY DEF Delete, Ready, Idle, Refused, Dependable
<1>2. Open = disk.active /\ disk.active \in DOMAIN disk.slots
      /\ SessionKey = disk.slots[disk.active].key /\ SessionKey \in Key
  BY <1>1, SlotFields DEF IInv, SessionFits, Open, SessionKey
<1>3. DOMAIN slots = DOMAIN disk.slots \ {n} /\ DOMAIN disk.slots \subseteq Name
      /\ \A m \in DOMAIN slots : slots[m] = disk.slots[was[m]] /\ was[m] = m
  BY SlotFields DEF Restrict, IInv
<1>4. slots \in Slots
  <2>1. PICK S \in SUBSET Name : disk.slots \in [S -> [key : Key, empire : Empire]]
    BY DEF IInv, Typed, Disk, Slots
  <2>2. slots \in [(S \ {n}) -> [key : Key, empire : Empire]]
    BY <2>1 DEF Restrict
  <2>3. QED
    BY <2>2 DEF Slots
<1>5. was \in [DOMAIN slots -> DOMAIN disk.slots] /\ \A x, y \in DOMAIN slots : was[x] = was[y] => x = y
  BY <1>3
<1>6. disk.active \in DOMAIN slots /\ disk.active \in Name /\ was[disk.active] = Open
  BY <1>1, <1>2, <1>3
<1>7. worker' \in Worker /\ worker'.session = worker.session /\ worker'.key = SessionKey
  BY <1>1, <1>2 DEF IInv, Typed, Worker
<1>8. work' \in Work /\ work'.op = "erase" /\ work'.name = disk.slots[n].key /\ SameBudget
  BY <1>1, SlotFields DEF IInv, Typed, Work, Ops, SameBudget
<1>9. WorkFits'
  <2>1. disk'.slots = slots /\ shared \subseteq shared'
    <3>1. disk.active \in Name /\ Typed
      BY <1>6 DEF IInv
    <3> HIDE DEF slots
    <3>2. QED
      BY <1>1, <1>4, <3>1, RegistryFacts
  <2>2. work'.name \notin LiveKeys' \/ work'.name \in shared'
    <3>1. ASSUME NEW m \in DOMAIN slots, slots[m].key = disk.slots[n].key
          PROVE  disk.slots[n].key \in shared
      <4>1. m \in DOMAIN disk.slots /\ m # n /\ disk.slots[m].key = disk.slots[n].key
        BY <1>3, <3>1
      <4>2. QED
        BY <1>1, <4>1 DEF IInv, NamesIssued
    <3>2. QED
      BY <1>8, <2>1, <3>1 DEF LiveKeys
  <2>3. ~Booting'
    BY <1>1, <1>7 DEF Booting
  <2>4. QED
    BY <1>1, <1>7, <1>8, <2>2, <2>3 DEF IInv, WorkFits
<1>10. QED
  <2> HIDE DEF slots, was
  <2> QED
    BY <1>1, <1>2, <1>3, <1>4, <1>5, <1>6, <1>7, <1>8, <1>9, RegistryMovedInv

(* A new name's slot is keyed by the name.  Whatever an older empire left
   under that key, its edits are in no living empire; and the new empire
   has no edits yet.                                                       *)
LEMMA RegisterInv ==
  ASSUME IInv, Dependable, Register
  PROVE  IInv'
<1> DEFINE new == [key |-> work.name, empire |-> spent.empires + 1]
           slots == SlotsWith(work.name, new)
<1>1. /\ work.op = "register" /\ UNCHANGED <<ledger, made>>
      /\ SaveRegistry(slots, work.name) /\ Spend("empires")
      /\ worker' = [worker EXCEPT !.key = work.name]
      /\ work' = [work EXCEPT !.op = "seed"]
  BY DEF Register, Refused, Dependable
<1>2. /\ ~Booting /\ work.name \in Name /\ work.name \notin DOMAIN disk.slots
      /\ spent.empires < MaxEmpires /\ spent.empires \in Nat
  BY <1>1 DEF IInv, WorkFits, Typed, Budget
<1>3. /\ DOMAIN disk.slots \subseteq Name
      /\ \A n \in DOMAIN disk.slots :
           /\ disk.slots[n].key \in Key /\ disk.slots[n].empire \in Empire
           /\ disk.slots[n].empire <= spent.empires
  BY SlotFields DEF IInv, NamesIssued
<1>4. /\ DOMAIN slots = DOMAIN disk.slots \cup {work.name}
      /\ slots[work.name] = new
      /\ \A n \in DOMAIN disk.slots : n # work.name /\ slots[n] = disk.slots[n]
  BY <1>2 DEF SlotsWith
<1>5. new \in [key : Key, empire : Empire]
      /\ spent.empires + 1 \in Empire
  BY <1>2 DEF Key, Empire
<1>6. slots \in Slots
  <2>1. PICK S \in SUBSET Name : disk.slots \in [S -> [key : Key, empire : Empire]]
    BY DEF IInv, Typed, Disk, Slots
  <2>2. slots \in [(S \cup {work.name}) -> [key : Key, empire : Empire]]
    BY <1>5, <2>1 DEF SlotsWith
  <2>3. QED
    BY <1>2, <2>2 DEF Slots
<1>7. new.key = work.name /\ new.empire = spent.empires + 1
  OBVIOUS
<1> HIDE DEF slots, new
<1>8. /\ disk' \in Disk /\ disk'.slots = slots /\ disk'.active = work.name
      /\ disk'.blobs = disk.blobs /\ disk'.parked = disk.parked
      /\ \A k \in Key : Holds(k)' = Holds(k)
      /\ shared \subseteq shared' /\ shared' \in SUBSET Key
      /\ \A x, y \in DOMAIN slots :
           x # y /\ slots[x].key = slots[y].key => slots[x].key \in shared'
  BY <1>1, <1>2, <1>6, RegistryFacts DEF IInv
<1>9. made[spent.empires + 1] = {} /\ ledger[spent.empires + 1] = {}
  BY <1>2, <1>5 DEF IInv, EditsIssued
<1>10. /\ spent' \in Budget /\ spent'.empires = spent.empires + 1
       /\ spent'.edits = spent.edits /\ spent'.upgrades = spent.upgrades
  BY <1>1, <1>2 DEF IInv, Typed, Spend, Budget
<1>11. /\ worker' \in Worker /\ worker'.session = worker.session /\ worker'.key = work.name
  BY <1>1 DEF IInv, Typed, Worker, Work
<1>12. work' \in Work /\ work'.op = "seed"
  BY <1>1 DEF IInv, Typed, Work, Ops
<1>13. Typed'
  BY <1>1, <1>4, <1>8, <1>10, <1>11, <1>12 DEF IInv, Typed
<1>14. NamesIssued'
  <2>1. ASSUME NEW n \in DOMAIN slots
        PROVE  slots[n].empire <= spent.empires + 1
    BY <1>2, <1>3, <1>4, <1>7 DEF Empire
  <2>2. ASSUME NEW n \in DOMAIN slots, NEW m \in DOMAIN slots, n # m
        PROVE  slots[n].empire # slots[m].empire
    <3>1. CASE n \in DOMAIN disk.slots /\ m \in DOMAIN disk.slots
      BY <1>4, <2>2, <3>1 DEF IInv, NamesIssued
    <3>2. ASSUME NEW i \in DOMAIN disk.slots
          PROVE  slots[i].empire # slots[work.name].empire
      <4>1. slots[i].empire \in Nat /\ slots[i].empire <= spent.empires
        BY <1>3, <1>4 DEF Empire
      <4>2. QED
        BY <1>2, <1>4, <1>7, <4>1
    <3>3. QED
      BY <1>4, <2>2, <3>1, <3>2
  <2>3. QED
    BY <1>8, <1>10, <2>1, <2>2 DEF NamesIssued
<1>15. EditsIssued'
  <2>1. disk.slots # EmptySlot /\ slots # EmptySlot
    <3>1. DOMAIN EmptySlot = {}
      BY DEF EmptySlot
    <3>2. QED
      BY <1>2, <1>4, <3>1 DEF IInv, SessionFits
  <2>2. ASSUME NEW e \in Empire, e > spent.empires + 1
        PROVE  made[e] = {}
    <3>1. e > spent.empires
      BY <1>2, <2>2 DEF Empire
    <3>2. QED
      BY <3>1 DEF IInv, EditsIssued
  <2>3. QED
    BY <1>1, <1>8, <1>10, <1>11, <2>1, <2>2 DEF IInv, EditsIssued
<1>16. AnsweredEditsKept'
  <2> SUFFICES ASSUME NEW n \in DOMAIN slots, slots[n].key \notin shared'
               PROVE  ledger[slots[n].empire] \subseteq Holds(slots[n].key)
    BY <1>1, <1>3, <1>4, <1>5, <1>8 DEF AnsweredEditsKept
  <2>1. CASE n = work.name
    BY <1>4, <1>7, <1>9, <2>1
  <2>2. CASE n \in DOMAIN disk.slots
    BY <1>4, <1>8, <2>2 DEF IInv, AnsweredEditsKept
  <2>3. QED
    BY <1>4, <2>1, <2>2
<1>17. KeysApart'
  <2> SUFFICES ASSUME NEW k \in Key \ shared', NEW m \in DOMAIN slots,
                      slots[m].key \notin shared' \cup {k}
               PROVE  Holds(k) \cap made[slots[m].empire] = {}
    BY <1>1, <1>8 DEF KeysApart
  <2>1. CASE m = work.name
    BY <1>4, <1>7, <1>9, <2>1
  <2>2. CASE m \in DOMAIN disk.slots
    BY <1>4, <1>8, <2>2 DEF IInv, KeysApart
  <2>3. QED
    BY <1>4, <2>1, <2>2
<1>18. OldIsParked'
  BY <1>8, <1>10 DEF IInv, OldIsParked
<1>19. SessionFits'
  <2>1. Open' = work.name /\ work.name \in DOMAIN slots /\ slots # EmptySlot
    <3>1. DOMAIN EmptySlot = {}
      BY DEF EmptySlot
    <3>2. QED
      BY <1>4, <1>8, <1>12, <3>1 DEF Open
  <2>2. worker.session.edits = {}
    BY <1>1 DEF IInv, WorkFits
  <2>3. SessionKey' = work.name
    BY <1>4, <1>7, <1>8, <2>1 DEF SessionKey
  <2>4. KeyFits'
    BY <1>11, <1>12, <2>3 DEF KeyFits
  <2>5. QED
    BY <1>1, <1>4, <1>7, <1>8, <1>9, <1>11, <2>1, <2>2, <2>3, <2>4 DEF SessionFits
<1>20. WorkFits'
  BY <1>2, <1>11, <1>12 DEF IInv, WorkFits, Booting
<1>21. QED
  BY <1>13, <1>14, <1>15, <1>16, <1>17, <1>18, <1>19, <1>20 DEF IInv

(* The fresh plan is stored in its slot, or it is not: nothing was in it. *)
LEMMA SeedInv ==
  ASSUME IInv, Seed
  PROVE  IInv'
<1>1. /\ work.op = "seed" /\ work' = Idle /\ worker' = Settled /\ ~Booting
      /\ UNCHANGED <<ledger, made, shared>>
  BY DEF Seed, IInv, WorkFits
<1>2. /\ worker' \in Worker /\ worker'.session = worker.session /\ worker'.key = worker.key
  BY <1>1 DEF Settled, IInv, Typed, Worker
<1>3. work' \in Work /\ work'.op = "none"
  BY <1>1 DEF Idle, Work, Ops, Key
<1>4. WorkFits'
  BY <1>1, <1>2, <1>3 DEF IInv, WorkFits, Booting
<1>5. ASSUME disk'.active = disk.active
      PROVE  SessionSame
  BY <1>1, <1>2, <1>3, <1>5 DEF SessionSame, KeyMoves, Booting, Open
<1>6. CASE SaveBlob /\ UNCHANGED spent
  <2>1. PlanStored /\ SameBudget
    BY <1>6, SaveBlobFacts DEF IInv, Typed, SameBudget
  <2>2. QED
    BY <1>1, <1>4, <1>5, <2>1, PlanStoredInv DEF PlanStored
<1>7. CASE Refused("snapshot")
  <2>1. disk' = disk /\ SameBudget
    BY <1>7, RefusedFacts DEF IInv
  <2>2. QED
    BY <1>1, <1>4, <1>5, <2>1, NothingStoredInv
<1>8. QED
  BY <1>6, <1>7 DEF Seed

(* A deleted plan and its parked copy go, from a key that is no one's. *)
LEMMA EraseInv ==
  ASSUME IInv, Erase
  PROVE  IInv'
<1>1. /\ work.op \in {"erase", "erase parked"} /\ ~Booting
      /\ UNCHANGED <<worker, ledger, made, shared, spent>>
  BY DEF Erase, IInv, WorkFits
<1>2. work.name \in Key /\ (work.name \notin LiveKeys \/ work.name \in shared)
  BY <1>1 DEF IInv, WorkFits, Typed, Work
<1>3. /\ disk' \in Disk /\ disk'.slots = disk.slots /\ disk'.active = disk.active
      /\ \A k \in Key \ {work.name} :
           disk'.blobs[k] = disk.blobs[k] /\ disk'.parked[k] = disk.parked[k]
      /\ disk'.blobs[work.name] \in {disk.blobs[work.name], Nothing}
      /\ disk'.parked[work.name] \in {disk.parked[work.name], {}}
  <2>1. Nothing \in Blob
    BY DEF Nothing, Blob
  <2>2. CASE disk' = [disk EXCEPT !.blobs[work.name] = Nothing]
    BY <1>2, <2>1, <2>2 DEF IInv, Typed, Disk
  <2>3. CASE disk' = [disk EXCEPT !.parked[work.name] = {}]
    BY <1>2, <2>3 DEF IInv, Typed, Disk
  <2>4. QED
    BY <2>2, <2>3 DEF Erase
<1>4. \A k \in Key \ {work.name} : Holds(k)' = Holds(k)
  BY <1>3 DEF Holds, Nothing
<1>5. \A k \in Key : Holds(k)' \subseteq Holds(k)
  BY <1>3 DEF Holds, Nothing
<1>6. /\ \A n \in DOMAIN disk.slots : disk.slots[n].key \in Key /\ disk.slots[n].empire \in Empire
      /\ \A n \in DOMAIN disk.slots : disk.slots[n].key \notin shared => disk.slots[n].key # work.name
  BY <1>2, SlotFields DEF IInv, LiveKeys
<1>7. work' \in Work /\ work'.op \in {"none", "erase parked"} /\ (work'.op = "none" \/ work'.name = work.name)
  <2>1. CASE work' = [work EXCEPT !.op = "erase parked"]
    BY <2>1 DEF IInv, Typed, Work, Ops
  <2>2. CASE work' = Idle
    BY <2>2 DEF Idle, Work, Ops, Key
  <2>3. QED
    BY <2>1, <2>2 DEF Erase
<1>8. SameBudget
  BY <1>1 DEF IInv, Typed, SameBudget
<1>9. Typed'
  BY <1>1, <1>3, <1>7, <1>8, TypedKeep DEF IInv, Typed
<1>10. NamesIssued' /\ EditsIssued'
  <2>1. /\ \A k \in Key : Holds(k)' \subseteq 1 .. spent.edits
        /\ worker'.session.edits \subseteq 1 .. spent.edits
        /\ \A e \in Empire : ledger'[e] \subseteq made[e]
    BY <1>1, <1>5 DEF IInv, EditsIssued
  <2>2. QED
    BY <1>1, <1>3, <1>8, <2>1, IssuedKeep
<1>11. AnsweredEditsKept'
  <2> SUFFICES ASSUME NEW n \in DOMAIN disk.slots, disk.slots[n].key \notin shared
               PROVE  \A k \in Key : k = disk.slots[n].key => ledger[disk.slots[n].empire] \subseteq Holds(k)'
    BY <1>1, <1>3, <1>6 DEF AnsweredEditsKept
  <2>1. ledger[disk.slots[n].empire] \subseteq Holds(disk.slots[n].key)
    BY DEF IInv, AnsweredEditsKept
  <2>2. QED
    BY <1>4, <1>6, <2>1
<1>12. KeysApart'
  <2> SUFFICES ASSUME NEW k \in Key \ shared, NEW m \in DOMAIN disk.slots,
                      disk.slots[m].key \notin shared \cup {k}
               PROVE  Holds(k)' \cap made[disk.slots[m].empire] = {}
    BY <1>1, <1>3 DEF KeysApart
  <2>1. Holds(k) \cap made[disk.slots[m].empire] = {}
    BY DEF IInv, KeysApart
  <2>2. QED
    BY <1>5, <2>1
<1>13. OldIsParked'
  BY <1>2, <1>3, <1>8 DEF IInv, OldIsParked, Nothing, SameBudget
<1>14. SessionFits'
  <2>1. Open = disk.active /\ Open' = disk.active
    BY <1>1, <1>3, <1>7 DEF Open
  <2>2. SessionKey' = SessionKey /\ SessionKey \in Key
    BY <1>1, <1>3, <1>6, <2>1 DEF SessionKey, IInv, SessionFits
  <2>3. SessionKey \notin shared => SessionKey # work.name
    BY <1>1, <1>6, <2>1 DEF IInv, SessionFits, SessionKey
  <2>4. KeyFits'
    BY <1>1, <1>7, <2>2 DEF IInv, SessionFits, KeyFits
  <2>5. QED
    BY <1>1, <1>3, <2>1, <2>2, <2>3, <2>4 DEF IInv, SessionFits
<1>15. WorkFits'
  <2>1. disk'.slots = disk.slots
    BY <1>3
  <2>2. LiveKeys' = LiveKeys
    BY <2>1 DEF LiveKeys
  <2>3. worker.session.docs # "none" /\ ~Booting'
    BY <1>1 DEF IInv, WorkFits, Booting
  <2>4. QED
    BY <1>1, <1>2, <1>7, <2>2, <2>3 DEF WorkFits
<1>16. QED
  BY <1>9, <1>10, <1>11, <1>12, <1>13, <1>14, <1>15 DEF IInv

------------------------------------------------------------------------------
(* The tab *)

(* A newer build reads less of what is stored; nothing is taken from it. *)
LEMMA ReloadInv ==
  ASSUME IInv, Reload
  PROVE  IInv'
<1>1. worker' = NewWorker /\ work' = Idle /\ UNCHANGED <<ledger, made, shared>>
  BY DEF Reload
<1>2. /\ worker' \in Worker /\ work' \in Work /\ work'.op = "none"
      /\ worker'.session = Asleep /\ Asleep.edits = {}
  BY <1>1 DEF NewWorker, Worker, Session, Asleep, Docs, Key, Idle, Work, Ops
<1>3. Booting'
  BY <1>2 DEF Booting
<1>4. /\ spent' \in Budget /\ spent'.edits = spent.edits /\ spent'.empires = spent.empires
  <2>1. spent \in Budget /\ spent.crashes + 1 \in Nat
    BY DEF IInv, Typed, Budget
  <2>2. CASE spent' = [spent EXCEPT !.crashes = @ + 1]
    BY <2>1, <2>2 DEF Budget
  <2>3. CASE spent' = [spent EXCEPT !.crashes = @ + 1, !.upgrades = 1]
    BY <2>1, <2>3 DEF Budget
  <2>4. QED
    BY <2>2, <2>3 DEF Reload, Spend
<1>5. HoldsSame /\ OldIsParked'
  <2>1. CASE UNCHANGED disk /\ Spend("crashes")
    BY <2>1, DiskStays DEF IInv, Typed, Spend, Budget, SameBudget
  <2>2. ASSUME NEW stale \in SUBSET Upgrades, disk' = Aged(stale), spent.upgrades = 0, spent'.upgrades = 1
        PROVE  HoldsSame /\ OldIsParked'
    <3>1. /\ disk' \in Disk /\ disk'.slots = disk.slots /\ disk'.active = disk.active
          /\ disk'.parked = disk.parked
          /\ \A k \in Key : disk'.blobs[k].edits = disk.blobs[k].edits
      BY <2>2 DEF IInv, Typed, Disk, Aged, Blob, Docs
    <3>2. \A k \in Key : Holds(k)' = Holds(k)
      BY <3>1 DEF Holds
    <3>3. OldIsParked'
      BY <2>2, <3>1 DEF IInv, OldIsParked
    <3>4. QED
      BY <3>1, <3>2, <3>3 DEF HoldsSame
  <2>3. QED
    BY <2>1, <2>2 DEF Reload, IInv, Typed, Budget
<1>6. Typed'
  BY <1>1, <1>2, <1>4, <1>5, TypedKeep DEF IInv, HoldsSame, Typed
<1>7. /\ AnsweredEditsKept' /\ KeysApart'
      /\ \A k \in Key : Holds(k)' \subseteq 1 .. spent.edits
  BY <1>1, <1>5, HoldsKeep
<1>8. NamesIssued'
  BY <1>1, <1>4, <1>5 DEF IInv, NamesIssued, HoldsSame
<1>9. EditsIssued'
  BY <1>1, <1>2, <1>4, <1>5, <1>7 DEF IInv, EditsIssued, HoldsSame
<1>10. SessionFits' /\ WorkFits'
  BY <1>2, <1>3 DEF SessionFits, WorkFits
<1>11. QED
  BY <1>5, <1>6, <1>7, <1>8, <1>9, <1>10 DEF IInv

------------------------------------------------------------------------------
(* Every step of the worker keeps the invariant. *)
LEMMA NextInv ==
  ASSUME IInv, Dependable, [Next]_vars
  PROVE  IInv'
<1>1. CASE Request
  <2>1. CASE Edit \/ SetViewState \/ UploadDocs \/ List
    BY <2>1, EditInv, SetViewStateInv, UploadDocsInv, ListInv
  <2>2. CASE \E n \in Name : Create(n) \/ Switch(n) \/ Delete(n)
    BY <2>2, CreateInv, SwitchInv, DeleteInv
  <2>3. CASE \E f, t \in Name : Rename(f, t)
    BY <2>3, RenameInv
  <2>4. QED
    BY <1>1, <2>1, <2>2, <2>3 DEF Request
<1>2. CASE Continue
  <2>1. CASE Boot
    BY <2>1, BootWholeInv, BootWithoutPlanInv, BootWithoutDocsInv, BootOnFixtureInv DEF Boot
  <2>2. CASE Adopt \/ AnswerEdit \/ Created \/ Switched \/ Loaded
    BY <2>2, AdoptInv, AnswerEditInv, CreatedInv, SwitchedInv, LoadedInv
  <2>3. CASE Register \/ Seed \/ Activate \/ Erase
    BY <2>3, RegisterInv, SeedInv, ActivateInv, EraseInv
  <2>4. QED
    BY <1>2, <2>1, <2>2, <2>3 DEF Continue
<1>3. CASE ViewTimerFires \/ Flush \/ Reload
  BY <1>3, ViewTimerFiresInv, FlushInv, ReloadInv
<1>4. CASE UNCHANGED vars
  <2>1. UNCHANGED <<disk, worker, work, ledger, made, shared, spent>>
    BY <1>4 DEF vars
  <2>2. Typed' /\ SameBudget
    BY <2>1 DEF IInv, Typed, SameBudget
  <2>3. SessionSame
    BY <2>1 DEF SessionSame, KeyMoves, IInv, Typed, Booting, Open
  <2>4. WorkFits'
    BY <2>1 DEF IInv, WorkFits, Booting, Owner, LiveKeys
  <2>5. QED
    BY <2>1, <2>2, <2>3, <2>4, NothingStoredInv
<1>5. QED
  BY <1>1, <1>2, <1>3, <1>4 DEF Next

(* What the worker keeps of each request, each crash and each refusal. *)
THEOREM AlwaysSound ==
  ASSUME Dependable
  PROVE  Spec => []IInv
<1>1. Init => IInv
  BY InitInv
<1>2. IInv /\ [Next]_vars => IInv'
  BY NextInv
<1>3. QED
  BY <1>1, <1>2, PTL DEF Spec

(* TypeOK: the store, the worker and the request under way have their
   types.                                                                  *)
THEOREM TypeCorrect ==
  ASSUME Dependable
  PROVE  Spec => []TypeOK
<1>1. IInv => TypeOK
  BY DEF IInv, Typed, TypeOK, Disk, Worker, Session, Work, Blob, Key
<1>2. QED
  BY <1>1, AlwaysSound, PTL

(* EmpiresKept: through switches, renames, deletions, failed writes of plans
   and catalogs, refused reads of a switch's target, closed tabs and a build
   that cannot read old plans, each empire keeps its answered edits and no
   living empire's land in another, unless its key is in shared: two names
   had it, or a refused read left one empire's session at the other's key. *)
THEOREM EmpiresAlwaysKept ==
  ASSUME Dependable
  PROVE  Spec => []EmpiresKept
<1>1. IInv => EmpiresKept
  <2>1. ASSUME IInv
        PROVE  EmpiresApart
    <3> SUFFICES ASSUME NEW n \in DOMAIN disk.slots, NEW m \in DOMAIN disk.slots, n # m,
                        {disk.slots[n].key, disk.slots[m].key} \cap shared = {}
                 PROVE  Holds(disk.slots[n].key) \cap made[disk.slots[m].empire] = {}
      BY DEF EmpiresApart
    <3>1. disk.slots[n].key \in Key \ shared /\ disk.slots[m].key \notin shared \cup {disk.slots[n].key}
      BY <2>1, SlotFields DEF IInv, NamesIssued
    <3>2. QED
      BY <2>1, <3>1 DEF IInv, KeysApart
  <2>2. QED
    BY <2>1 DEF IInv, EmpiresKept
<1>2. QED
  BY <1>1, AlwaysSound, PTL

==============================================================================
