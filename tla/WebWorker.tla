------------------------------ MODULE WebWorker ------------------------------
(***************************************************************************)
(* The web build's worker: one live session, one IndexedDB store.  Every   *)
(* request runs alone on a promise chain, but each of its IndexedDB        *)
(* transactions is awaited: the tab may close, or the transaction fail,    *)
(* between any two.  Of the reads, the one of a switch's target may fail;  *)
(* those of the registry and at boot are taken to succeed.  A plan is the  *)
(* set of edits it holds; a stored plan or catalog turns unreadable when a *)
(* new build no longer parses it.                                          *)
(*                                                                         *)
(* The registry maps each empire's name to the key its plan is stored      *)
(* under: "current" for the adopted one, else the name it was created by.  *)
(* `empire` in a slot, ledger, made and shared are history: which empire   *)
(* the slot was made for, the edits answered as done and the edits made in *)
(* each, and the keys two empires have shared, by their names or because   *)
(* a refused read left one's session at the other's key.                   *)
(***************************************************************************)
EXTENDS Naturals, Functions

CONSTANTS Name,       \* names a user gives empires
          First,      \* the name of the adopted empire
          Failing,    \* the kinds of transaction that may fail
          Upgrades,   \* what a new build may fail to read: "plan", "docs"
          MaxEdits, MaxEmpires, MaxCrashes, MaxFaults, MaxFlushes

ASSUME WorkerAssumption ==
  /\ First \in Name
  /\ MaxEdits \in Nat /\ MaxEmpires \in Nat
  /\ MaxCrashes \in Nat /\ MaxFaults \in Nat /\ MaxFlushes \in Nat

VARIABLES disk, worker, work, ledger, made, shared, spent

vars == <<disk, worker, work, ledger, made, shared, spent>>

Key    == Name \cup {"current"}
Docs   == {"fixture", "uploaded", "stale"}
Empire == 0 .. MaxEmpires

Nothing == [edits |-> {}, old |-> FALSE]      \* no blob under the key
Asleep  == [edits |-> {}, docs |-> "none"]    \* no session yet
Idle    == [op |-> "none", name |-> First]

Edits == 1 .. MaxEdits

Slots     == UNION {[S -> [key : Key, empire : Empire]] : S \in SUBSET Name}
EmptySlot == [n \in {} |-> 0]
LiveKeys  == {disk.slots[n].key : n \in DOMAIN disk.slots}
Owner     == disk.slots[disk.active].empire
OpenKey   == disk.slots[disk.active].key

TypeOK ==
  /\ disk.slots \in Slots
  /\ disk.slots # EmptySlot => disk.active \in DOMAIN disk.slots
  /\ disk.blobs \in [Key -> [edits : SUBSET Edits, old : BOOLEAN]]
  /\ disk.parked \in [Key -> SUBSET Edits]
  /\ disk.docs \in Docs
  /\ worker.session \in [edits : SUBSET Edits, docs : Docs \cup {"none"}]
  /\ worker.key \in Key /\ worker.docs \in Docs
  /\ worker.pending \in BOOLEAN /\ worker.timer \in BOOLEAN
  /\ worker.flushes \in 0 .. MaxFlushes
  /\ work.name \in Key \cup {First}
  /\ ledger \in [Empire -> SUBSET Edits] /\ made \in [Empire -> SUBSET Edits]
  /\ shared \subseteq Key

NewWorker ==
  [session |-> Asleep, key |-> "current", docs |-> "fixture",
   pending |-> FALSE, timer |-> FALSE, flushes |-> 0]

Init ==
  /\ disk = [slots |-> EmptySlot, active |-> First,
             blobs |-> [k \in Key |-> Nothing], parked |-> [k \in Key |-> {}],
             docs |-> "fixture"]
  /\ worker = NewWorker
  /\ work = Idle
  /\ ledger = [e \in Empire |-> {}] /\ made = [e \in Empire |-> {}]
  /\ shared = {}
  /\ spent = [edits |-> 0, empires |-> 0, crashes |-> 0, faults |-> 0, upgrades |-> 0]

-----------------------------------------------------------------------------
(* Transactions *)

Spend(what) == spent' = [spent EXCEPT ![what] = @ + 1]

\* A transaction of this kind is refused: the awaiting request rejects.
Refused(kind) ==
  /\ kind \in Failing /\ spent.faults < MaxFaults
  /\ Spend("faults")
  /\ UNCHANGED disk

Stored(edits) == [edits |-> edits, old |-> FALSE]

\* saveBlob: the session's whole plan under the active key.
SaveBlob == disk' = [disk EXCEPT !.blobs[worker.key] = Stored(worker.session.edits)]

\* The registry with one more name.
SlotsWith(n, slot) ==
  [m \in DOMAIN disk.slots \cup {n} |-> IF m = n THEN slot ELSE disk.slots[m]]

\* saveRegistry: the names, and the active key with them.
SaveRegistry(slots, active) ==
  /\ disk' = [disk EXCEPT !.slots = slots, !.active = active]
  /\ shared' = shared \cup
       {slots[n].key : n \in {x \in DOMAIN slots :
                               \E y \in DOMAIN slots \ {x} : slots[x].key = slots[y].key}}

\* snapshotNow drops the armed timer; a flush already on the chain stays.
Settled == [worker EXCEPT !.pending = FALSE, !.timer = FALSE]

Constructs(docs, blob) == docs # "stale" /\ ~blob.old

-----------------------------------------------------------------------------
(* Boot: ensureRegistry, then the plan and the catalog, whichever still read *)

Booting == worker.session = Asleep

\* A store without a registry adopts the single plan it may hold.
Adopt ==
  /\ Booting /\ disk.slots = EmptySlot
  /\ SaveRegistry(SlotsWith(First, [key |-> "current", empire |-> 0]), First)
  /\ UNCHANGED <<worker, work, ledger, made, spent>>

Wake(docs, edits) ==
  worker' = [worker EXCEPT !.session = [edits |-> edits, docs |-> docs],
                           !.key = OpenKey]

ActiveBlob == disk.blobs[OpenKey]

Park == [disk EXCEPT !.parked[OpenKey] = ActiveBlob.edits]

BootWhole ==
  /\ Constructs(disk.docs, ActiveBlob)
  /\ worker' = [worker EXCEPT !.session = [edits |-> ActiveBlob.edits, docs |-> disk.docs],
                              !.key = OpenKey,
                              !.docs = disk.docs]
  /\ UNCHANGED <<disk, spent>>

\* Mutant: the unreadable plan is not set aside.
BootDroppingPlan ==
  /\ disk.docs # "stale" /\ ActiveBlob.old
  /\ UNCHANGED <<disk, spent>>
  /\ worker' = [worker EXCEPT !.session = [edits |-> {}, docs |-> disk.docs],
                              !.key = OpenKey,
                              !.docs = disk.docs]

\* The plan does not read: it is parked, and the catalog kept.
BootWithoutPlan ==
  /\ disk.docs # "stale" /\ ActiveBlob.old
  /\ \/ disk' = Park /\ UNCHANGED spent
     \/ Refused("backup")
  /\ worker' = [worker EXCEPT !.session = [edits |-> {}, docs |-> disk.docs],
                              !.key = OpenKey,
                              !.docs = disk.docs]

\* The catalog does not read: parked and cleared.  The bytes stay in memory.
BootWithoutDocs ==
  /\ disk.docs = "stale"
  /\ worker' = [worker EXCEPT !.docs = disk.docs]
  /\ work' = [work EXCEPT !.op = "boot"]
  /\ \/ disk' = [disk EXCEPT !.docs = "fixture"] /\ UNCHANGED spent
     \/ Refused("backup")

\* Mutant: the plan is taken to read once the catalog is out of the way.
BootTrustingPlan ==
  /\ ~ActiveBlob.old /\ UNCHANGED <<disk, spent>> /\ Wake("fixture", ActiveBlob.edits)
  /\ work' = Idle

BootOnFixture ==
  /\ \/ ~ActiveBlob.old /\ UNCHANGED <<disk, spent>> /\ Wake("fixture", ActiveBlob.edits)
     \/ ActiveBlob.old /\ Wake("fixture", {})
        /\ \/ disk' = Park /\ UNCHANGED spent
           \/ Refused("backup")
  /\ work' = Idle

Boot ==
  /\ Booting /\ disk.slots # EmptySlot
  /\ \/ work = Idle /\ UNCHANGED work /\ (BootWhole \/ BootWithoutPlan)
     \/ work = Idle /\ BootWithoutDocs
     \/ work.op = "boot" /\ BootOnFixture
  /\ UNCHANGED <<ledger, made, shared>>

-----------------------------------------------------------------------------
(* Dispatches *)

Ready == ~Booting /\ work = Idle

NextEdit == spent.edits + 1

\* A dispatch that reports it mutated: the plan changes, then it is stored.
Edit ==
  /\ Ready /\ spent.edits < MaxEdits
  /\ worker' = [Settled EXCEPT !.session.edits = @ \cup {NextEdit}]
  /\ made' = [made EXCEPT ![Owner] = @ \cup {NextEdit}]
  /\ work' = [Idle EXCEPT !.op = "edit"]
  /\ Spend("edits")
  /\ UNCHANGED <<disk, ledger, shared>>

\* Stored, it is answered; refused, the caller hears an error and the
\* session keeps the edit.
AnswerEdit ==
  /\ work.op = "edit" /\ work' = Idle
  /\ \/ /\ SaveBlob /\ UNCHANGED spent
        /\ ledger' = [ledger EXCEPT ![Owner] = @ \cup {spent.edits}]
     \/ Refused("snapshot") /\ UNCHANGED ledger
  /\ UNCHANGED <<worker, made, shared>>

\* set_view_state: answered at once, stored by a trailing timer.
SetViewState ==
  /\ Ready /\ spent.edits < MaxEdits
  /\ worker' = [worker EXCEPT !.session.edits = @ \cup {NextEdit},
                              !.pending = TRUE, !.timer = TRUE]
  /\ made' = [made EXCEPT ![Owner] = @ \cup {NextEdit}]
  /\ Spend("edits")
  /\ UNCHANGED <<disk, work, ledger, shared>>

\* Mutant: a timer that fires while a request awaits drops its flush.
ViewTimerYields ==
  /\ worker.timer /\ worker.flushes < MaxFlushes
  /\ worker' = [worker EXCEPT !.timer = FALSE,
                              !.flushes = @ + (IF work = Idle THEN 1 ELSE 0)]
  /\ UNCHANGED <<disk, work, ledger, made, shared, spent>>

\* The timer may fire while a request awaits; its body joins the chain.
ViewTimerFires ==
  /\ worker.timer /\ worker.flushes < MaxFlushes
  /\ worker' = [worker EXCEPT !.timer = FALSE, !.flushes = @ + 1]
  /\ UNCHANGED <<disk, work, ledger, made, shared, spent>>

Flush ==
  /\ Ready /\ worker.flushes > 0
  /\ worker' = [worker EXCEPT !.flushes = @ - 1, !.pending = FALSE]
  /\ \/ ~worker.pending /\ UNCHANGED <<disk, spent>>
     \/ worker.pending /\ SaveBlob /\ UNCHANGED spent
     \/ worker.pending /\ Refused("snapshot")
  /\ UNCHANGED <<work, ledger, made, shared>>

\* uploadDocs: the rebuilt session goes live once catalog and plan are stored.
UploadDocs ==
  /\ Ready
  /\ \/ /\ disk' = [disk EXCEPT !.docs = "uploaded",
                                !.blobs[worker.key] = Stored(worker.session.edits)]
        /\ worker' = [worker EXCEPT !.session.docs = "uploaded", !.docs = "uploaded"]
        /\ UNCHANGED spent
     \/ Refused("docs") /\ UNCHANGED worker
  /\ UNCHANGED <<work, ledger, made, shared>>

-----------------------------------------------------------------------------
(* Empires: every operation first points the worker at the registry's slot. *)

Registered == [Settled EXCEPT !.key = OpenKey]

\* create and switch first store the outgoing plan.
Leave(op, n) ==
  /\ Ready
  /\ worker' = Registered
  /\ work' = [op |-> op, name |-> n]
  /\ UNCHANGED <<disk, ledger, made, shared, spent>>

Create(n) ==
  /\ n \notin DOMAIN disk.slots /\ spent.empires < MaxEmpires
  /\ Leave("create", n)

Switch(n) ==
  /\ n \in DOMAIN disk.slots \ {disk.active}
  /\ Leave("switch", n)

\* list, and a switch to the empire that is open, do no more than that.
List == Ready /\ worker' = [worker EXCEPT !.key = OpenKey]
        /\ UNCHANGED <<disk, work, ledger, made, shared, spent>>

\* The outgoing plan is stored; the next session is built and goes live
\* before the registry that names its slot is stored.
Created ==
  /\ work.op = "create"
  /\ \/ /\ SaveBlob /\ UNCHANGED spent
        /\ IF worker.docs = "stale"
           THEN UNCHANGED worker /\ work' = Idle
           ELSE /\ worker' = [worker EXCEPT !.session = [edits |-> {}, docs |-> worker.docs]]
                /\ work' = [work EXCEPT !.op = "register"]
     \/ Refused("snapshot") /\ UNCHANGED worker /\ work' = Idle
  /\ UNCHANGED <<ledger, made, shared>>

Switched ==
  /\ work.op = "switch"
  /\ \/ /\ SaveBlob /\ UNCHANGED spent
        /\ worker' = [worker EXCEPT !.key = disk.slots[work.name].key]
        /\ work' = [work EXCEPT !.op = "load"]
     \/ Refused("snapshot") /\ UNCHANGED worker /\ work' = Idle
  /\ UNCHANGED <<ledger, made, shared>>

\* The key is at its new slot while the plan there is read.
TargetKey  == disk.slots[work.name].key
TargetBlob == disk.blobs[TargetKey]

TargetLives ==
  /\ Constructs(worker.docs, TargetBlob)
  /\ worker' = [worker EXCEPT !.session = [edits |-> TargetBlob.edits, docs |-> worker.docs]]
  /\ work' = [work EXCEPT !.op = "activate"]
  /\ UNCHANGED <<disk, shared, spent>>

\* A plan that does not construct gives the key back; a read that is refused
\* leaves the old session at it.
ReadRefused ==
  /\ Refused("load") /\ work' = Idle
  /\ shared' = shared \cup {TargetKey, OpenKey}
  /\ UNCHANGED worker

\* Mutant: a plan that does not construct leaves the key moved as well.
LoadedKeyMoved ==
  /\ work.op = "load"
  /\ \/ TargetLives
     \/ /\ ~Constructs(worker.docs, TargetBlob) /\ work' = Idle
        /\ UNCHANGED <<disk, worker, shared, spent>>
     \/ ReadRefused
  /\ UNCHANGED <<ledger, made>>

Loaded ==
  /\ work.op = "load"
  /\ \/ TargetLives
     \/ /\ ~Constructs(worker.docs, TargetBlob) /\ work' = Idle
        /\ worker' = [worker EXCEPT !.key = OpenKey]
        /\ UNCHANGED <<disk, shared, spent>>
     \/ ReadRefused
  /\ UNCHANGED <<ledger, made>>

\* create: the new name's slot is keyed by the name.
Register ==
  /\ work.op = "register"
  /\ LET slots == SlotsWith(work.name, [key |-> work.name, empire |-> spent.empires + 1])
     IN  \/ /\ SaveRegistry(slots, work.name)
            /\ Spend("empires")
            /\ worker' = [worker EXCEPT !.key = work.name]
            /\ work' = [work EXCEPT !.op = "seed"]
         \/ Refused("registry") /\ UNCHANGED <<worker, shared>> /\ work' = Idle
  /\ UNCHANGED <<ledger, made>>

\* ... and the fresh plan is stored in it.
Seed ==
  /\ work.op = "seed" /\ work' = Idle
  /\ \/ SaveBlob /\ UNCHANGED spent
     \/ Refused("snapshot")
  /\ worker' = Settled
  /\ UNCHANGED <<ledger, made, shared>>

Activate ==
  /\ work.op = "activate" /\ work' = Idle
  /\ \/ SaveRegistry(disk.slots, work.name) /\ UNCHANGED spent
     \/ Refused("registry") /\ UNCHANGED shared
  /\ UNCHANGED <<worker, ledger, made>>

Renamed(f, t) ==
  [n \in (DOMAIN disk.slots \ {f}) \cup {t} |-> disk.slots[IF n = t THEN f ELSE n]]

Rename(f, t) ==
  /\ Ready
  /\ f \in DOMAIN disk.slots /\ t \notin DOMAIN disk.slots
  /\ worker' = [worker EXCEPT !.key = OpenKey]
  /\ \/ /\ SaveRegistry(Renamed(f, t), IF disk.active = f THEN t ELSE disk.active)
        /\ UNCHANGED spent
     \/ Refused("registry") /\ UNCHANGED shared
  /\ UNCHANGED <<work, ledger, made>>

\* delete: the name first, then its plan and the parked one.
Delete(n) ==
  /\ Ready
  /\ n \in DOMAIN disk.slots \ {disk.active}
  /\ worker' = [worker EXCEPT !.key = OpenKey]
  /\ \/ /\ SaveRegistry(Restrict(disk.slots, DOMAIN disk.slots \ {n}), disk.active)
        /\ work' = [op |-> "erase", name |-> disk.slots[n].key]
        /\ UNCHANGED spent
     \/ Refused("registry") /\ UNCHANGED <<work, shared>>
  /\ UNCHANGED <<ledger, made>>

Erase ==
  /\ work.op \in {"erase", "erase parked"}
  /\ \/ /\ work.op = "erase"
        /\ disk' = [disk EXCEPT !.blobs[work.name] = Nothing]
        /\ work' = [work EXCEPT !.op = "erase parked"]
     \/ /\ work.op = "erase parked"
        /\ disk' = [disk EXCEPT !.parked[work.name] = {}]
        /\ work' = Idle
  /\ UNCHANGED <<worker, ledger, made, shared, spent>>

-----------------------------------------------------------------------------
(* The tab closes and opens again, perhaps on a newer build. *)

Aged(stale) ==
  [disk EXCEPT
     !.blobs = [k \in Key |-> [edits |-> disk.blobs[k].edits,
                               old |-> "plan" \in stale /\ disk.blobs[k] # Nothing]],
     !.docs = IF "docs" \in stale /\ @ = "uploaded" THEN "stale" ELSE @]

Reload ==
  /\ spent.crashes < MaxCrashes
  /\ worker' = NewWorker /\ work' = Idle
  /\ \/ UNCHANGED disk /\ Spend("crashes")
     \/ /\ spent.upgrades = 0
        /\ \E stale \in SUBSET Upgrades \ {{}} : disk' = Aged(stale)
        /\ spent' = [spent EXCEPT !.crashes = @ + 1, !.upgrades = 1]
  /\ UNCHANGED <<ledger, made, shared>>

Request ==
  \/ Edit \/ SetViewState \/ UploadDocs \/ List
  \/ \E n \in Name : Create(n) \/ Switch(n) \/ Delete(n)
  \/ \E f, t \in Name : Rename(f, t)

\* The rest of the request under way, or of the boot.
Continue ==
  \/ Adopt \/ Boot
  \/ AnswerEdit \/ Created \/ Switched \/ Loaded \/ Register \/ Seed \/ Activate \/ Erase

Next == Request \/ Continue \/ ViewTimerFires \/ Flush \/ Reload

(***************************************************************************)
(* A promise that can settle does.  The chain is first in, first out, so a *)
(* flush cannot be passed for ever by later requests: strong fairness.     *)
(***************************************************************************)
Spec == Init /\ [][Next]_vars /\ WF_vars(Continue) /\ WF_vars(ViewTimerFires) /\ SF_vars(Flush)

-----------------------------------------------------------------------------
(* What the worker promises *)

Holds(key) == disk.blobs[key].edits \cup disk.parked[key]

\* Every empire keeps, in its own slot or parked beside it, each edit whose
\* answer reached the user: through switches, renames, deletions of others,
\* failed writes, closed tabs and a build that cannot read old plans.
\* (wasmWorker.ts: the snapshot precedes the answer.)  Left out are the keys
\* two names have had in common, and the two keys of a switch whose read of
\* the target was refused, for the next snapshot then goes to the target's:
\* PlansKept is the claim without those exceptions.
AnsweredEditsKept ==
  \A n \in DOMAIN disk.slots :
    LET slot == disk.slots[n] IN
    slot.key \notin shared => ledger[slot.empire] \subseteq Holds(slot.key)

\* No empire's slot takes in an edit made in another living empire.
\* (activeKey and the live session change together.)
EmpiresApart ==
  \A n, m \in DOMAIN disk.slots :
    /\ n # m
    /\ {disk.slots[n].key, disk.slots[m].key} \cap shared = {}
    => Holds(disk.slots[n].key) \cap made[disk.slots[m].empire] = {}

\* No answered edit is lost, and none lands in another empire.
EmpiresKept == AnsweredEditsKept /\ EmpiresApart

\* The worker's header and empireOp's comment: every empire's plan is under
\* its own opaque key, and renames need only touch the registry.
PlansKept ==
  \A n \in DOMAIN disk.slots :
    ledger[disk.slots[n].empire] \subseteq Holds(disk.slots[n].key)

\* The view state a request was told is kept is stored in the end, unless the
\* tab closes, a transaction fails or two names share its key.
\* (scheduleViewSnapshot: none is ever lost.)
Dirty == ~(worker.session.edits \subseteq disk.blobs[worker.key].edits)

ViewSettles ==
  \A c \in 0 .. MaxCrashes :
    (Dirty /\ spent.crashes = c) ~> (~Dirty \/ spent.crashes # c \/ spent.faults > 0 \/ worker.key \in shared)

\* Whatever in the store a new build cannot read, the app opens (a read that
\* is refused is another matter: ready then stays rejected until a reload).
\* (ensureReady's cascade: a fresh fixture session always boots.)
AlwaysOpens ==
  \A c \in 0 .. MaxCrashes :
    (Booting /\ spent.crashes = c) ~> (~Booting \/ spent.crashes # c)
==============================================================================
