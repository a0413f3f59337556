----------------------------- MODULE PlanSession -----------------------------
(***************************************************************************)
(* The session of crates/app and the plan store under it: every command    *)
(* becomes one journal entry, the store commits it before the undo log     *)
(* advances, undo and redo move memory first and the store second, and the *)
(* process may die between any two calls.                                  *)
(*                                                                         *)
(* A call is one action: the shell runs calls one at a time (a mutex on    *)
(* the desktop, one promise chain in the browser), and a store write is    *)
(* one atomic transaction, so a process that dies inside a call leaves     *)
(* what it leaves by dying before the call or after it.                    *)
(***************************************************************************)
EXTENDS EntityStore

CONSTANTS
  Pref,       \* values of the plan's NEXT-MOVES preferences
  NoPref,     \* the default preferences
  Built,      \* entity contents that are a built factory
  MaxOps,     \* bound: ops in one transaction
  MaxEntries, \* bound: entries in the journal
  MaxDamage   \* bound: damaged journal entries

ASSUME SessionAssumption ==
  /\ NoPref \in Pref
  /\ Built \subseteq Val
  /\ MaxOps \in Nat
  /\ MaxEntries \in Nat
  /\ MaxDamage \in Nat

VARIABLES
  up,      \* is a session open?
  mem,     \* the session: canonical state, preferences, undo log
  disk,    \* the store: rows, plan meta, undo journal, cursor
  outcome  \* how the last call ended

vars == <<up, mem, disk, outcome>>

Session == [state : State, prefs : Pref, entries : Seq(Entry), cursor : Nat]

Store == [rows : Rows, name : Val \cup {Absent}, prefs : Pref,
          journal : Seq(Entry), cursor : Nat]

Failures == {"rejected", "persist failed", "corrupt"}

Outcome == {"started", "ok", "nothing to do", "gone"} \cup Failures

TypeOK ==
  /\ up \in BOOLEAN
  /\ mem \in Session
  /\ disk \in Store
  /\ outcome \in Outcome
  /\ mem.cursor \in 0..Len(mem.entries)
  /\ disk.cursor \in 0..Len(disk.journal)

------------------------------------------------------------------------------
(* The store *)

EmptySession ==
  [state |-> Blank, prefs |-> NoPref, entries |-> <<>>, cursor |-> 0]

EmptyStore ==
  [rows |-> NoRows, name |-> DefaultName, prefs |-> NoPref,
   journal |-> <<>>, cursor |-> 0]

\* PlanStore::load, then UndoLog::hydrate_with_cursor.
Load(d) ==
  [state   |-> LoadState(d.rows, d.name),
   prefs   |-> d.prefs,
   entries |-> d.journal,
   cursor  |-> IF d.cursor <= Len(d.journal) THEN d.cursor ELSE Len(d.journal)]

\* Faulty variant: the redo tail stays in the stored journal.
CommitKeepingRedoTail(d, e, m, applied) ==
  [rows    |-> ApplyRows(d.rows, e.forward),
   name    |-> m.state[MetaName],
   prefs   |-> m.prefs,
   journal |-> Append(d.journal, e),
   cursor  |-> applied]

\* Faulty variant: a commit does not rewrite the plan meta.
CommitWithoutMeta(d, e, m, applied) ==
  [rows    |-> ApplyRows(d.rows, e.forward),
   name    |-> d.name,
   prefs   |-> d.prefs,
   journal |-> Append(SubSeq(d.journal, 1, applied - 1), e),
   cursor  |-> applied]

\* PlanStore::commit: drop the redo tail, append, mirror the rows, rewrite the
\* plan meta wholesale, set the cursor.
Commit(d, e, m, applied) ==
  [rows    |-> ApplyRows(d.rows, e.forward),
   name    |-> m.state[MetaName],
   prefs   |-> m.prefs,
   journal |-> Append(SubSeq(d.journal, 1, applied - 1), e),
   cursor  |-> applied]

\* Faulty variant: the undo position is not saved with the move.
CheckpointWithoutCursor(d, b, m) ==
  [d EXCEPT !.rows  = ApplyRows(d.rows, b),
            !.name  = m.state[MetaName],
            !.prefs = m.prefs]

\* PlanStore::checkpoint
Checkpoint(d, b, m) ==
  [rows    |-> ApplyRows(d.rows, b),
   name    |-> m.state[MetaName],
   prefs   |-> m.prefs,
   journal |-> d.journal,
   cursor  |-> m.cursor]

------------------------------------------------------------------------------
(* The undo log *)

Applying(m, b) == [m EXCEPT !.state = ApplyBatch(m.state, b)]

\* UndoLog::push
Push(m, e) ==
  [state   |-> m.state,
   prefs   |-> m.prefs,
   entries |-> Append(SubSeq(m.entries, 1, m.cursor), e),
   cursor  |-> m.cursor + 1]

CanUndo(m) == m.cursor > 0
CanRedo(m) == m.cursor < Len(m.entries)

UndoEntry(m) == m.entries[m.cursor]
RedoEntry(m) == m.entries[m.cursor + 1]

\* UndoLog::undo and UndoLog::redo on an entry that decodes.
StepBack(m) ==
  [Applying(m, UndoEntry(m).inverse) EXCEPT !.cursor = m.cursor - 1]

StepForward(m) ==
  [Applying(m, RedoEntry(m).forward) EXCEPT !.cursor = m.cursor + 1]

------------------------------------------------------------------------------
Init ==
  /\ up = TRUE
  /\ mem = EmptySession
  /\ disk = EmptyStore
  /\ outcome = "started"

\* The batches a command list can record, up to the bound.
Recordings ==
  {f \in UNION {[1..n -> Op] : n \in 0..MaxOps} : Recordable(mem.state, f)}

NothingBuilt == \A p \in EntityPath : mem.state[p] \notin Built

\* Session::edit, accept_proposal, import_save: the transaction recorded f.
\* An edit that recorded nothing is EditNothing, but the first import of a
\* save without machines commits an entry with nothing in it.
Edit(f) ==
  LET applied == Applying(mem, f)
      entry   == Stage(mem.state, f)
      n       == mem.cursor + 1
  IN  /\ up
      /\ f = <<>> => NothingBuilt
      /\ n <= MaxEntries
      /\ disk' = Commit(disk, entry, applied, n)
      /\ mem' = Push(applied, entry)
      /\ outcome' = "ok"
      /\ UNCHANGED up

\* The store refuses the commit: the transaction is taken back out of memory.
EditNotSaved(f) ==
  LET applied == Applying(mem, f)
      entry   == Stage(mem.state, f)
  IN  /\ up
      /\ f = <<>> => NothingBuilt
      /\ mem' = Applying(applied, entry.inverse)
      /\ outcome' = "persist failed"
      /\ UNCHANGED <<up, disk>>

\* A later command of the list is refused, after f was applied for the others.
EditRejected(f) ==
  /\ up
  /\ mem' = Applying(Applying(mem, f), InverseBatch(mem.state, f))
  /\ outcome' = "rejected"
  /\ UNCHANGED <<up, disk>>

\* A transaction that recorded nothing leaves the journal and the store alone.
EditNothing ==
  /\ up
  /\ outcome' = "nothing to do"
  /\ UNCHANGED <<up, mem, disk>>

Undo ==
  /\ up
  /\ CanUndo(mem)
  /\ ~UndoEntry(mem).damaged
  /\ mem' = StepBack(mem)
  /\ disk' = Checkpoint(disk, UndoEntry(mem).inverse, StepBack(mem))
  /\ outcome' = "ok"
  /\ UNCHANGED up

\* Faulty variant: the failed checkpoint is reported but not compensated.
UndoNotCompensated ==
  /\ up
  /\ CanUndo(mem)
  /\ ~UndoEntry(mem).damaged
  /\ mem' = StepBack(mem)
  /\ outcome' = "persist failed"
  /\ UNCHANGED <<up, disk>>

\* The checkpoint fails: the entry just undone is redone.
UndoNotSaved ==
  /\ up
  /\ CanUndo(mem)
  /\ ~UndoEntry(mem).damaged
  /\ mem' = StepForward(StepBack(mem))
  /\ outcome' = "persist failed"
  /\ UNCHANGED <<up, disk>>

\* The inverse stops at an op that does not decode: reload from the store.
UndoCorrupt ==
  /\ up
  /\ CanUndo(mem)
  /\ UndoEntry(mem).damaged
  /\ mem' = Load(disk)
  /\ outcome' = "corrupt"
  /\ UNCHANGED <<up, disk>>

Redo ==
  /\ up
  /\ CanRedo(mem)
  /\ ~RedoEntry(mem).damaged
  /\ mem' = StepForward(mem)
  /\ disk' = Checkpoint(disk, RedoEntry(mem).forward, StepForward(mem))
  /\ outcome' = "ok"
  /\ UNCHANGED up

RedoNotSaved ==
  /\ up
  /\ CanRedo(mem)
  /\ ~RedoEntry(mem).damaged
  /\ mem' = StepBack(StepForward(mem))
  /\ outcome' = "persist failed"
  /\ UNCHANGED <<up, disk>>

RedoCorrupt ==
  /\ up
  /\ CanRedo(mem)
  /\ RedoEntry(mem).damaged
  /\ mem' = Load(disk)
  /\ outcome' = "corrupt"
  /\ UNCHANGED <<up, disk>>

\* Preferences are set in memory first; a failed save leaves them there.
SetNextPreferences(v) ==
  /\ up
  /\ mem' = [mem EXCEPT !.prefs = v]
  /\ \/ /\ disk' = [disk EXCEPT !.name = mem.state[MetaName], !.prefs = v]
        /\ outcome' = "ok"
     \/ /\ outcome' = "persist failed"
        /\ UNCHANGED disk
  /\ UNCHANGED up

\* Faulty variant: the reset leaves the undo cursor in the meta table.
NewEmpireKeepingCursor ==
  /\ up
  /\ disk' = [EmptyStore EXCEPT !.cursor = disk.cursor]
  /\ mem' = EmptySession
  /\ outcome' = "ok"
  /\ UNCHANGED up

\* The store is emptied first; when that fails nothing else has happened.
NewEmpire ==
  /\ up
  /\ disk' = EmptyStore
  /\ mem' = EmptySession
  /\ outcome' = "ok"
  /\ UNCHANGED up

NewEmpireNotSaved ==
  /\ up
  /\ outcome' = "persist failed"
  /\ UNCHANGED <<up, mem, disk>>

\* The process dies; what it held in memory is gone.
Crash ==
  /\ up
  /\ up' = FALSE
  /\ mem' = EmptySession
  /\ outcome' = "gone"
  /\ UNCHANGED disk

Open ==
  /\ ~up
  /\ up' = TRUE
  /\ mem' = Load(disk)
  /\ outcome' = "started"
  /\ UNCHANGED disk

\* The environment damages a stored journal entry while no session is open.
Damage ==
  /\ ~up
  /\ Cardinality({i \in DOMAIN disk.journal : disk.journal[i].damaged})
       < MaxDamage
  /\ \E i \in DOMAIN disk.journal :
       /\ ~disk.journal[i].damaged
       /\ disk' = [disk EXCEPT !.journal[i].damaged = TRUE]
  /\ UNCHANGED <<up, mem, outcome>>

Next ==
  \/ \E f \in Recordings :
       \/ Edit(f)
       \/ EditNotSaved(f)
       \/ EditRejected(f)
  \/ EditNothing
  \/ Undo
  \/ UndoNotSaved
  \/ UndoCorrupt
  \/ Redo
  \/ RedoNotSaved
  \/ RedoCorrupt
  \/ \E v \in Pref : SetNextPreferences(v)
  \/ NewEmpire
  \/ NewEmpireNotSaved
  \/ Crash
  \/ Open
  \/ Damage

Spec == Init /\ [][Next]_vars

------------------------------------------------------------------------------
(* Properties *)

\* What is in memory is what a fresh load of the plan file would give, after
\* every call, failed or not: the rows rebuilt from entity-granular batches,
\* the redo tail and the cursor included (commit_mutation's invariant, "a
\* persist failure can never diverge memory from disk").  Preferences are
\* outside it: they are set in memory before they are saved.
DiskMirrorsMemory ==
  up => mem = [Load(disk) EXCEPT !.prefs = mem.prefs]

\* The stored rows are exactly what the first `cursor` entries of the journal
\* build from an empty plan, and the inverse of EVERY entry, applied or in
\* the redo tail, takes the plan that entry produced back to the one before
\* it: undo and redo can walk the whole journal in any pattern.
JournalReplays ==
  LET j == disk.journal
  IN  /\ Load(disk).state = StateAfter(j, disk.cursor)
      /\ \A i \in DOMAIN j :
           ApplyBatch(StateAfter(j, i), j[i].inverse) = StateAfter(j, i - 1)

\* A call that reports a failure has changed neither the stored plan nor the
\* plan, the redo tail or the undo position in memory: refused edits are
\* rolled back, failed writes are compensated, damaged entries reload.
FailureLeavesNoTrace ==
  [][(up /\ up' /\ outcome' \in Failures) =>
        /\ disk'.rows = disk.rows
        /\ disk'.journal = disk.journal
        /\ disk'.cursor = disk.cursor
        /\ mem'.state = mem.state
        /\ mem'.entries = mem.entries
        /\ mem'.cursor = mem.cursor]_vars

\* When a call reports success, a process that dies on the next instruction
\* loses nothing: a load gives the whole session back, preferences included.
SuccessIsDurable ==
  [][outcome' = "ok" => Load(disk') = mem']_vars

\* The plan file implements a line of versions with a position (LinearHistory):
\* crashes, failed writes, reloads and refused commands never skip, repeat,
\* reorder or rewrite a version.
History ==
  INSTANCE LinearHistory WITH
    Version <- State,
    First   <- Blank,
    hist    <- [i \in 1..(Len(disk.journal) + 1) |->
                  StateAfter(disk.journal, i - 1)],
    pos     <- disk.cursor + 1

DurableHistory == History!Spec

==============================================================================
