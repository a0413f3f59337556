------------------------------- MODULE Empires -------------------------------
(***************************************************************************)
(* The named plan files of the desktop app and the dev bridge: one file    *)
(* per empire in one directory, with its SQLite write-ahead log and its    *)
(* rolling backup beside it, and the one live session.  Renaming and       *)
(* deleting move or remove these side-cars after the plan file, one by     *)
(* one: the process may die in between, and what the file system refuses   *)
(* of a side-car is passed over.  Plans are sets of edits.                 *)
(*                                                                         *)
(* An edit is committed to the log; SQLite folds the log into the main     *)
(* file at a checkpoint and when the last handle closes, replays on        *)
(* opening whatever log lies beside a plan file, and drops a log that lies *)
(* beside a new one.  The rest is history: `empire` is whose plan a file   *)
(* is, made and answered are the edits made in it and answered, torn are   *)
(* the names that lost a log or keep one that is not theirs, because a     *)
(* crash or a refusal came between plan and log, and those a refused move  *)
(* or open left without their session; stray are the names with a backup   *)
(* left behind.                                                            *)
(***************************************************************************)
EXTENDS Naturals

CONSTANTS Name, World,       \* file stems; the one opened at launch
          Failing,           \* what may fail: "move", "car", "open"
          MaxEdits, MaxEmpires, MaxCrashes, MaxFaults

ASSUME EmpiresAssumption ==
  World \in Name /\ {MaxEdits, MaxEmpires, MaxCrashes, MaxFaults} \subseteq Nat

VARIABLES files, path, live, work, made, answered, torn, stray, spent

vars == <<files, path, live, work, made, answered, torn, stray, spent>>

Edits  == 1 .. MaxEdits
Empire == 1 .. MaxEmpires
Absent == [empire |-> 0, main |-> {}, log |-> {}, bak |-> {}]
Idle   == [op |-> "none", from |-> World, to |-> World]

File == [empire : Empire \cup {0}, main : SUBSET Edits, log : SUBSET Edits, bak : SUBSET Edits]

Request == [op : {"none", "move", "log", "bak", "open", "back", "erase", "erase bak"},
            from : Name, to : Name]

Budget == [edits : 0 .. MaxEdits, empires : 0 .. MaxEmpires,
           crashes : 0 .. MaxCrashes, faults : 0 .. MaxFaults]

\* The session: on the file at path, in memory only, or no process at all.
Place == {"file", "memory", "none"}

TypeOK ==
  /\ files \in [Name -> File]
  /\ \A n \in Name : files[n].empire = 0 => files[n].main = {}
  /\ path \in Name /\ live \in Place
  /\ live = "file" => files[path].empire # 0
  /\ work \in Request
  /\ made \in [Empire -> SUBSET Edits]
  /\ answered \in [Empire -> SUBSET Edits]
  /\ torn \subseteq Name /\ stray \subseteq Name
  /\ spent \in Budget

Init ==
  /\ files = [n \in Name |-> Absent]
  /\ path = World /\ live = "none" /\ work = Idle
  /\ made = [e \in Empire |-> {}] /\ answered = [e \in Empire |-> {}]
  /\ torn = {} /\ stray = {}
  /\ spent = [edits |-> 0, empires |-> 0, crashes |-> 0, faults |-> 0]

Spend(what) == spent' = [spent EXCEPT ![what] = @ + 1]

-----------------------------------------------------------------------------
(* SQLite's part *)

Folded(f)  == [f EXCEPT !.main = f.main \cup f.log, !.log = {}]
Backed(f)  == [f EXCEPT !.bak = f.main]
Fresh(f)   == [empire |-> spent.empires + 1, main |-> {}, log |-> {}, bak |-> f.bak]

\* Dropping the live session closes its handle, the last one on the file.
Close(fs) == IF live = "file" THEN [fs EXCEPT ![path] = Folded(@)] ELSE fs

Checkpoint ==
  /\ live = "file" /\ files[path].log # {}
  /\ files' = [files EXCEPT ![path] = Folded(@)]
  /\ UNCHANGED <<path, live, work, made, answered, torn, stray, spent>>

-----------------------------------------------------------------------------
(* The process *)

Exists(n) == files[n].empire # 0

\* Session::open: an existing file is backed up first, a missing one created.
Open(fs, n) ==
  /\ \/ /\ Exists(n) /\ UNCHANGED <<torn, spent>>
        /\ files' = [fs EXCEPT ![n] = Backed(@)]
        /\ stray' = stray \ {n}
     \/ /\ ~Exists(n) /\ spent.empires < MaxEmpires /\ UNCHANGED stray
        /\ files' = [fs EXCEPT ![n] = Fresh(@)]
        /\ torn' = torn \ {n}
        /\ spent' = [spent EXCEPT !.empires = @ + 1]
  /\ path' = n /\ live' = "file"

\* Every launch opens the same file, whichever empire was active before.
Launch ==
  /\ live = "none"
  /\ Open(files, World)
  /\ UNCHANGED <<work, made, answered>>

\* What a request under way has not brought to its place, or out of it, yet.
LogBehind == work.op \in {"log", "erase"} /\ files[work.from].log # {}
BakBehind == work.op \in {"log", "bak", "erase", "erase bak"} /\ files[work.from].bak # {}

\* A crash then leaves it behind.
Crash ==
  /\ live # "none" /\ spent.crashes < MaxCrashes
  /\ live' = "none" /\ work' = Idle
  /\ torn'  = torn \cup (IF LogBehind THEN {work.from, work.to} ELSE {})
  /\ stray' = stray \cup (IF BakBehind THEN {work.from} ELSE {})
  /\ Spend("crashes")
  /\ UNCHANGED <<files, path, made, answered>>

\* A clean end folds the log.
Quit ==
  /\ live = "file" /\ work = Idle
  /\ files' = Close(files) /\ live' = "none"
  /\ UNCHANGED <<path, work, made, answered, torn, stray, spent>>

Ready == live # "none" /\ work = Idle

Edit ==
  /\ Ready /\ spent.edits < MaxEdits
  /\ LET e == spent.edits + 1
         owner == files[path].empire
     IN  /\ files' = IF live = "file" THEN [files EXCEPT ![path].log = @ \cup {e}] ELSE files
         /\ made' = [made EXCEPT ![owner] = @ \cup {e}]
         /\ answered' = [answered EXCEPT ![owner] = @ \cup {e}]
  /\ Spend("edits")
  /\ UNCHANGED <<path, live, work, torn, stray>>

-----------------------------------------------------------------------------
(* Empire operations *)

\* A move, the opening of a plan or the work on a side-car is refused.
Fails(kind) == kind \in Failing /\ spent.faults < MaxFaults /\ Spend("faults")

\* A plan that does not open has been backed up all the same.
OpenFails(n) ==
  /\ Fails("open")
  /\ files' = [files EXCEPT ![n] = Backed(@)] /\ stray' = stray \ {n}
  /\ UNCHANGED <<path, live>>

\* ensure_absent, Session::open of the new file, then the swap.
Create(n) ==
  /\ Ready /\ ~Exists(n)
  /\ Open(Close(files), n)
  /\ UNCHANGED <<work, made, answered>>

\* ensure_present, then the same.
Switch(n) ==
  /\ Ready /\ Exists(n)
  /\ \/ OpenFails(n) /\ UNCHANGED torn
     \/ Open(IF n = path THEN files ELSE Close(files), n)
  /\ UNCHANGED <<work, made, answered>>

\* The open empire's handle is dropped for an in-memory placeholder first.
Rename(f, t) ==
  /\ Ready /\ Exists(f) /\ ~Exists(t)
  /\ IF f = path
     THEN files' = Close(files) /\ live' = "memory"
     ELSE UNCHANGED <<files, live>>
  /\ work' = [op |-> "move", from |-> f, to |-> t]
  /\ UNCHANGED <<path, made, answered, torn, stray, spent>>

MoveMain(f, t) ==
  [files EXCEPT ![t].empire = files[f].empire, ![t].main = files[f].main,
                ![f].empire = 0, ![f].main = {}]

\* A refused move ends the request where it stands; a refused move back is
\* ignored.
MovePlan ==
  /\ work.op \in {"move", "back"}
  /\ \/ /\ files' = MoveMain(work.from, work.to)
        /\ work' = [work EXCEPT !.op = "log"]
        /\ torn' = IF work.from \in torn THEN torn \cup {work.to} ELSE torn
        /\ UNCHANGED spent
     \/ /\ Fails("move")
        /\ work' = IF work.op = "back" THEN [work EXCEPT !.op = "open"] ELSE Idle
        /\ torn' = IF work.op = "move" /\ live = "memory" THEN torn \cup {path} ELSE torn
        /\ UNCHANGED files
  /\ UNCHANGED <<path, live, made, answered, stray>>

\* Mutant: the log is not among the side-cars.
LogLeft(f, t) == files

LogMoved(f, t) ==
  [files EXCEPT ![t].log = IF files[f].log = {} THEN @ ELSE files[f].log, ![f].log = {}]

\* The log follows its plan, if there is one, and replaces that of the new
\* name; refused, it stays where it is and the request goes on.
MoveLog ==
  /\ work.op = "log" /\ work' = [work EXCEPT !.op = "bak"]
  /\ \/ files' = LogMoved(work.from, work.to) /\ UNCHANGED <<torn, spent>>
     \/ /\ LogBehind /\ Fails("car") /\ UNCHANGED files
        /\ torn' = torn \cup {work.from, work.to}
  /\ UNCHANGED <<path, live, made, answered, stray>>

BakMoved(f, t) ==
  [files EXCEPT ![t].bak = IF files[f].bak = {} THEN @ ELSE files[f].bak, ![f].bak = {}]

\* So does the backup.  The open empire is then opened where it is now.
MoveBackup ==
  /\ work.op = "bak"
  /\ work' = IF live = "memory" /\ path \in {work.from, work.to}
             THEN [work EXCEPT !.op = "open"] ELSE Idle
  /\ \/ /\ files' = BakMoved(work.from, work.to) /\ UNCHANGED spent
        /\ stray' = IF work.from \in stray THEN stray \cup {work.to} ELSE stray
     \/ BakBehind /\ Fails("car") /\ UNCHANGED files /\ stray' = stray \cup {work.from}
  /\ UNCHANGED <<path, live, made, answered, torn>>

\* A renamed plan that does not open is moved back (path still names the old
\* file) and opened there, or created anew.  If that fails too the placeholder
\* stays.
Reopen ==
  /\ work.op = "open"
  /\ \/ Open(files, work.to) /\ work' = Idle
     \/ /\ Exists(work.to) /\ OpenFails(work.to)
        /\ IF work.to = path
           THEN work' = Idle /\ torn' = torn \cup {path}
           ELSE /\ work' = [op |-> "back", from |-> work.to, to |-> work.from]
                /\ UNCHANGED torn
  /\ UNCHANGED <<made, answered>>

Delete(n) ==
  /\ Ready /\ Exists(n) /\ n # path
  /\ files' = [files EXCEPT ![n].empire = 0, ![n].main = {}]
  /\ work' = [op |-> "erase", from |-> n, to |-> n]
  /\ UNCHANGED <<path, live, made, answered, torn, stray, spent>>

\* Mutant: a deleted empire's log is left behind.
EraseNoLog ==
  /\ work.op = "erase" /\ work' = [work EXCEPT !.op = "erase bak"]
  /\ UNCHANGED <<files, path, live, made, answered, torn, stray, spent>>

EraseLog ==
  /\ work.op = "erase" /\ work' = [work EXCEPT !.op = "erase bak"]
  /\ \/ /\ files' = [files EXCEPT ![work.from].log = {}]
        /\ torn' = torn \ {work.from} /\ UNCHANGED spent
     \/ LogBehind /\ Fails("car") /\ UNCHANGED files /\ torn' = torn \cup {work.from}
  /\ UNCHANGED <<path, live, made, answered, stray>>

EraseBackup ==
  /\ work.op = "erase bak" /\ work' = Idle
  /\ \/ /\ files' = [files EXCEPT ![work.from].bak = {}]
        /\ stray' = stray \ {work.from} /\ UNCHANGED spent
     \/ BakBehind /\ Fails("car") /\ UNCHANGED files /\ stray' = stray \cup {work.from}
  /\ UNCHANGED <<path, live, made, answered, torn>>

Next ==
  \/ Launch \/ Crash \/ Quit \/ Checkpoint \/ Edit
  \/ \E n \in Name : Create(n) \/ Switch(n) \/ Delete(n)
  \/ \E f, t \in Name : Rename(f, t)
  \/ MovePlan \/ MoveLog \/ MoveBackup \/ Reopen \/ EraseLog \/ EraseBackup

Spec == Init /\ [][Next]_vars

-----------------------------------------------------------------------------
(* What the operations promise *)

\* Between requests, a plan whose log is with it.
Settled(n) == work = Idle /\ Exists(n) /\ n \notin torn

\* Whatever is renamed, switched, created or deleted, each empire's file and
\* log hold every edit answered in it: also after a crash inside a request and
\* a refused step of one, unless that parted a log that was not empty from its
\* plan, or left the open empire without its file.  (main.rs:121: the handle
\* is closed before a move, which empties the log; empires.rs: side-cars
\* travel with the plan.)  SideCarsFollow is the claim without exception.
AnsweredEditsKept ==
  \A n \in Name :
    Settled(n) => answered[files[n].empire] \subseteq files[n].main \cup files[n].log

\* Nothing of another empire, living or deleted, lies in a plan's file, in the
\* log that would be replayed onto it or in its backup, with the same proviso,
\* for the backup also that none was left behind under that name.
\* (empires.rs:12-13.)  NothingResurrected is the claim without exception.
EmpiresApart ==
  \A n \in Name :
    Settled(n) =>
      /\ files[n].main \cup files[n].log \subseteq made[files[n].empire]
      /\ n \notin stray => files[n].bak \subseteq made[files[n].empire]

\* No answered edit is lost, and none surfaces in another empire.
EmpiresKept == AnsweredEditsKept /\ EmpiresApart

\* Not kept by the code (see the README).  empires.rs:67: side-cars travel with
\* the plan.  A rename that has returned has left no edit behind.
SideCarsFollow ==
  \A n \in Name :
    Ready /\ live = "file" /\ Exists(n) =>
      answered[files[n].empire] \subseteq files[n].main \cup files[n].log

\* Not kept by the code.  empires.rs:12-13: a later open never resurrects
\* stale journal state.
NothingResurrected ==
  \A n \in Name : Ready /\ Exists(n) => files[n].main \subseteq made[files[n].empire]

\* Not kept by the code (see the README).  main.rs:121-123: a rename never
\* strands the plan: between requests the session is on the file the app calls
\* active.
NeverStrands == Ready => live = "file"
==============================================================================
