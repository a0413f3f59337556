---------------------------- MODULE Empires_proofs ----------------------------
(***************************************************************************)
(* Proofs about Empires, for any names and any number of edits, empires,   *)
(* crashes and refusals.  Between requests every name has its own log,     *)
(* unless it is torn, and its own backup, unless that is stray; inside     *)
(* one, only the names the request works on do not.                        *)
(***************************************************************************)
EXTENDS Empires, TLAPS

(* The plan of a name and its log hold its empire's answered edits and no
   others; no log lies where there is no plan.                             *)
LogSound(n) ==
  LET f == files[n]
  IN  IF Exists(n)
      THEN answered[f.empire] \subseteq f.main \cup f.log /\ f.main \cup f.log \subseteq made[f.empire]
      ELSE f.log = {}

(* The backup of a name whose log is its own is of its empire; none lies
   where there is no plan.                                                 *)
BakSound(n) ==
  IF Exists(n) THEN n \notin torn => files[n].bak \subseteq made[files[n].empire] ELSE files[n].bak = {}

(* A request under way leaves alone what it does not name, and of the names
   it works on what it has brought to its place.                           *)
LogUnderway == work.op \in {"log", "erase"}
BakUnderway == work.op \in {"log", "bak", "erase", "erase bak"}
AtWork      == {work.from, work.to}

LogsSound == \A n \in Name \ torn  : (LogUnderway => n \notin AtWork) => LogSound(n)
BaksSound == \A n \in Name \ stray : (BakUnderway => n \notin AtWork) => BakSound(n)

NamesSound == LogsSound /\ BaksSound

(* A plan file that has moved ahead of its side-cars is whole together with
   them, unless it was torn before.                                        *)
LogAhead ==
  work.op = "log" /\ work.to \notin torn =>
    LET f == files[work.from]
        t == files[work.to]
    IN  /\ t.log = {}
        /\ answered[t.empire] \subseteq t.main \cup f.log
        /\ t.main \cup f.log \subseteq made[t.empire]

BakAhead ==
  work.op \in {"log", "bak"} =>
    /\ work.to \notin stray => files[work.to].bak = {}
    /\ work.from \notin stray /\ work.to \notin torn =>
         files[work.from].bak \subseteq made[files[work.to].empire]

Ahead ==
  /\ work.op \in {"log", "bak"} =>
       /\ work.from # work.to /\ Exists(work.to) /\ ~Exists(work.from)
       /\ work.from \in torn => work.to \in torn
  /\ LogAhead /\ BakAhead

(* The move of a request has a source and a free target; what is reopened or
   moved back is the open empire; and a placeholder is alive only while its
   file moves, or beside a torn name.                                      *)
MovesFree ==
  /\ work.op \in {"move", "back"} => work.from # work.to /\ Exists(work.from) /\ ~Exists(work.to)
  /\ work.op \in {"erase", "erase bak"} =>
       ~Exists(work.from) /\ work.from = work.to /\ work.from # path
  /\ work.op = "open" /\ work.to # path =>
       work.from # work.to /\ Exists(work.to) /\ ~Exists(work.from)
  /\ work.op = "open" => path \in AtWork
  /\ work.op = "back" => work.to = path
  /\ live = "none" => work = Idle
  /\ live = "file" => ~(work.op \in {"open", "back"})
  /\ live = "file" /\ work # Idle => path \notin AtWork
  /\ live = "memory" =>
       path \in torn \/ (work.op \in {"move", "log", "bak", "open", "back"} /\ path \in AtWork)

(* An empire has one plan file; nothing is known of one not yet made.      *)
OneFile ==
  /\ \A n, m \in Name : files[n].empire # 0 /\ files[n].empire = files[m].empire => n = m
  /\ \A n \in Name : files[n].empire <= spent.empires
  /\ \A e \in Empire : e > spent.empires => made[e] = {} /\ answered[e] = {}

IInv == TypeOK /\ NamesSound /\ Ahead /\ MovesFree /\ OneFile

------------------------------------------------------------------------------
USE EmpiresAssumption

(* The first launch. *)
LEMMA InitInv ==
  ASSUME Init
  PROVE  IInv
<1>1. TypeOK
  BY DEF Init, TypeOK, Absent, Idle, Place, Edits, Empire, File, Request, Budget
<1>2. NamesSound /\ Ahead /\ MovesFree /\ OneFile
  BY DEF Init, NamesSound, LogsSound, BaksSound, Ahead, LogAhead, BakAhead, MovesFree, OneFile,
     LogSound, BakSound, Exists, Absent, Idle, LogUnderway, BakUnderway, AtWork, Empire
<1>3. QED
  BY <1>1, <1>2 DEF IInv

(* What every step may rely on of the request under way. *)
LEMMA WorkFacts ==
  ASSUME IInv
  PROVE  /\ work \in Request /\ work.from \in Name /\ work.to \in Name
         /\ work.op \in {"none", "move", "log", "bak", "open", "back", "erase", "erase bak"}
         /\ work.op # "none" => live # "none"
         /\ live \in Place
         /\ torn \subseteq Name /\ stray \subseteq Name
         /\ files \in [Name -> File] /\ spent \in Budget
<1>1. /\ work \in Request /\ live \in Place /\ torn \subseteq Name /\ stray \subseteq Name
      /\ files \in [Name -> File] /\ spent \in Budget
  BY DEF IInv, TypeOK
<1>2. live = "none" => work = Idle
  BY DEF IInv, MovesFree
<1>3. /\ work.from \in Name /\ work.to \in Name
      /\ work.op \in {"none", "move", "log", "bak", "open", "back", "erase", "erase bak"}
  BY <1>1 DEF Request
<1>4. work.op # "none" => live # "none"
  BY <1>2 DEF Idle
<1>5. QED
  BY <1>1, <1>3, <1>4

(* A refusal is counted and spends nothing else. *)
LEMMA FailFacts ==
  ASSUME IInv, NEW kind, Fails(kind)
  PROVE  spent' \in Budget /\ spent'.empires = spent.empires
<1>1. spent' = [spent EXCEPT !["faults"] = @ + 1] /\ spent.faults < MaxFaults
  BY DEF Fails, Spend
<1>2. spent \in Budget
  BY WorkFacts
<1>3. QED
  BY <1>1, <1>2 DEF Budget

(* Between requests, and while a session is reopened, no side-car is on its
   way: every name has its own.                                            *)
LEMMA AtRest ==
  ASSUME IInv, ~BakUnderway
  PROVE  /\ \A n \in Name \ torn : LogSound(n)
         /\ \A n \in Name \ stray : BakSound(n)
  BY DEF IInv, NamesSound, LogsSound, BaksSound, LogUnderway, BakUnderway

(* With every name's side-cars in place, the names are sound. *)
LEMMA AllSound ==
  ASSUME \A n \in Name \ torn' : LogSound(n)', \A n \in Name \ stray' : BakSound(n)'
  PROVE  NamesSound'
  BY DEF NamesSound, LogsSound, BaksSound

(* Outside a move of side-cars nothing is ahead of them. *)
LEMMA NothingAhead ==
  ASSUME ~BakUnderway'
  PROVE  Ahead'
  BY DEF Ahead, LogAhead, BakAhead, BakUnderway

(* Between requests a placeholder is alive only beside a torn name. *)
LEMMA NothingMoves ==
  ASSUME work' = Idle, live' = "memory" => path' \in torn'
  PROVE  MovesFree'
  BY DEF MovesFree, Idle

(* A checkpoint moves no file. *)
LEMMA CheckpointInv ==
  ASSUME IInv, Checkpoint
  PROVE  IInv'
<1> USE DEF IInv
<1>1. /\ files' \in [Name -> File]
      /\ \A n \in Name :
           /\ files'[n].empire = files[n].empire
           /\ files'[n].bak = files[n].bak
           /\ n # path => files'[n] = files[n]
      /\ files'[path].main = files[path].main \cup files[path].log
      /\ files'[path].log = {}
      /\ files[path].empire # 0
  BY DEF Checkpoint, TypeOK, File, Folded
<1>2. UNCHANGED <<path, live, work, made, answered, torn, stray, spent>> /\ live = "file"
  BY DEF Checkpoint
<1>3. TypeOK'
  BY <1>1, <1>2 DEF TypeOK
<1>4. NamesSound'
  <2>1. path \in Name /\ files \in [Name -> File]
    BY DEF TypeOK
  <2>2. \A n \in Name : LogSound(n) => LogSound(n)'
    BY <1>1, <1>2, <2>1 DEF LogSound, Exists
  <2>3. \A n \in Name : BakSound(n) => BakSound(n)'
    BY <1>1, <1>2, <2>1 DEF BakSound, Exists
  <2>4. /\ LogUnderway' <=> LogUnderway
        /\ BakUnderway' <=> BakUnderway
        /\ AtWork' = AtWork
    BY <1>2 DEF LogUnderway, BakUnderway, AtWork
  <2>5. QED
    BY <1>2, <2>2, <2>3, <2>4 DEF NamesSound, LogsSound, BaksSound
<1>5. Ahead'
  BY <1>1, <1>2 DEF Ahead, LogAhead, BakAhead, MovesFree, AtWork, LogSound, Exists, TypeOK,
     Idle, Request
<1>6. MovesFree'
  <2>1. work.from \in Name /\ work.to \in Name
    BY WorkFacts
  <2>2. (Exists(work.from)' <=> Exists(work.from)) /\ (Exists(work.to)' <=> Exists(work.to))
    BY <1>1, <1>2, <2>1 DEF Exists
  <2>3. AtWork' = AtWork
    BY <1>2 DEF AtWork
  <2>4. QED
    BY <1>2, <2>2, <2>3 DEF MovesFree
<1>7. OneFile'
  BY <1>1, <1>2 DEF OneFile
<1>8. QED
  BY <1>3, <1>4, <1>5, <1>6, <1>7

------------------------------------------------------------------------------
(* The process *)

(* Closing the live session's handle changes nothing a reader of the plan
   would see: the log moves into the main file.                            *)
LEMMA CloseFacts ==
  ASSUME IInv
  PROVE  /\ Close(files) \in [Name -> File]
         /\ \A n \in Name :
              /\ Close(files)[n].empire = files[n].empire
              /\ Close(files)[n].bak = files[n].bak
              /\ Close(files)[n].main \cup Close(files)[n].log = files[n].main \cup files[n].log
              /\ files[n].log = {} => Close(files)[n].log = {}
              /\ n # path \/ live # "file" => Close(files)[n] = files[n]
  BY ZenonT(60) DEF IInv, Close, TypeOK, File, Folded

(* Opening a name backs up the plan that is there, or creates a new one.   *)
LEMMA OpenFacts ==
  ASSUME IInv, NEW fs \in [Name -> File], NEW n \in Name, Open(fs, n)
  PROVE  /\ files' \in [Name -> File]
         /\ \A m \in Name \ {n} : files'[m] = fs[m]
         /\ IF Exists(n)
            THEN /\ files'[n].empire = fs[n].empire
                 /\ files'[n].main = fs[n].main
                 /\ files'[n].log = fs[n].log
                 /\ files'[n].bak = fs[n].main
                 /\ spent' = spent /\ torn' = torn /\ stray' = stray \ {n}
            ELSE /\ files'[n].empire = spent.empires + 1
                 /\ files'[n].main = {} /\ files'[n].log = {}
                 /\ files'[n].bak = fs[n].bak
                 /\ spent'.empires = spent.empires + 1
                 /\ spent.empires + 1 \in Empire
                 /\ torn' = torn \ {n} /\ stray' = stray
         /\ spent' \in Budget
         /\ path' = n /\ live' = "file"
<1>1. spent \in Budget /\ files \in [Name -> File]
  BY DEF IInv, TypeOK
<1>2. path' = n /\ live' = "file"
  BY DEF Open
<1>3. CASE Exists(n)
  <2>1. files' = [fs EXCEPT ![n] = Backed(@)] /\ spent' = spent /\ torn' = torn /\ stray' = stray \ {n}
    BY <1>3 DEF Open
  <2>2. QED
    BY SMTT(30), <1>1, <1>2, <1>3, <2>1 DEF Backed, File
<1>4. CASE ~Exists(n)
  <2>1. /\ files' = [fs EXCEPT ![n] = Fresh(@)]
        /\ spent' = [spent EXCEPT !.empires = @ + 1]
        /\ spent.empires < MaxEmpires
        /\ torn' = torn \ {n} /\ stray' = stray
    BY <1>4 DEF Open
  <2>2. spent' \in Budget /\ spent'.empires = spent.empires + 1 /\ spent.empires + 1 \in Empire
    BY <1>1, <2>1 DEF Budget, Empire
  <2>3. QED
    BY <1>1, <1>2, <1>4, <2>1, <2>2 DEF Fresh, File
<1>5. QED
  BY <1>3, <1>4

(* A name that is opened between requests, or for one, is sound if it was. *)
LEMMA OpenInv ==
  ASSUME IInv, NEW fs \in [Name -> File], NEW n \in Name, Open(fs, n),
         ~BakUnderway, work' = Idle,
         UNCHANGED <<made, answered>>,
         \A m \in Name :
           /\ fs[m].empire = files[m].empire
           /\ fs[m].bak = files[m].bak
           /\ fs[m].main \cup fs[m].log = files[m].main \cup files[m].log
           /\ files[m].log = {} => fs[m].log = {}
           /\ fs[m].empire = 0 => fs[m].main = {}
  PROVE  IInv'
<1>1. \A m \in Name \ {n} : files'[m] = fs[m]
  BY OpenFacts
<1>a. /\ \A m \in Name \ torn : LogSound(m)
      /\ \A m \in Name \ stray : BakSound(m)
  BY AtRest
<1>b. ~BakUnderway'
  BY DEF BakUnderway, Idle
<1>2. CASE Exists(n)
  <2>1. /\ files' \in [Name -> File]
        /\ files'[n].empire = fs[n].empire
        /\ files'[n].main = fs[n].main
        /\ files'[n].log = fs[n].log
        /\ files'[n].bak = fs[n].main
        /\ spent' = spent /\ path' = n /\ live' = "file"
        /\ torn' = torn /\ stray' = stray \ {n}
    BY <1>2, OpenFacts
  <2>2. TypeOK'
    BY <1>1, <1>2, <2>1 DEF IInv, TypeOK, Exists, Place, Idle, Request
  <2>3. NamesSound'
    <3>1. \A m \in Name \ torn' : LogSound(m)'
      BY <1>1, <1>2, <1>a, <2>1 DEF LogSound, Exists
    <3>2. \A m \in Name \ stray' : m # n => BakSound(m)'
      BY <1>1, <1>a, <2>1 DEF BakSound, Exists
    <3>3. BakSound(n)'
      BY <1>2, <1>a, <2>1 DEF LogSound, BakSound, Exists
    <3>4. QED
      BY <3>1, <3>2, <3>3, AllSound
  <2>4. Ahead' /\ MovesFree' /\ OneFile'
    <3>1. Ahead' /\ MovesFree'
      BY <1>b, <2>1, NothingAhead, NothingMoves
    <3>2. \A m \in Name : files'[m].empire = files[m].empire
      BY <1>1, <2>1
    <3>3. QED
      BY <2>1, <3>1, <3>2 DEF IInv, OneFile
  <2>5. QED
    BY <2>2, <2>3, <2>4 DEF IInv
<1>3. CASE ~Exists(n)
  <2>1. /\ files' \in [Name -> File]
        /\ files'[n].empire = spent.empires + 1
        /\ files'[n].main = {} /\ files'[n].log = {}
        /\ files'[n].bak = fs[n].bak
        /\ spent'.empires = spent.empires + 1
        /\ spent.empires + 1 \in Empire
        /\ spent' \in Budget
        /\ path' = n /\ live' = "file"
        /\ torn' = torn \ {n} /\ stray' = stray
    BY <1>3, OpenFacts
  <2>2. spent.empires \in Nat /\ made[spent.empires + 1] = {} /\ answered[spent.empires + 1] = {}
    BY <2>1 DEF IInv, OneFile, TypeOK, Budget, Empire
  <2>3. TypeOK'
    <3>1. \A m \in Name : files'[m].empire = 0 => files'[m].main = {}
      BY <1>1, <2>1
    <3>2. files'[n].empire # 0
      BY <2>1, <2>2
    <3>3. work' \in Request /\ torn' \subseteq Name /\ stray' \subseteq Name
      BY <2>1, EmpiresAssumption DEF IInv, TypeOK, Request, Idle
    <3>4. QED
      BY <2>1, <3>1, <3>2, <3>3 DEF IInv, TypeOK, Place
  <2>4. NamesSound'
    <3>1. \A m \in Name \ torn' : m # n => LogSound(m)'
      BY <1>1, <1>a, <2>1 DEF LogSound, Exists
    <3>2. LogSound(n)'
      BY <2>1, <2>2 DEF LogSound, Exists
    <3>3. \A m \in Name \ stray' : m # n => BakSound(m)'
      BY <1>1, <1>a, <2>1 DEF BakSound, Exists
    <3>4. n \notin stray' => BakSound(n)'
      BY <1>3, <1>a, <2>1 DEF BakSound, Exists
    <3>5. QED
      BY <3>1, <3>2, <3>3, <3>4, AllSound
  <2>5. Ahead' /\ MovesFree'
    BY <1>b, <2>1, NothingAhead, NothingMoves
  <2>6. OneFile'
    <3>1. \A m \in Name \ {n} : files'[m].empire = files[m].empire
      BY <1>1
    <3>2. \A m \in Name : files[m].empire \in Nat /\ files[m].empire <= spent.empires
      BY DEF IInv, OneFile, TypeOK, File, Empire
    <3>3. QED
      BY <2>1, <2>2, <3>1, <3>2 DEF IInv, OneFile, Empire
  <2>7. QED
    BY <2>3, <2>4, <2>5, <2>6 DEF IInv
<1>4. QED
  BY <1>2, <1>3

(* Launching opens the plan file the empire list names. *)
LEMMA LaunchInv ==
  ASSUME IInv, Launch
  PROVE  IInv'
<1>1. ~BakUnderway /\ work = Idle
  BY WorkFacts DEF IInv, MovesFree, Launch, BakUnderway, Idle
<1>2. \A m \in Name : files[m].empire = 0 => files[m].main = {}
  BY DEF IInv, TypeOK
<1>3. files \in [Name -> File]
  BY DEF IInv, TypeOK
<1>4. QED
  BY <1>1, <1>2, <1>3, OpenInv DEF Launch

(* Quitting leaves every file as it is. *)
LEMMA QuitInv ==
  ASSUME IInv, Quit
  PROVE  IInv'
<1>1. files' = Close(files) /\ live' = "none" /\ work = Idle
      /\ UNCHANGED <<path, work, made, answered, torn, stray, spent>>
  BY DEF Quit
<1>2. TypeOK'
  BY <1>1, CloseFacts DEF IInv, TypeOK, Place
<1>3. NamesSound'
  <2>1. LogsSound'
    BY <1>1, CloseFacts DEF NamesSound, LogsSound, LogSound, LogUnderway, AtWork, Exists, IInv,
       Idle, TypeOK
  <2>2. BaksSound'
    BY <1>1, CloseFacts DEF NamesSound, LogsSound, LogSound, BaksSound, BakSound, BakUnderway,
       LogUnderway, AtWork, Exists, IInv, Idle, TypeOK
  <2>3. QED
    BY <2>1, <2>2 DEF NamesSound, LogsSound, BaksSound
<1>4. Ahead' /\ MovesFree' /\ OneFile'
  BY <1>1, CloseFacts DEF IInv, Ahead, LogAhead, BakAhead, MovesFree, AtWork, OneFile, Exists,
     Idle, TypeOK
<1>5. QED
  BY <1>2, <1>3, <1>4 DEF IInv

(* A crash leaves every file as it is. *)
LEMMA CrashInv ==
  ASSUME IInv, Crash
  PROVE  IInv'
<1>1. /\ live' = "none" /\ work' = Idle
      /\ UNCHANGED <<files, path, made, answered>>
      /\ torn \subseteq torn' /\ torn' \subseteq Name
      /\ stray \subseteq stray' /\ stray' \subseteq Name
      /\ LogUnderway /\ files[work.from].log # {} => AtWork \subseteq torn'
      /\ BakUnderway /\ files[work.from].bak # {} => work.from \in stray'
      /\ spent' \in Budget /\ spent'.empires = spent.empires
  <2>1. /\ live' = "none" /\ work' = Idle
        /\ UNCHANGED <<files, path, made, answered>>
        /\ spent' \in Budget /\ spent'.empires = spent.empires
    <3>1. /\ live' = "none" /\ work' = Idle /\ UNCHANGED <<files, path, made, answered>>
          /\ spent' = [spent EXCEPT !["crashes"] = @ + 1] /\ spent.crashes < MaxCrashes
      BY DEF Crash, Spend
    <3>2. spent \in Budget
      BY WorkFacts
    <3>3. QED
      BY <3>1, <3>2 DEF Budget
  <2>2. torn \subseteq torn' /\ torn' \subseteq Name /\ stray \subseteq stray' /\ stray' \subseteq Name
    BY WorkFacts DEF Crash
  <2>3. LogUnderway /\ files[work.from].log # {} => AtWork \subseteq torn'
    BY DEF Crash, LogBehind, LogUnderway, AtWork
  <2>4. BakUnderway /\ files[work.from].bak # {} => work.from \in stray'
    BY DEF Crash, BakBehind, BakUnderway
  <2>5. QED
    BY <2>1, <2>2, <2>3, <2>4
<1>2. TypeOK'
  BY <1>1 DEF IInv, TypeOK, Place, Idle, Request
<1>3. NamesSound'
  <2>1. \A n \in Name \ torn' : LogSound(n)'
    <3> TAKE n \in Name \ torn'
    <3>1. CASE LogUnderway => n \notin AtWork
      BY <1>1, <3>1 DEF IInv, NamesSound, LogsSound, BaksSound, LogSound, Exists
    <3>2. CASE LogUnderway /\ n \in AtWork
      BY <1>1, <3>2 DEF IInv, Ahead, LogAhead, MovesFree, LogSound, Exists, LogUnderway, AtWork
    <3>3. QED
      BY <3>1, <3>2
  <2>2. \A n \in Name \ stray' : BakSound(n)'
    <3> TAKE n \in Name \ stray'
    <3>1. CASE BakUnderway => n \notin AtWork
      BY <1>1, <3>1 DEF IInv, NamesSound, LogsSound, BaksSound, BakSound, Exists
    <3>2. CASE BakUnderway /\ n \in AtWork
      BY <1>1, <3>2 DEF IInv, Ahead, BakAhead, MovesFree, BakSound, Exists, BakUnderway, AtWork
    <3>3. QED
      BY <3>1, <3>2
  <2>3. QED
    BY <2>1, <2>2 DEF NamesSound, LogsSound, BaksSound
<1>4. Ahead' /\ MovesFree' /\ OneFile'
  BY <1>1 DEF IInv, Ahead, LogAhead, BakAhead, MovesFree, AtWork, OneFile, Exists, Idle, TypeOK
<1>5. QED
  BY <1>2, <1>3, <1>4 DEF IInv

(* An edit writes the open plan file. *)
LEMMA EditInv ==
  ASSUME IInv, Edit
  PROVE  IInv'
<1> DEFINE e == spent.edits + 1
           owner == files[path].empire
<1>1. /\ work = Idle /\ live # "none"
      /\ UNCHANGED <<path, live, work, torn, stray>>
      /\ e \in Edits
      /\ spent' \in Budget /\ spent'.empires = spent.empires
  BY DEF Edit, Ready, IInv, TypeOK, Spend, Budget, Edits
<1>2. /\ files' \in [Name -> File]
      /\ \A n \in Name :
           /\ files'[n].empire = files[n].empire
           /\ files'[n].main = files[n].main
           /\ files'[n].bak = files[n].bak
           /\ n # path => files'[n] = files[n]
      /\ live = "file" => files'[path].log = files[path].log \cup {e}
      /\ live # "file" => files' = files
  BY <1>1 DEF Edit, IInv, TypeOK, File
<1>3. /\ made' \in [Empire -> SUBSET Edits]
      /\ answered' \in [Empire -> SUBSET Edits]
      /\ \A x \in Empire \ {owner} : made'[x] = made[x] /\ answered'[x] = answered[x]
      /\ owner # 0 => /\ owner \in Empire
                      /\ made'[owner] = made[owner] \cup {e}
                      /\ answered'[owner] = answered[owner] \cup {e}
  BY <1>1 DEF Edit, IInv, TypeOK, File
<1>4. TypeOK'
  BY <1>1, <1>2, <1>3 DEF IInv, TypeOK
<1>5. NamesSound'
  <2>1. (\A n \in Name \ torn : LogSound(n)) /\ (\A n \in Name \ stray : BakSound(n))
    BY <1>1 DEF IInv, NamesSound, LogsSound, BaksSound, LogUnderway, BakUnderway, Idle
  <2>2. \A n \in Name : files[n].empire # 0 => files[n].empire \in Empire
    BY DEF IInv, TypeOK, File
  <2>3. \A n \in Name \ torn : n # path => LogSound(n)'
    BY <1>1, <1>2, <1>3, <2>1, <2>2 DEF LogSound, Exists, IInv, OneFile, TypeOK
  <2>4. live # "file" => path \in torn
    BY <1>1 DEF IInv, TypeOK, MovesFree, AtWork, Place, Idle
  <2>5. path \notin torn => LogSound(path)'
    BY <1>1, <1>2, <1>3, <2>1, <2>2, <2>4 DEF LogSound, Exists, IInv, TypeOK
  <2>6. \A n \in Name \ stray : BakSound(n)'
    BY <1>1, <1>2, <1>3, <2>1, <2>2 DEF BakSound, Exists
  <2>7. QED
    BY <1>1, <2>3, <2>5, <2>6 DEF NamesSound, LogsSound, BaksSound
<1>6. Ahead' /\ MovesFree'
  BY <1>1, <1>2 DEF IInv, Ahead, LogAhead, BakAhead, MovesFree, AtWork, Exists, Idle, TypeOK
<1>7. OneFile'
  <2>1. owner \in Nat /\ owner <= spent.empires /\ spent.empires \in Nat
    BY DEF IInv, OneFile, TypeOK, File, Empire, Budget
  <2>2. \A x \in Empire : x > spent.empires => x # owner
    BY <2>1 DEF Empire
  <2>3. QED
    BY <1>1, <1>2, <1>3, <2>2 DEF IInv, OneFile
<1>8. QED
  BY <1>4, <1>5, <1>6, <1>7 DEF IInv

------------------------------------------------------------------------------
(* Empire operations *)

(* A backup taken of a name whose files are not in a request's hands.      *)
LEMMA BackupInv ==
  ASSUME IInv, NEW n \in Name, Exists(n), ~BakUnderway,
         files' = [files EXCEPT ![n] = Backed(@)],
         UNCHANGED <<path, live, made, answered>>,
         torn \subseteq torn', torn' \subseteq Name, stray' = stray \ {n},
         work' \in Request, ~BakUnderway',
         spent' \in Budget, spent'.empires = spent.empires,
         MovesFree'
  PROVE  IInv'
<1>1. /\ files' \in [Name -> File]
      /\ \A m \in Name :
           /\ files'[m].empire = files[m].empire
           /\ files'[m].main = files[m].main
           /\ files'[m].log = files[m].log
           /\ m # n => files'[m] = files[m]
      /\ files'[n].bak = files[n].main
  BY DEF IInv, TypeOK, File, Backed
<1>2. TypeOK'
  BY <1>1 DEF IInv, TypeOK
<1>3. NamesSound'
  <2>1. \A m \in Name \ torn' : LogSound(m)'
    BY <1>1, AtRest DEF LogSound, Exists
  <2>2. \A m \in Name \ stray' : m # n => BakSound(m)'
    BY <1>1, AtRest DEF BakSound, Exists
  <2>3. BakSound(n)'
    BY <1>1, AtRest DEF LogSound, BakSound, Exists
  <2>4. QED
    BY <2>1, <2>2, <2>3, AllSound
<1>4. Ahead' /\ OneFile'
  BY <1>1, NothingAhead DEF IInv, OneFile
<1>5. QED
  BY <1>2, <1>3, <1>4 DEF IInv

(* Creating an empire adds a plan file of its own. *)
LEMMA CreateInv ==
  ASSUME IInv, NEW n \in Name, Create(n)
  PROVE  IInv'
<1>1. ~BakUnderway /\ work = Idle
  BY DEF Create, Ready, LogUnderway, BakUnderway, AtWork, Idle
<1>2. \A m \in Name : Close(files)[m].empire = 0 => Close(files)[m].main = {}
  BY CloseFacts DEF IInv, TypeOK
<1>3. QED
  BY SMTT(30), <1>1, <1>2, CloseFacts, OpenInv DEF Create

(* Switching opens another empire's plan file. *)
LEMMA SwitchInv ==
  ASSUME IInv, NEW n \in Name, Switch(n)
  PROVE  IInv'
<1>1. ~BakUnderway /\ work = Idle /\ UNCHANGED <<work, made, answered>> /\ Exists(n)
  BY DEF Switch, Ready, LogUnderway, BakUnderway, AtWork, Idle
<1>2. CASE OpenFails(n) /\ UNCHANGED torn
  <2>1. /\ files' = [files EXCEPT ![n] = Backed(@)] /\ stray' = stray \ {n}
        /\ UNCHANGED <<path, live>>
        /\ spent' \in Budget /\ spent'.empires = spent.empires
    BY <1>2 DEF OpenFails, Fails, Spend, IInv, TypeOK, Budget
  <2>2. MovesFree'
    BY <1>1, <1>2, <2>1 DEF IInv, MovesFree, AtWork, Idle
  <2>3. work' \in Request /\ ~BakUnderway' /\ torn' \subseteq Name
    BY <1>1, <1>2 DEF IInv, TypeOK, BakUnderway
  <2>4. QED
    BY <1>1, <1>2, <2>1, <2>2, <2>3, BackupInv
<1>3. CASE Open(IF n = path THEN files ELSE Close(files), n)
  <2>1. \A m \in Name : Close(files)[m].empire = 0 => Close(files)[m].main = {}
    BY CloseFacts DEF IInv, TypeOK
  <2>2. \A m \in Name : files[m].empire = 0 => files[m].main = {}
    BY DEF IInv, TypeOK
  <2>3. files \in [Name -> File]
    BY DEF IInv, TypeOK
  <2>4. CASE n = path
    BY <1>1, <1>3, <2>2, <2>3, <2>4, OpenInv
  <2>5. CASE n # path
    BY SMTT(30), <1>1, <1>3, <2>1, <2>5, CloseFacts, OpenInv
  <2>6. QED
    BY <2>4, <2>5
<1>4. QED
  BY <1>2, <1>3 DEF Switch

(* Renaming the open empire first parks the session in memory. *)
LEMMA RenameInv ==
  ASSUME IInv, NEW f \in Name, NEW t \in Name, Rename(f, t)
  PROVE  IInv'
<1>1. /\ live # "none" /\ work = Idle /\ Exists(f) /\ ~Exists(t) /\ f # t
      /\ work' \in Request /\ work'.op = "move" /\ work'.from = f /\ work'.to = t
      /\ UNCHANGED <<path, made, answered, torn, stray, spent>>
  BY DEF Rename, Ready, Request
<1>2. CASE f = path
  <2>1. files' = Close(files) /\ live' = "memory"
    BY <1>2 DEF Rename
  <2>2. TypeOK'
    BY <1>1, <2>1, CloseFacts DEF IInv, TypeOK, Place
  <2>3. NamesSound'
    <3>1. LogsSound'
      BY <1>1, <2>1, CloseFacts DEF NamesSound, LogsSound, LogSound, LogUnderway, AtWork,
         Exists, IInv, Idle, TypeOK
    <3>2. BaksSound'
      BY <1>1, <2>1, CloseFacts DEF NamesSound, LogsSound, LogSound, BaksSound, BakSound,
         BakUnderway, LogUnderway, AtWork, Exists, IInv, Idle, TypeOK
    <3>3. QED
      BY <3>1, <3>2 DEF NamesSound, LogsSound, BaksSound
  <2>4. Ahead' /\ OneFile'
    BY <1>1, <2>1, CloseFacts DEF IInv, Ahead, LogAhead, BakAhead, OneFile
  <2>5. MovesFree'
    BY <1>1, <1>2, <2>1, CloseFacts DEF MovesFree, AtWork, Exists
  <2>6. QED
    BY <2>2, <2>3, <2>4, <2>5 DEF IInv
<1>3. CASE f # path
  <2>1. UNCHANGED <<files, live>>
    BY <1>3 DEF Rename
  <2>2. TypeOK'
    BY <1>1, <2>1 DEF IInv, TypeOK
  <2>3. NamesSound' /\ Ahead' /\ OneFile'
    BY <1>1, <2>1 DEF IInv, NamesSound, LogsSound, BaksSound, Ahead, LogAhead, BakAhead,
       OneFile, LogSound, BakSound, Exists, LogUnderway, BakUnderway, AtWork, Idle
  <2>4. t # path \/ live # "file"
    BY <1>1 DEF IInv, TypeOK, Exists
  <2>5. MovesFree'
    BY <1>1, <1>3, <2>1, <2>4 DEF IInv, MovesFree, AtWork, Exists, Idle
  <2>6. QED
    BY <2>2, <2>3, <2>5 DEF IInv
<1>4. QED
  BY <1>2, <1>3

(* Moving the plan file of a renamed empire, or failing to. *)
LEMMA MovePlanInv ==
  ASSUME IInv, MovePlan
  PROVE  IInv'
<1> DEFINE f == work.from
           t == work.to
<1>1. /\ work.op \in {"move", "back"} /\ UNCHANGED <<path, live, made, answered>>
      /\ f \in Name /\ t \in Name /\ f # t /\ Exists(f) /\ ~Exists(t)
      /\ ~BakUnderway /\ live # "none" /\ (live = "file" => path \notin {f, t})
  <2>1. /\ work.op \in {"move", "back"} /\ UNCHANGED <<path, live, made, answered>>
    BY DEF MovePlan
  <2>2. ~BakUnderway /\ work # Idle
    <3>1. Idle.op = "none"
      BY DEF Idle
    <3>2. QED
      BY <2>1, <3>1 DEF BakUnderway
  <2>3. f # t /\ Exists(f) /\ ~Exists(t) /\ (live = "file" => path \notin {f, t})
    BY <2>1, <2>2 DEF IInv, MovesFree, AtWork
  <2>4. f \in Name /\ t \in Name /\ live # "none"
    BY <2>1, WorkFacts
  <2>5. QED
    BY <2>1, <2>2, <2>3, <2>4
<1>2. CASE /\ files' = MoveMain(f, t)
           /\ work' = [work EXCEPT !.op = "log"]
           /\ torn' = IF f \in torn THEN torn \cup {t} ELSE torn
           /\ UNCHANGED <<spent, stray>>
  <2>1. /\ files' \in [Name -> File]
        /\ files'[t].empire = files[f].empire /\ files'[t].main = files[f].main
        /\ files'[f].empire = 0 /\ files'[f].main = {}
        /\ \A n \in Name : files'[n].log = files[n].log /\ files'[n].bak = files[n].bak
        /\ \A n \in Name \ {f, t} : files'[n] = files[n]
    <3>1. \A n \in Name :
            files'[n] = IF n = f THEN [files[n] EXCEPT !.empire = 0, !.main = {}]
                        ELSE IF n = t
                          THEN [files[n] EXCEPT !.empire = files[f].empire, !.main = files[f].main]
                          ELSE files[n]
      BY <1>1, <1>2 DEF MoveMain, IInv, TypeOK, File
    <3>2. \A n \in Name : files[n] \in File
      BY DEF IInv, TypeOK
    <3>3. files' = [n \in Name |-> files'[n]]
      BY <1>2 DEF MoveMain, IInv, TypeOK
    <3>4. \A n \in Name : files'[n] \in File
      <4> TAKE n \in Name
      <4>1. files[n] \in File /\ files[f] \in File
        BY <1>1, <3>2
      <4>2. QED
        BY ZenonT(60), <1>1, <3>1, <4>1 DEF File
    <3>5. files' \in [Name -> File]
      BY <3>3, <3>4
    <3>6. QED
      BY <1>1, <3>1, <3>2, <3>5 DEF File
  <2>2. /\ work'.op = "log" /\ work'.from = f /\ work'.to = t /\ work' \in Request
        /\ torn \subseteq torn' /\ torn' \subseteq Name
        /\ f \in torn' => t \in torn'
        /\ torn' \subseteq torn \cup {t}
    BY <1>1, <1>2 DEF IInv, TypeOK, Request
  <2>3. TypeOK'
    <3>1. live = "file" => path \notin {f, t}
      BY <1>1
    <3>2. \A n \in Name : files'[n].empire = 0 => files'[n].main = {}
      BY <1>1, <2>1 DEF IInv, TypeOK
    <3>3. QED
      BY <1>1, <1>2, <2>1, <2>2, <3>1, <3>2 DEF IInv, TypeOK
  <2>4. NamesSound'
    <3>1. LogsSound'
      BY <1>1, <1>2, <2>1, <2>2 DEF NamesSound, LogsSound, LogSound, LogUnderway, AtWork,
         Exists, IInv
    <3>2. BaksSound'
      <4>1. \A n \in Name \ stray' : n \notin {f, t} => BakSound(n)'
        BY <1>1, <1>2, <2>1, <2>2, AtRest DEF BakSound, Exists
      <4>2. QED
        BY <2>2, <4>1 DEF BaksSound, BakUnderway, AtWork
    <3>3. QED
      BY <3>1, <3>2 DEF NamesSound, LogsSound, BaksSound
  <2>5. Ahead'
    <3>1. f \notin torn => LogSound(f)
      BY <1>1 DEF IInv, NamesSound, LogsSound, BaksSound, LogUnderway, BakUnderway
    <3>2. t \notin torn => LogSound(t)
      BY <1>1 DEF IInv, NamesSound, LogsSound, BaksSound, LogUnderway, BakUnderway
    <3>3. f \notin stray => BakSound(f)
      BY <1>1 DEF IInv, NamesSound, LogsSound, BaksSound
    <3>4. t \notin stray => BakSound(t)
      BY <1>1 DEF IInv, NamesSound, LogsSound, BaksSound
    <3>5. LogAhead'
      BY <1>1, <1>2, <2>1, <2>2, <3>1, <3>2 DEF LogAhead, LogSound, Exists
    <3>6. BakAhead'
      BY <1>1, <1>2, <2>1, <2>2, <3>3, <3>4 DEF BakAhead, BakSound, Exists
    <3>7. QED
      BY <1>1, <2>1, <2>2, <3>5, <3>6 DEF Ahead, Exists
  <2>6. MovesFree'
    <3>1. live = "memory" => path \in torn \/ path \in {f, t}
      BY DEF IInv, MovesFree, AtWork
    <3>2. AtWork' = {f, t} /\ work' # Idle
      BY <2>2 DEF AtWork, Idle
    <3>3. QED
      BY <1>1, <1>2, <2>2, <3>1, <3>2 DEF MovesFree
  <2>7. OneFile'
    <3>1. \A n \in Name :
            /\ n = t => files'[n].empire = files[f].empire
            /\ n = f => files'[n].empire = 0
            /\ n \notin {f, t} => files'[n].empire = files[n].empire
      BY <2>1
    <3>2. spent.empires \in Nat
      BY DEF IInv, TypeOK, Budget
    <3>3. \A n, m \in Name : files'[n].empire # 0 /\ files'[n].empire = files'[m].empire => n = m
      BY <1>1, <3>1 DEF IInv, OneFile, Exists
    <3>4. \A n \in Name : files'[n].empire <= spent.empires
      BY <1>1, <3>1, <3>2 DEF IInv, OneFile
    <3>5. QED
      BY <1>2, <1>1, <3>3, <3>4 DEF IInv, OneFile
  <2>8. QED
    BY <2>3, <2>4, <2>5, <2>6, <2>7 DEF IInv
<1>3. CASE /\ Fails("move")
           /\ work' = IF work.op = "back" THEN [work EXCEPT !.op = "open"] ELSE Idle
           /\ torn' = IF work.op = "move" /\ live = "memory" THEN torn \cup {path} ELSE torn
           /\ UNCHANGED <<files, stray>>
  <2>1. /\ work' \in Request /\ ~BakUnderway'
        /\ work'.op = "open" => work.op = "back" /\ work'.from = f /\ work'.to = t
        /\ work'.op # "open" => work' = Idle
    BY <1>1, <1>3 DEF IInv, TypeOK, Request, Idle, LogUnderway, BakUnderway, AtWork
  <2>2. spent' \in Budget /\ spent'.empires = spent.empires
    BY <1>3 DEF Fails, Spend, IInv, TypeOK, Budget
  <2>3. torn \subseteq torn' /\ torn' \subseteq Name
    BY <1>1, <1>3 DEF IInv, TypeOK
  <2>4. TypeOK'
    BY <1>1, <1>3, <2>1, <2>2, <2>3 DEF IInv, TypeOK
  <2>5. NamesSound'
    <3>1. LogsSound'
      BY <1>1, <1>3, <2>1, <2>3 DEF NamesSound, LogsSound, LogSound, LogUnderway, AtWork,
         Exists, IInv
    <3>2. BaksSound'
      BY <1>1, <1>3, <2>1, <2>3 DEF NamesSound, LogsSound, LogSound, BaksSound, BakSound,
         BakUnderway, LogUnderway, AtWork, Exists, IInv
    <3>3. QED
      BY <3>1, <3>2 DEF NamesSound, LogsSound, BaksSound
  <2>6. Ahead' /\ OneFile'
    BY <1>1, <1>3, <2>1, <2>2 DEF IInv, Ahead, LogAhead, BakAhead, OneFile, LogUnderway,
       BakUnderway, AtWork, Exists
  <2>7. MovesFree'
    BY <1>1, <1>3, <2>1, <2>3 DEF IInv, MovesFree, AtWork, Exists, Idle
  <2>8. QED
    BY <2>4, <2>5, <2>6, <2>7 DEF IInv
<1>4. QED
  BY <1>2, <1>3 DEF MovePlan

(* Moving the log after its plan, or passing over a refusal. *)
LEMMA MoveLogInv ==
  ASSUME IInv, MoveLog
  PROVE  IInv'
<1> SUFFICES ASSUME NEW f \in Name, NEW t \in Name, f = work.from, t = work.to
             PROVE  IInv'
  BY WorkFacts
<1>1. /\ work.op = "log" /\ UNCHANGED <<path, live, made, answered, stray>>
      /\ f \in Name /\ t \in Name /\ f # t /\ ~Exists(f) /\ Exists(t)
      /\ (f \in torn => t \in torn) /\ live # "none"
  <2>1. work.op = "log" /\ UNCHANGED <<path, live, made, answered, stray>>
    BY DEF MoveLog
  <2>2. f # t /\ ~Exists(f) /\ Exists(t) /\ (f \in torn => t \in torn)
    BY <2>1 DEF IInv, Ahead
  <2>3. QED
    BY <2>1, <2>2, WorkFacts
<1>2. work'.op = "bak" /\ work'.from = f /\ work'.to = t /\ work' \in Request
  BY <1>1 DEF MoveLog, IInv, TypeOK, Request
<1>3. \A n \in Name \ torn : n \notin {f, t} => LogSound(n)
  BY DEF IInv, NamesSound, LogsSound, BaksSound, AtWork
<1>4. \A n \in Name \ stray : n \notin {f, t} => BakSound(n)
  BY DEF IInv, NamesSound, LogsSound, BaksSound, AtWork
<1>5. /\ files' \in [Name -> File]
      /\ \A n \in Name : /\ files'[n].empire = files[n].empire
                         /\ files'[n].main = files[n].main
                         /\ files'[n].bak = files[n].bak
      /\ \A n \in Name \ {f, t} : files'[n] = files[n]
      /\ torn \subseteq torn' /\ torn' \subseteq Name
      /\ spent' \in Budget /\ spent'.empires = spent.empires
      /\ f \notin torn' => files'[f].log = {}
      /\ f \in torn' => t \in torn'
      /\ t \notin torn' => files'[t].log = IF files[f].log = {} THEN files[t].log ELSE files[f].log
  <2>1. CASE files' = LogMoved(f, t) /\ UNCHANGED <<torn, spent>>
    <3>1. \A n \in Name :
            files'[n] = IF n = f THEN [files[n] EXCEPT !.log = {}]
                        ELSE IF n = t
                          THEN [files[n] EXCEPT !.log = IF files[f].log = {} THEN @ ELSE files[f].log]
                          ELSE files[n]
      BY <1>1, <2>1 DEF LogMoved, IInv, TypeOK, File
    <3>2. \A n \in Name : files[n] \in File
      BY DEF IInv, TypeOK
    <3>3. files' = [n \in Name |-> files'[n]]
      BY <2>1 DEF LogMoved, IInv, TypeOK
    <3>4. \A n \in Name : files'[n] \in File
      <4> TAKE n \in Name
      <4>1. files[n] \in File /\ files[f] \in File
        BY <1>1, <3>2
      <4>2. QED
        BY ZenonT(60), <1>1, <3>1, <4>1 DEF File
    <3>5. files' \in [Name -> File]
      BY <3>3, <3>4
    <3>6. torn \subseteq Name /\ spent \in Budget
      BY DEF IInv, TypeOK
    <3>7. QED
      BY <1>1, <2>1, <3>1, <3>2, <3>5, <3>6 DEF File
  <2>2. CASE Fails("car") /\ UNCHANGED files /\ torn' = torn \cup {f, t}
    BY <1>1, <2>2 DEF Fails, Spend, IInv, TypeOK, Budget
  <2>3. QED
    BY <2>1, <2>2 DEF MoveLog
<1>6. TypeOK'
  BY <1>1, <1>2, <1>5 DEF IInv, TypeOK
<1>7. NamesSound'
  <2>1. \A n \in Name \ torn' : n \notin {f, t} => LogSound(n)'
    BY <1>1, <1>3, <1>5 DEF LogSound, Exists
  <2>2. f \notin torn' => LogSound(f)'
    <3>1. ~Exists(f)'
      BY <1>1, <1>5 DEF Exists
    <3>2. f \notin torn' => files'[f].log = {}
      BY <1>5
    <3>3. QED
      BY <3>1, <3>2 DEF LogSound
  <2>3. t \notin torn' => LogSound(t)'
    <3>1. t \notin torn' => t \notin torn
      BY <1>5
    <3>2. QED
      <4>1. t \notin torn =>
              /\ files[t].log = {}
              /\ answered[files[t].empire] \subseteq files[t].main \cup files[f].log
              /\ files[t].main \cup files[f].log \subseteq made[files[t].empire]
        BY <1>1 DEF IInv, Ahead, LogAhead
      <4>2. QED
        BY <1>1, <1>5, <3>1, <4>1 DEF LogSound, Exists
  <2>4. \A n \in Name \ stray' : n \notin {f, t} => BakSound(n)'
    BY <1>1, <1>4, <1>5 DEF BakSound, Exists
  <2>5. QED
    BY <1>2, <2>1, <2>2, <2>3, <2>4 DEF NamesSound, LogsSound, BaksSound, BakUnderway, AtWork
<1>8. Ahead'
  <2>1. t \notin torn' => t \notin torn
    BY <1>5
  <2>2. BakAhead'
    BY <1>1, <1>2, <1>5, <2>1 DEF IInv, Ahead, BakAhead
  <2>3. QED
    BY <1>1, <1>2, <1>5, <2>2 DEF Ahead, LogAhead, Exists
<1>9. MovesFree'
  BY <1>1, <1>2, <1>5 DEF IInv, MovesFree, Exists, Idle, AtWork
<1>10. OneFile'
  BY <1>1, <1>5 DEF IInv, OneFile
<1>11. QED
  BY <1>6, <1>7, <1>8, <1>9, <1>10 DEF IInv

(* Moving the backup after its plan, or passing over a refusal. *)
LEMMA MoveBackupInv ==
  ASSUME IInv, MoveBackup
  PROVE  IInv'
<1> SUFFICES ASSUME NEW f \in Name, NEW t \in Name, f = work.from, t = work.to
             PROVE  IInv'
  BY WorkFacts
<1>1. /\ work.op = "bak" /\ UNCHANGED <<path, live, made, answered, torn>>
      /\ f \in Name /\ t \in Name /\ f # t /\ ~Exists(f) /\ Exists(t)
      /\ live # "none"
  <2>1. work.op = "bak" /\ UNCHANGED <<path, live, made, answered, torn>>
    BY DEF MoveBackup
  <2>2. f # t /\ ~Exists(f) /\ Exists(t)
    BY <2>1 DEF IInv, Ahead
  <2>3. QED
    BY <2>1, <2>2, WorkFacts
<1>2. /\ work' \in Request /\ ~BakUnderway' /\ ~LogUnderway'
      /\ work'.op = "open" => work'.from = f /\ work'.to = t /\ live = "memory" /\ path \in {f, t}
      /\ work'.op # "open" => work' = Idle /\ ~(live = "memory" /\ path \in {f, t})
  BY <1>1 DEF MoveBackup, IInv, TypeOK, Request, Idle, BakUnderway, LogUnderway
<1>3. \A n \in Name \ torn : LogSound(n)
  BY <1>1 DEF IInv, NamesSound, LogsSound, BaksSound, LogUnderway
<1>4. \A n \in Name \ stray : n \notin {f, t} => BakSound(n)
  BY DEF IInv, NamesSound, LogsSound, BaksSound, AtWork
<1>5. /\ files' \in [Name -> File]
      /\ \A n \in Name : /\ files'[n].empire = files[n].empire
                         /\ files'[n].main = files[n].main
                         /\ files'[n].log = files[n].log
      /\ \A n \in Name \ {f, t} : files'[n] = files[n]
      /\ stray \subseteq stray' /\ stray' \subseteq Name
      /\ spent' \in Budget /\ spent'.empires = spent.empires
      /\ f \notin stray' => files'[f].bak = {}
      /\ t \notin stray' =>
           \/ files'[t].bak = files[t].bak
           \/ f \notin stray /\ files'[t].bak = files[f].bak
  <2>1. CASE /\ files' = BakMoved(f, t) /\ UNCHANGED spent
             /\ stray' = IF f \in stray THEN stray \cup {t} ELSE stray
    <3>1. \A n \in Name :
            files'[n] = IF n = f THEN [files[n] EXCEPT !.bak = {}]
                        ELSE IF n = t
                          THEN [files[n] EXCEPT !.bak = IF files[f].bak = {} THEN @ ELSE files[f].bak]
                          ELSE files[n]
      BY <1>1, <2>1 DEF BakMoved, IInv, TypeOK, File
    <3>2. \A n \in Name : files[n] \in File
      BY DEF IInv, TypeOK
    <3>3. files' = [n \in Name |-> files'[n]]
      BY <2>1 DEF BakMoved, IInv, TypeOK
    <3>4. \A n \in Name : files'[n] \in File
      <4> TAKE n \in Name
      <4>1. files[n] \in File /\ files[f] \in File
        BY <1>1, <3>2
      <4>2. QED
        BY ZenonT(60), <1>1, <3>1, <4>1 DEF File
    <3>5. files' \in [Name -> File]
      BY <3>3, <3>4
    <3>6. stray \subseteq Name /\ spent \in Budget
      BY DEF IInv, TypeOK
    <3>7. QED
      BY <1>1, <2>1, <3>1, <3>2, <3>5, <3>6 DEF File
  <2>2. CASE Fails("car") /\ UNCHANGED files /\ stray' = stray \cup {f}
    BY <1>1, <2>2 DEF Fails, Spend, IInv, TypeOK, Budget
  <2>3. QED
    BY <2>1, <2>2 DEF MoveBackup
<1>6. TypeOK'
  BY <1>1, <1>2, <1>5 DEF IInv, TypeOK
<1>7. NamesSound'
  <2>1. \A n \in Name \ torn' : LogSound(n)'
    BY <1>1, <1>3, <1>5 DEF LogSound, Exists
  <2>2. \A n \in Name \ stray' : n \notin {f, t} => BakSound(n)'
    BY <1>1, <1>4, <1>5 DEF BakSound, Exists
  <2>3. f \notin stray' => BakSound(f)'
    <3>1. ~Exists(f)'
      BY <1>1, <1>5 DEF Exists
    <3>2. f \notin stray' => files'[f].bak = {}
      BY <1>5
    <3>3. QED
      BY <3>1, <3>2 DEF BakSound
  <2>4. t \notin stray' => BakSound(t)'
    <3>1. t \notin stray' => t \notin stray
      BY <1>5
    <3>2. QED
      <4>1. /\ t \notin stray => files[t].bak = {}
            /\ f \notin stray /\ t \notin torn => files[f].bak \subseteq made[files[t].empire]
        BY <1>1 DEF IInv, Ahead, BakAhead
      <4>2. QED
        BY <1>1, <1>5, <3>1, <4>1 DEF BakSound, Exists
  <2>5. QED
    <3>1. \A n \in Name \ stray' : BakSound(n)'
      BY <2>2, <2>3, <2>4
    <3>2. QED
      BY <2>1, <3>1, AllSound
<1>8. Ahead' /\ OneFile'
  BY <1>1, <1>2, <1>5, NothingAhead DEF IInv, OneFile
<1>9. MovesFree'
  <2>1. live = "memory" => path \in torn \/ path \in {f, t}
    BY DEF IInv, MovesFree, AtWork
  <2>2. CASE work' = Idle
    BY <1>1, <1>2, <2>1, <2>2, NothingMoves DEF Idle
  <2>3. CASE work'.op = "open"
    <3>1. ~Exists(f)' /\ Exists(t)' /\ AtWork' = {f, t}
      BY <1>1, <1>2, <1>5, <2>3 DEF Exists, AtWork
    <3>2. QED
      BY <1>1, <1>2, <2>3, <3>1 DEF MovesFree
  <2>4. QED
    BY <1>2, <2>2, <2>3
<1>10. QED
  BY <1>6, <1>7, <1>8, <1>9 DEF IInv

(* Opening the renamed plan, or the old one when the move was refused. *)
LEMMA ReopenInv ==
  ASSUME IInv, Reopen
  PROVE  IInv'
<1> SUFFICES ASSUME NEW f \in Name, NEW t \in Name, f = work.from, t = work.to
             PROVE  IInv'
  BY WorkFacts
<1>1. /\ work.op = "open" /\ ~BakUnderway /\ UNCHANGED <<made, answered>>
      /\ f \in Name /\ t \in Name /\ live = "memory"
  <2>1. work.op = "open" /\ UNCHANGED <<made, answered>>
    BY DEF Reopen
  <2>2. live # "file" /\ live # "none" /\ live \in Place
    BY <2>1, WorkFacts DEF IInv, MovesFree
  <2>3. QED
    BY <2>1, <2>2, WorkFacts DEF BakUnderway, Place
<1>2. CASE Open(files, t) /\ work' = Idle
  <2>1. \A m \in Name : files[m].empire = 0 => files[m].main = {}
    BY DEF IInv, TypeOK
  <2>2. files \in [Name -> File]
    BY DEF IInv, TypeOK
  <2>3. QED
    BY <1>1, <1>2, <2>1, <2>2, OpenInv
<1>3. CASE /\ Exists(t) /\ OpenFails(t)
           /\ IF t = path
              THEN work' = Idle /\ torn' = torn \cup {path}
              ELSE /\ work' = [op |-> "back", from |-> t, to |-> f]
                   /\ UNCHANGED torn
  <2>1. /\ files' = [files EXCEPT ![t] = Backed(@)] /\ stray' = stray \ {t}
        /\ UNCHANGED <<path, live>>
        /\ spent' \in Budget /\ spent'.empires = spent.empires
    BY <1>3 DEF OpenFails, Fails, Spend, IInv, TypeOK, Budget
  <2>2. work' \in Request /\ ~BakUnderway' /\ torn \subseteq torn' /\ torn' \subseteq Name
    <3>1. torn \subseteq Name /\ path \in Name
      BY DEF IInv, TypeOK
    <3>2. CASE t = path
      <4>1. work' = Idle /\ torn' = torn \cup {path}
        BY <1>3, <3>2
      <4>2. Idle \in Request /\ Idle.op = "none"
        BY EmpiresAssumption DEF Request, Idle
      <4>3. QED
        BY <3>1, <4>1, <4>2 DEF BakUnderway
    <3>3. CASE t # path
      <4>1. work' = [op |-> "back", from |-> t, to |-> f] /\ torn' = torn
        BY <1>3, <3>3
      <4>2. work' \in Request /\ work'.op = "back"
        BY <4>1 DEF Request
      <4>3. QED
        BY <3>1, <4>1, <4>2 DEF BakUnderway
    <3>4. QED
      BY <3>2, <3>3
  <2>3. \A n \in Name : files'[n].empire = files[n].empire
    BY <2>1 DEF IInv, TypeOK, File, Backed
  <2>4. MovesFree'
    <3>1. CASE t = path
      BY <1>3, <2>1, <3>1, NothingMoves
    <3>2. CASE t # path
      <4>1. f # t /\ ~Exists(f) /\ Exists(t) /\ path = f
        BY <1>1, <3>2 DEF IInv, MovesFree, AtWork
      <4>2. ~Exists(f)' /\ Exists(t)'
        BY <1>1, <2>3, <4>1 DEF Exists
      <4>3. /\ work'.op = "back" /\ work'.from = t /\ work'.to = f /\ path' = f /\ live' = "memory"
            /\ AtWork' = {t, f}
        BY <1>1, <1>3, <2>1, <3>2, <4>1 DEF AtWork
      <4>4. QED
        BY <4>1, <4>2, <4>3 DEF MovesFree
    <3>3. QED
      BY <3>1, <3>2
  <2>5. QED
    BY <1>1, <1>3, <2>1, <2>2, <2>4, BackupInv
<1>4. QED
  BY <1>2, <1>3 DEF Reopen

(* Deleting an empire that is not open. *)
LEMMA DeleteInv ==
  ASSUME IInv, NEW n \in Name, Delete(n)
  PROVE  IInv'
<1>1. /\ live # "none" /\ work = Idle /\ ~BakUnderway /\ Exists(n) /\ n # path
      /\ work' \in Request /\ work'.op = "erase" /\ work'.from = n /\ work'.to = n
      /\ UNCHANGED <<path, live, made, answered, torn, stray, spent>>
  BY DEF Delete, Ready, Request, LogUnderway, BakUnderway, AtWork, Idle
<1>2. /\ files' \in [Name -> File]
      /\ files'[n].empire = 0 /\ files'[n].main = {}
      /\ \A m \in Name \ {n} : files'[m] = files[m]
  BY ZenonT(60) DEF Delete, IInv, TypeOK, File
<1>3. TypeOK'
  BY <1>1, <1>2 DEF IInv, TypeOK
<1>4. NamesSound'
  <2>1. LogsSound'
    <3>1. \A m \in Name \ torn' : m # n => LogSound(m)'
      BY <1>1, <1>2, AtRest DEF LogSound, Exists
    <3>2. QED
      BY <1>1, <3>1 DEF LogsSound, LogUnderway, AtWork
  <2>2. BaksSound'
    BY <1>1, <1>2 DEF NamesSound, LogsSound, LogSound, BaksSound, BakSound, BakUnderway,
       LogUnderway, AtWork, Exists, IInv
  <2>3. QED
    BY <2>1, <2>2 DEF NamesSound, LogsSound, BaksSound
<1>5. Ahead' /\ MovesFree'
  BY <1>1, <1>2 DEF IInv, Ahead, LogAhead, BakAhead, MovesFree, AtWork, Exists, Idle
<1>6. OneFile'
  <2>1. spent.empires \in Nat
    BY DEF IInv, TypeOK, Budget
  <2>2. QED
    BY <1>1, <1>2, <2>1 DEF IInv, OneFile
<1>7. QED
  BY <1>3, <1>4, <1>5, <1>6 DEF IInv

(* Removing the log of a deleted plan, or passing over a refusal. *)
LEMMA EraseLogInv ==
  ASSUME IInv, EraseLog
  PROVE  IInv'
<1> SUFFICES ASSUME NEW n \in Name, n = work.from
             PROVE  IInv'
  BY WorkFacts
<1>1. /\ work.op = "erase" /\ n \in Name /\ n = work.to /\ ~Exists(n) /\ n # path
      /\ work'.op = "erase bak" /\ work'.from = n /\ work'.to = n /\ work' \in Request
      /\ live # "none" /\ (live = "memory" => path \in torn)
      /\ UNCHANGED <<path, live, made, answered, stray>>
  <2>1. /\ work.op = "erase" /\ work' = [work EXCEPT !.op = "erase bak"]
        /\ UNCHANGED <<path, live, made, answered, stray>>
    BY DEF EraseLog
  <2>2. n = work.to /\ ~Exists(n) /\ n # path /\ (live = "memory" => path \in torn)
    BY <2>1 DEF IInv, MovesFree
  <2>3. n \in Name /\ work \in Request /\ live # "none"
    BY <2>1, WorkFacts
  <2>4. QED
    BY <2>1, <2>2, <2>3 DEF Request
<1>2. /\ files' \in [Name -> File]
      /\ \A m \in Name : /\ files'[m].empire = files[m].empire
                         /\ files'[m].main = files[m].main
                         /\ files'[m].bak = files[m].bak
      /\ n \notin torn' => files'[n].log = {}
      /\ \A m \in Name \ {n} : files'[m] = files[m]
      /\ \A m \in Name \ {n} : m \in torn' <=> m \in torn
      /\ torn' \subseteq Name
      /\ spent' \in Budget /\ spent'.empires = spent.empires
  <2>1. CASE /\ files' = [files EXCEPT ![n].log = {}]
             /\ torn' = torn \ {n} /\ UNCHANGED spent
    BY <1>1, <2>1 DEF IInv, TypeOK, File
  <2>2. CASE Fails("car") /\ UNCHANGED files /\ torn' = torn \cup {n}
    <3>1. spent' \in Budget /\ spent'.empires = spent.empires
      BY <2>2, FailFacts
    <3>2. QED
      BY <1>1, <2>2, <3>1, WorkFacts
  <2>3. QED
    BY <2>1, <2>2 DEF EraseLog
<1>3. TypeOK'
  BY <1>1, <1>2 DEF IInv, TypeOK
<1>4. NamesSound'
  <2>1. \A m \in Name \ torn' : m # n => LogSound(m)'
    BY <1>1, <1>2 DEF IInv, NamesSound, LogsSound, BaksSound, LogSound, Exists, AtWork
  <2>2. n \notin torn' => LogSound(n)'
    BY <1>1, <1>2 DEF LogSound, Exists
  <2>3. \A m \in Name \ stray' : m # n => BakSound(m)'
    BY <1>1, <1>2 DEF IInv, NamesSound, LogsSound, BaksSound, BakSound, Exists, AtWork
  <2>4. QED
    BY <1>1, <2>1, <2>2, <2>3 DEF NamesSound, LogsSound, BaksSound, LogUnderway, BakUnderway,
       AtWork
<1>5. Ahead' /\ OneFile'
  <2>1. Ahead'
    BY <1>1 DEF Ahead, LogAhead, BakAhead
  <2>2. OneFile
    BY DEF IInv
  <2>3. OneFile'
    <3>1. /\ \A m \in Name : files'[m].empire = files[m].empire
          /\ spent'.empires = spent.empires /\ UNCHANGED <<made, answered>>
      BY <1>1, <1>2
    <3>2. QED
      BY <2>2, <3>1 DEF OneFile
  <2>4. QED
    BY <2>1, <2>3
<1>6. MovesFree'
  <2>1. ~Exists(n)' /\ AtWork' = {n}
    BY <1>1, <1>2 DEF Exists, AtWork
  <2>2. path \in Name
    BY DEF IInv, TypeOK
  <2>3. live = "memory" => path \in torn'
    BY <1>1, <1>2, <2>2
  <2>4. QED
    BY <1>1, <2>1, <2>3 DEF MovesFree
<1>7. QED
  BY <1>3, <1>4, <1>5, <1>6 DEF IInv

(* Removing the backup of a deleted plan, or passing over a refusal. *)
LEMMA EraseBackupInv ==
  ASSUME IInv, EraseBackup
  PROVE  IInv'
<1> SUFFICES ASSUME NEW n \in Name, n = work.from
             PROVE  IInv'
  BY WorkFacts
<1>1. /\ work.op = "erase bak" /\ n \in Name /\ ~Exists(n)
      /\ work' = Idle /\ (live = "memory" => path \in torn)
      /\ UNCHANGED <<path, live, made, answered, torn>>
  <2>1. work.op = "erase bak" /\ work' = Idle /\ UNCHANGED <<path, live, made, answered, torn>>
    BY DEF EraseBackup
  <2>2. ~Exists(n) /\ (live = "memory" => path \in torn)
    BY <2>1 DEF IInv, MovesFree
  <2>3. QED
    BY <2>1, <2>2, WorkFacts
<1>2. /\ files' \in [Name -> File]
      /\ \A m \in Name : /\ files'[m].empire = files[m].empire
                         /\ files'[m].main = files[m].main
                         /\ files'[m].log = files[m].log
      /\ n \notin stray' => files'[n].bak = {}
      /\ \A m \in Name \ {n} : files'[m] = files[m]
      /\ \A m \in Name \ {n} : m \in stray' <=> m \in stray
      /\ stray' \subseteq Name
      /\ spent' \in Budget /\ spent'.empires = spent.empires
  <2>1. CASE /\ files' = [files EXCEPT ![n].bak = {}]
             /\ stray' = stray \ {n} /\ UNCHANGED spent
    <3>1. files \in [Name -> File] /\ stray \subseteq Name /\ spent \in Budget
      BY WorkFacts
    <3>2. files' \in [Name -> File]
      BY ZenonT(60), <2>1, <3>1 DEF File
    <3>3. \A m \in Name : files'[m] = IF m = n THEN [files[n] EXCEPT !.bak = {}] ELSE files[m]
      BY <1>1, <2>1, <3>1
    <3>4. QED
      BY <2>1, <3>1, <3>2, <3>3 DEF File
  <2>2. CASE Fails("car") /\ UNCHANGED files /\ stray' = stray \cup {n}
    <3>1. spent' \in Budget /\ spent'.empires = spent.empires
      BY <2>2, FailFacts
    <3>2. QED
      BY <1>1, <2>2, <3>1, WorkFacts
  <2>3. QED
    BY <2>1, <2>2 DEF EraseBackup
<1>3. TypeOK'
  BY <1>1, <1>2 DEF IInv, TypeOK, Idle, Request
<1>4. NamesSound'
  <2>1. \A m \in Name \ torn' : LogSound(m)'
    BY <1>1, <1>2 DEF IInv, NamesSound, LogsSound, BaksSound, LogSound, Exists, LogUnderway
  <2>2. \A m \in Name \ stray' : m # n => BakSound(m)'
    <3>1. AtWork = {n}
      BY <1>1 DEF AtWork, IInv, MovesFree
    <3>2. \A m \in Name \ stray : m # n => BakSound(m)
      BY <3>1 DEF IInv, NamesSound, BaksSound
    <3>3. QED
      BY <1>1, <1>2, <3>2 DEF BakSound, Exists
  <2>3. n \notin stray' => BakSound(n)'
    <3>1. ~Exists(n)'
      BY <1>1, <1>2 DEF Exists
    <3>2. QED
      BY <1>2, <3>1 DEF BakSound
  <2>4. QED
    <3>1. \A m \in Name \ stray' : BakSound(m)'
      BY <2>2, <2>3
    <3>2. QED
      BY <2>1, <3>1, AllSound
<1>5. Ahead' /\ MovesFree' /\ OneFile'
  <2>1. ~BakUnderway'
    BY <1>1 DEF BakUnderway, Idle
  <2>2. Ahead' /\ MovesFree'
    BY <1>1, <2>1, NothingAhead, NothingMoves
  <2>3. OneFile
    BY DEF IInv
  <2>4. OneFile'
    BY <1>1, <1>2, <2>3 DEF OneFile
  <2>5. QED
    BY <2>2, <2>4
<1>6. QED
  BY <1>3, <1>4, <1>5 DEF IInv

------------------------------------------------------------------------------
(* Every step of every behaviour keeps the invariant: each name has its own
   log and backup, or is torn or stray, or is in the hands of the one request
   under way.                                                              *)
THEOREM Invariant == Spec => []IInv
<1>1. Init => IInv
  BY InitInv
<1>2. IInv /\ [Next]_vars => IInv'
  <2> SUFFICES ASSUME IInv, [Next]_vars
               PROVE  IInv'
    OBVIOUS
  <2>1. CASE Launch
    BY <2>1, LaunchInv
  <2>2. CASE Crash
    BY <2>2, CrashInv
  <2>3. CASE Quit
    BY <2>3, QuitInv
  <2>4. CASE Checkpoint
    BY <2>4, CheckpointInv
  <2>5. CASE Edit
    BY <2>5, EditInv
  <2>6. CASE \E n \in Name : Create(n) \/ Switch(n) \/ Delete(n)
    BY <2>6, CreateInv, SwitchInv, DeleteInv
  <2>7. CASE \E f, t \in Name : Rename(f, t)
    BY <2>7, RenameInv
  <2>8. CASE MovePlan
    BY <2>8, MovePlanInv
  <2>9. CASE MoveLog
    BY <2>9, MoveLogInv
  <2>10. CASE MoveBackup
    BY <2>10, MoveBackupInv
  <2>11. CASE Reopen
    BY <2>11, ReopenInv
  <2>12. CASE EraseLog
    BY <2>12, EraseLogInv
  <2>13. CASE EraseBackup
    BY <2>13, EraseBackupInv
  <2>14. CASE UNCHANGED vars
    BY <2>14 DEF vars, IInv, TypeOK, NamesSound, LogsSound, BaksSound, Ahead, LogAhead,
       BakAhead, MovesFree, AtWork, OneFile, LogSound, BakSound, Exists, LogUnderway,
       BakUnderway
  <2>15. QED
    BY <2>1, <2>2, <2>3, <2>4, <2>5, <2>6, <2>7, <2>8, <2>9, <2>10, <2>11, <2>12, <2>13, <2>14 DEF Next
<1>3. QED
  BY <1>1, <1>2, PTL DEF Spec

(* The state of the plan files, the session and the request under way has
   its type, and a live session has its file.                              *)
THEOREM TypeCorrect == Spec => []TypeOK
<1>1. IInv => TypeOK
  BY DEF IInv
<1>2. QED
  BY <1>1, Invariant, PTL

(* Whatever is renamed, switched, created or deleted, wherever the process
   dies and whatever move, removal or opening is refused: between requests
   each plan file holds its empire's answered edits, in its main file or its
   log, and nothing of any other empire, living or deleted.  Left out are the
   names in torn, whose plan and log a crash or a refusal parted while the
   log held something, and of the names in stray the backup.               *)
THEOREM EmpiresAlwaysKept == Spec => []EmpiresKept
<1>1. IInv => EmpiresKept
  <2> SUFFICES ASSUME IInv, NEW n \in Name, Settled(n)
               PROVE  /\ answered[files[n].empire] \subseteq files[n].main \cup files[n].log
                      /\ files[n].main \cup files[n].log \subseteq made[files[n].empire]
                      /\ n \notin stray => files[n].bak \subseteq made[files[n].empire]
    BY DEF EmpiresKept, AnsweredEditsKept, EmpiresApart
  <2>1. ~BakUnderway /\ Exists(n) /\ n \notin torn
    BY DEF Settled, BakUnderway, Idle
  <2>2. LogSound(n) /\ (n \notin stray => BakSound(n))
    BY <2>1, AtRest
  <2>3. QED
    BY <2>1, <2>2 DEF LogSound, BakSound
<1>2. QED
  BY <1>1, Invariant, PTL
===============================================================================
