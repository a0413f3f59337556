------------------------- MODULE PlanSession_proofs -------------------------
(***************************************************************************)
(* Proofs about PlanSession, for every set of paths, values, preferences   *)
(* and every bound.                                                        *)
(*                                                                         *)
(* The typing invariant already needs a fact about two components: the     *)
(* commit cuts the STORED journal at the cursor held in MEMORY, so types   *)
(* survive an edit only because both sides hold the same journal.  The     *)
(* main invariant adds that the rows hold the plan in memory, which needs  *)
(* that no two entities share an id.                                       *)
(*                                                                         *)
(* First come lemmas about EntityStore: what batches, inverses, rows and   *)
(* journals return, and how the rows keep pace with the state in memory.   *)
(***************************************************************************)
EXTENDS PlanSession, WellFoundedInduction, TLAPS

(* A non-empty set of numbers up to n has a least and a greatest member.   *)
LEMMA LeastMember ==
  ASSUME NEW S \in SUBSET Nat, S # {}
  PROVE  \E m \in S : \A k \in S : m <= k
<1>1. \E x \in S : \A y \in S : ~ (<<y, x>> \in OpToRel(<, Nat))
  BY NatLessThanWellFounded, WFMin
<1>2. ASSUME NEW x \in Nat, NEW y \in Nat, y < x
      PROVE  <<y, x>> \in OpToRel(<, Nat)
  BY <1>2, Zenon DEF OpToRel
<1>3. PICK m \in S : \A y \in S : ~ (<<y, m>> \in OpToRel(<, Nat))
  BY <1>1
<1>4. \A y \in S : ~ (y < m)
  BY <1>2, <1>3
<1>5. \A y \in S : m <= y
  BY <1>4
<1>6. QED
  BY <1>5

(* A set of numbers up to n that has a member has a greatest one. *)
LEMMA GreatestMember ==
  ASSUME NEW n \in Nat, NEW S \in SUBSET (1..n), S # {}
  PROVE  \E m \in S : \A k \in S : k <= m
<1> DEFINE T == {n - k : k \in S}
<1>1. T \in SUBSET Nat /\ T # {}
  <2>1. \A k \in S : n - k \in Nat
    OBVIOUS
  <2>2. QED
    BY <2>1
<1>2. PICK t \in T : \A u \in T : t <= u
  BY <1>1, LeastMember
<1>3. PICK m \in S : t = n - m
  BY <1>2
<1>4. \A k \in S : n - m <= n - k
  BY <1>2, <1>3
<1>5. \A k \in S : k <= m
  BY <1>4
<1>6. QED
  BY <1>5

------------------------------------------------------------------------------
(* Batches *)

(* The positions of a patch batch. *)
LEMMA BatchIndices ==
  ASSUME NEW b \in Batch
  PROVE  /\ Len(b) \in Nat
         /\ DOMAIN b = 1..Len(b)
         /\ \A i \in DOMAIN b : b[i] \in Op
  BY DEF Batch

(* LastWrite picks the last op on a path a batch writes.                   *)
LEMMA LastWriteIs ==
  ASSUME NEW b \in Batch, NEW p, Writes(b, p)
  PROVE  /\ LastWrite(b, p) \in DOMAIN b
         /\ b[LastWrite(b, p)].path = p
         /\ \A j \in DOMAIN b : b[j].path = p => j <= LastWrite(b, p)
<1> DEFINE S == {i \in DOMAIN b : b[i].path = p}
<1>1. Len(b) \in Nat /\ S \in SUBSET (1..Len(b)) /\ S # {}
  BY BatchIndices DEF Writes
<1>2. \E m \in S : \A k \in S : k <= m
  BY <1>1, GreatestMember
<1>3. \E i \in DOMAIN b : /\ b[i].path = p
                          /\ \A j \in DOMAIN b : b[j].path = p => j <= i
  BY <1>2
<1>4. QED
  BY <1>3 DEF LastWrite

(* The position no later write of the path follows. *)
LEMMA LastWriteUnique ==
  ASSUME NEW b \in Batch, NEW p, NEW i \in DOMAIN b, b[i].path = p,
         \A j \in DOMAIN b : b[j].path = p => j <= i
  PROVE  LastWrite(b, p) = i
<1>1. Writes(b, p)
  BY DEF Writes
<1>2. LastWrite(b, p) \in DOMAIN b /\ b[LastWrite(b, p)].path = p
      /\ i <= LastWrite(b, p)
  BY <1>1, LastWriteIs
<1>3. LastWrite(b, p) <= i
  BY <1>2
<1>4. i \in Nat /\ LastWrite(b, p) \in Nat
  BY <1>2, BatchIndices
<1>5. QED
  BY <1>2, <1>3, <1>4

(* A batch takes a plan to a plan.                                         *)
LEMMA ApplyBatchType ==
  ASSUME NEW s \in State, NEW b \in Batch
  PROVE  ApplyBatch(s, b) \in State
<1>1. ASSUME NEW p \in Path, Writes(b, p)
      PROVE  b[LastWrite(b, p)].val \in Val \cup {Absent}
  BY <1>1, LastWriteIs, BatchIndices DEF Op
<1>2. QED
  BY <1>1 DEF ApplyBatch, State

(* The inverse of an operation is an operation. *)
LEMMA InverseOpType ==
  ASSUME NEW s \in State, NEW f \in Batch, NEW k \in DOMAIN f
  PROVE  InverseOp(s, f, k) \in Op
<1>1. SubSeq(f, 1, k - 1) \in Batch
  BY BatchIndices DEF Batch
<1>2. ApplyBatch(s, SubSeq(f, 1, k - 1)) \in State
  BY <1>1, ApplyBatchType
<1>3. QED
  BY <1>2, BatchIndices DEF InverseOp, Before, Op, State

(* The recorded inverse is a batch as long as the forward one.             *)
LEMMA InverseBatchIs ==
  ASSUME NEW s \in State, NEW f \in Batch
  PROVE  /\ InverseBatch(s, f) \in Batch
         /\ DOMAIN InverseBatch(s, f) = DOMAIN f
         /\ \A i \in DOMAIN f : /\ Len(f) + 1 - i \in DOMAIN f
                                /\ InverseBatch(s, f)[i] = InverseOp(s, f, Len(f) + 1 - i)
<1> DEFINE n == Len(f)
           g == [k \in DOMAIN f |-> InverseOp(s, f, k)]
<1>1. n \in Nat /\ DOMAIN f = 1..n
  BY BatchIndices
<1>2. g \in Seq(Op) /\ Len(g) = n
  BY <1>1, InverseOpType
<1>3. InverseBatch(s, f) = [i \in 1..n |-> g[(n - i) + 1]]
  BY <1>2 DEF InverseBatch, Reverse
<1>4. \A i \in 1..n : (n - i) + 1 \in 1..n /\ (n - i) + 1 = n + 1 - i
  BY <1>1
<1>5. QED
  BY <1>1, <1>2, <1>3, <1>4, InverseOpType DEF Batch

(* Undoing a batch right after it was applied gives the plan back,         *)
(* whatever paths the batch writes and however often.                      *)
LEMMA InverseCancels ==
  ASSUME NEW s \in State, NEW f \in Batch
  PROVE  ApplyBatch(ApplyBatch(s, f), InverseBatch(s, f)) = s
<1> DEFINE n == Len(f)
           g == InverseBatch(s, f)
           t == ApplyBatch(s, f)
<1>0. /\ n \in Nat /\ DOMAIN f = 1..n /\ DOMAIN g = 1..n /\ g \in Batch
      /\ \A i \in 1..n : n + 1 - i \in 1..n
      /\ \A i \in 1..n : g[i] = InverseOp(s, f, n + 1 - i)
  BY BatchIndices, InverseBatchIs
<1>1. ASSUME NEW p \in Path
      PROVE  ApplyBatch(t, g)[p] = s[p]
  <2>1. CASE ~ Writes(f, p)
    <3>1. ~ Writes(g, p)
      BY <1>0, <2>1 DEF Writes, InverseOp
    <3>2. QED
      BY <2>1, <3>1 DEF ApplyBatch
  <2>2. CASE Writes(f, p)
    <3> DEFINE S == {i \in 1..n : f[i].path = p}
    <3>1. S \in SUBSET Nat /\ S # {}
      BY <1>0, <2>2 DEF Writes
    <3>2. PICK k \in S : \A i \in S : k <= i
      BY <3>1, LeastMember
    <3>3. ~ Writes(SubSeq(f, 1, k - 1), p)
      BY <1>0, <3>2 DEF Writes, Batch
    <3>4. Before(s, f, k) = s[p]
      BY <3>2, <3>3 DEF Before, ApplyBatch
    <3> DEFINE m == n + 1 - k
    <3>5. m \in 1..n /\ n + 1 - m = k
      BY <1>0, <3>2
    <3>6. g[m].path = p /\ g[m].val = s[p]
      BY <1>0, <3>2, <3>4, <3>5 DEF InverseOp
    <3>7. ASSUME NEW j \in DOMAIN g, g[j].path = p
          PROVE  j <= m
      <4>1. j \in 1..n /\ n + 1 - j \in 1..n /\ f[n + 1 - j].path = p
        BY <1>0, <3>7 DEF InverseOp
      <4>2. k <= n + 1 - j
        BY <3>2, <4>1
      <4>3. QED
        BY <1>0, <3>2, <4>1, <4>2
    <3>8. LastWrite(g, p) = m /\ Writes(g, p)
      BY <1>0, <3>5, <3>6, <3>7, LastWriteUnique DEF Writes
    <3>9. QED
      BY <3>6, <3>8 DEF ApplyBatch
  <2>3. QED
    BY <2>1, <2>2
<1>2. QED
  BY <1>1 DEF ApplyBatch, State
------------------------------------------------------------------------------
(* Rows *)

(* The last operation of a batch on a row's id. *)
LEMMA LastTouchIs ==
  ASSUME NEW b \in Batch, NEW id, \E i \in DOMAIN b : Touches(b[i], id)
  PROVE  /\ LastTouch(b, id) \in DOMAIN b
         /\ Touches(b[LastTouch(b, id)], id)
         /\ \A j \in DOMAIN b : Touches(b[j], id) => j <= LastTouch(b, id)
<1> DEFINE S == {i \in DOMAIN b : Touches(b[i], id)}
<1>1. Len(b) \in Nat /\ S \in SUBSET (1..Len(b)) /\ S # {}
  BY BatchIndices
<1>2. \E m \in S : \A k \in S : k <= m
  BY <1>1, GreatestMember
<1>3. \E i \in DOMAIN b : /\ Touches(b[i], id)
                          /\ \A j \in DOMAIN b : Touches(b[j], id) => j <= i
  BY <1>2
<1>4. QED
  BY <1>3 DEF LastTouch

(* The row an operation writes. *)
LEMMA RowOfType ==
  ASSUME NEW op \in Op, op.path # MetaName
  PROVE  RowOf(op) \in Row
<1>1. op.path \in EntityPath
  BY DEF Op, EntityPath
<1>2. op.path[1] \in Coll
  BY <1>1 DEF Coll
<1>3. QED
  BY <1>2 DEF RowOf, Row, NoRow, Op

(* Committing a batch leaves rows. *)
LEMMA ApplyRowsType ==
  ASSUME NEW r \in Rows, NEW b \in Batch
  PROVE  ApplyRows(r, b) \in Rows
<1>1. ASSUME NEW id \in Id, \E i \in DOMAIN b : Touches(b[i], id)
      PROVE  RowOf(b[LastTouch(b, id)]) \in Row
  <2>1. /\ LastTouch(b, id) \in DOMAIN b
        /\ b[LastTouch(b, id)].path # MetaName
    BY <1>1, LastTouchIs DEF Touches
  <2>2. b[LastTouch(b, id)] \in Op
    BY <2>1, BatchIndices
  <2>3. QED
    BY <2>1, <2>2, RowOfType
<1>2. QED
  BY <1>1 DEF ApplyRows, Rows

(* An empty table. *)
LEMMA NoRowsType == NoRows \in Rows
  BY DEF NoRows, Rows, NoRow, Row

(* Loading rows gives a plan state. *)
LEMMA LoadStateType ==
  ASSUME NEW r \in Rows, NEW name \in Val \cup {Absent}
  PROVE  LoadState(r, name) \in State
<1>1. \A p \in Path : p # MetaName => p[2] \in Id
  BY DEF Id, EntityPath
<1>2. QED
  BY <1>1 DEF LoadState, State, Rows, Row

(* A new plan is a plan state. *)
LEMMA BlankType == Blank \in State
  BY StoreAssumption DEF Blank, State

(* An empty store holds the empty plan.                                    *)
LEMMA LoadNothing == LoadState(NoRows, DefaultName) = Blank
<1>1. ASSUME NEW p \in Path, p # MetaName
      PROVE  NoRows[p[2]].coll # p[1]
  BY <1>1, StoreAssumption DEF NoRows, NoRow, Id, EntityPath
<1>2. QED
  BY <1>1 DEF LoadState, Blank

(* Mirroring a batch into the rows loads the plan the batch leads to: true *)
(* only because no two entities share an id, since a row is found by its   *)
(* id alone.                                                               *)
LEMMA RowsFollowState ==
  ASSUME IdsDistinct,
         NEW s \in State, NEW b \in Batch, NEW r \in Rows, NEW name,
         s = LoadState(r, name)
  PROVE  LoadState(ApplyRows(r, b), ApplyBatch(s, b)[MetaName])
           = ApplyBatch(s, b)
<1> DEFINE t == ApplyBatch(s, b)
           q == ApplyRows(r, b)
<1>1. ASSUME NEW p \in Path, p # MetaName
      PROVE  (IF q[p[2]].coll = p[1] THEN q[p[2]].val ELSE Absent) = t[p]
  <2>1. p \in EntityPath /\ p[2] \in Id
    BY <1>1 DEF EntityPath, Id
  <2>2. \A i \in DOMAIN b : Touches(b[i], p[2]) <=> b[i].path = p
    BY <1>1, <2>1, BatchIndices DEF Touches, IdsDistinct, EntityPath, Op
  <2>3. CASE ~ Writes(b, p)
    <3>1. q[p[2]] = r[p[2]] /\ t[p] = s[p]
      BY <2>1, <2>2, <2>3 DEF Writes, ApplyRows, ApplyBatch
    <3>2. QED
      BY <1>1, <3>1 DEF LoadState
  <2>4. CASE Writes(b, p)
    <3> DEFINE k == LastTouch(b, p[2])
    <3>1. /\ k \in DOMAIN b
          /\ b[k].path = p
          /\ \A j \in DOMAIN b : b[j].path = p => j <= k
      BY <2>2, <2>4, LastTouchIs DEF Writes
    <3>2. k = LastWrite(b, p)
      BY <3>1, LastWriteUnique
    <3>3. q[p[2]] = RowOf(b[k]) /\ t[p] = b[k].val
      BY <2>1, <2>2, <2>4, <3>2 DEF Writes, ApplyRows, ApplyBatch
    <3>4. p[1] # "none"
      BY StoreAssumption
    <3>5. QED
      BY <3>1, <3>3, <3>4 DEF RowOf, NoRow
  <2>5. QED
    BY <2>3, <2>4
<1>2. t = [p \in Path |-> t[p]]
  BY DEF ApplyBatch
<1>3. QED
  BY <1>1, <1>2 DEF LoadState

------------------------------------------------------------------------------
(* Journals *)

(* The newest position of a set is its greatest member. *)
LEMMA NewestIs ==
  ASSUME NEW n \in Nat, NEW S \in SUBSET (1..n), S # {}
  PROVE  Newest(S) \in S /\ \A k \in S : k <= Newest(S)
  BY GreatestMember DEF Newest

(* The positions of a journal and what its entries hold. *)
LEMMA JournalIndices ==
  ASSUME NEW j \in Seq(Entry)
  PROVE  /\ Len(j) \in Nat
         /\ DOMAIN j = 1..Len(j)
         /\ \A i \in DOMAIN j : /\ j[i] \in Entry
                                /\ j[i].forward \in Batch
                                /\ j[i].inverse \in Batch
<1>1. Len(j) \in Nat /\ DOMAIN j = 1..Len(j) /\ \A i \in DOMAIN j : j[i] \in Entry
  OBVIOUS
<1>2. ASSUME NEW e \in Entry
      PROVE  e.forward \in Batch /\ e.inverse \in Batch
  BY DEF Entry
<1>3. QED
  BY <1>1, <1>2

(* A staged entry is an entry. *)
LEMMA StageType ==
  ASSUME NEW s \in State, NEW f \in Batch
  PROVE  Stage(s, f) \in Entry
  BY InverseBatchIs DEF Stage, Entry

(* Before its first entry a journal stands for a new plan. *)
LEMMA StateAfterNone ==
  ASSUME NEW j
  PROVE  StateAfter(j, 0) = Blank
<1>1. \A p : Writers(j, 0, p) = {}
  BY DEF Writers
<1>2. QED
  BY <1>1 DEF StateAfter, Blank

(* Only the forward batches of the first n entries matter.                 *)
LEMMA StateAfterPrefix ==
  ASSUME NEW j, NEW k, NEW n \in Nat,
         \A i \in 1..n : j[i].forward = k[i].forward
  PROVE  StateAfter(j, n) = StateAfter(k, n)
<1>1. ASSUME NEW p \in Path
      PROVE  Writers(j, n, p) = Writers(k, n, p)
  BY DEF Writers
<1>2. ASSUME NEW p \in Path, Writers(j, n, p) # {}
      PROVE  j[Newest(Writers(j, n, p))].forward
               = k[Newest(Writers(k, n, p))].forward
  <2>1. Writers(j, n, p) \in SUBSET (1..n)
    BY DEF Writers
  <2>2. Newest(Writers(j, n, p)) \in 1..n
    BY <1>2, <2>1, NewestIs
  <2>3. QED
    BY <1>1, <2>2
<1>3. QED
  BY <1>1, <1>2 DEF StateAfter

(* The n-th entry takes the plan after n - 1 entries to the plan after n.  *)
LEMMA StateAfterStep ==
  ASSUME NEW j \in Seq(Entry), NEW n \in DOMAIN j
  PROVE  StateAfter(j, n) = ApplyBatch(StateAfter(j, n - 1), j[n].forward)
<1> DEFINE b == j[n].forward
<1>1. n \in Nat /\ n >= 1 /\ n - 1 \in Nat /\ b \in Batch
  BY JournalIndices
<1>2. ASSUME NEW p \in Path
      PROVE  StateAfter(j, n)[p]
               = ApplyBatch(StateAfter(j, n - 1), b)[p]
  <2>1. CASE Writes(b, p)
    <3>1. n \in Writers(j, n, p) /\ Writers(j, n, p) \in SUBSET (1..n)
      BY <1>1, <2>1 DEF Writers
    <3>2. Newest(Writers(j, n, p)) = n
      <4>1. /\ Newest(Writers(j, n, p)) \in 1..n
            /\ n <= Newest(Writers(j, n, p))
        BY <1>1, <3>1, NewestIs
      <4>2. QED
        BY <1>1, <4>1
    <3>3. QED
      BY <2>1, <3>1, <3>2 DEF StateAfter, ApplyBatch
  <2>2. CASE ~ Writes(b, p)
    <3>1. Writers(j, n, p) = Writers(j, n - 1, p)
      BY <1>1, <2>2 DEF Writers
    <3>2. QED
      BY <2>2, <3>1 DEF StateAfter, ApplyBatch
  <2>3. QED
    BY <2>1, <2>2
<1>3. QED
  BY <1>2 DEF StateAfter, ApplyBatch

(* The state after any entry is a plan state. *)
LEMMA StateAfterType ==
  ASSUME NEW j \in Seq(Entry), NEW n \in 0..Len(j)
  PROVE  StateAfter(j, n) \in State
<1>1. CASE n = 0
  BY <1>1, StateAfterNone, BlankType
<1>2. CASE n # 0
  <2>1. ASSUME NEW p \in Path, Writers(j, n, p) # {}
        PROVE  j[Newest(Writers(j, n, p))].forward \in Batch
               /\ Writes(j[Newest(Writers(j, n, p))].forward, p)
    <3>1. Writers(j, n, p) \in SUBSET (1..n)
      BY DEF Writers
    <3>2. Newest(Writers(j, n, p)) \in Writers(j, n, p)
      <4>1. Len(j) \in Nat
        BY JournalIndices
      <4>2. n \in Nat
        BY <4>1
      <4>3. QED
        BY <2>1, <3>1, <4>2, NewestIs
    <3>3. Newest(Writers(j, n, p)) \in DOMAIN j
      BY <3>1, <3>2, JournalIndices
    <3>4. QED
      BY <3>2, <3>3, JournalIndices DEF Writers
  <2>2. ASSUME NEW b \in Batch, NEW p \in Path, Writes(b, p)
        PROVE  b[LastWrite(b, p)].val \in Val \cup {Absent}
    BY <2>2, LastWriteIs, BatchIndices DEF Op
  <2>3. \A p \in Path : Blank[p] \in Val \cup {Absent}
    BY BlankType DEF State
  <2>4. QED
    BY <2>1, <2>2, <2>3 DEF StateAfter, State
<1>3. QED
  BY <1>1, <1>2

------------------------------------------------------------------------------
(* The invariant *)

(* An open session holds the stored journal at the stored position.        *)
JournalMirrored ==
  up => /\ mem.entries = disk.journal
        /\ mem.cursor = disk.cursor

(* An open session holds the plan the rows and the saved name give.        *)
PlanMirrored ==
  up => mem.state = LoadState(disk.rows, disk.name)

TypeInv == TypeOK /\ JournalMirrored

(* The inverse of every journal entry takes its plan back.                 *)
EntriesCancel ==
  \A i \in DOMAIN disk.journal :
    ApplyBatch(StateAfter(disk.journal, i), disk.journal[i].inverse)
      = StateAfter(disk.journal, i - 1)

(* The rows and the saved name give the plan of the first `cursor` entries. *)
RowsReplay ==
  LoadState(disk.rows, disk.name) = StateAfter(disk.journal, disk.cursor)

IInv == TypeInv /\ PlanMirrored /\ RowsReplay /\ EntriesCancel

------------------------------------------------------------------------------
(* The helpers, component by component *)

(* The operations a command records make a batch. *)
LEMMA RecordingType ==
  ASSUME NEW f \in Recordings
  PROVE  f \in Batch
<1>1. PICK n \in 0..MaxOps : f \in [1..n -> Op]
  BY DEF Recordings
<1>2. n \in Nat
  BY SessionAssumption
<1>3. QED
  BY <1>1, <1>2 DEF Batch

(* The parts of a session. *)
LEMMA SessionParts ==
  ASSUME NEW m \in Session
  PROVE  /\ m.state \in State
         /\ m.prefs \in Pref
         /\ m.entries \in Seq(Entry)
         /\ m.cursor \in Nat
         /\ m = [state |-> m.state, prefs |-> m.prefs,
                 entries |-> m.entries, cursor |-> m.cursor]
  BY DEF Session

(* The parts of the plan file. *)
LEMMA StoreParts ==
  ASSUME NEW d \in Store
  PROVE  /\ d.rows \in Rows
         /\ d.name \in Val \cup {Absent}
         /\ d.prefs \in Pref
         /\ d.journal \in Seq(Entry)
         /\ d.cursor \in Nat
  BY DEF Store

(* A new plan file is a plan file. *)
LEMMA EmptyType ==
  /\ EmptySession \in Session
  /\ EmptyStore \in Store
<1>1. <<>> \in Seq(Entry) /\ 0 \in Nat /\ NoPref \in Pref
  BY SessionAssumption
<1>2. DefaultName \in Val \cup {Absent}
  BY StoreAssumption
<1>3. EmptySession \in Session
  BY <1>1, BlankType DEF EmptySession, Session
<1>4. EmptyStore \in Store
  BY <1>1, <1>2, NoRowsType DEF EmptyStore, Store
<1>5. QED
  BY <1>3, <1>4

(* Cutting a journal at a position inside it.                              *)
LEMMA CutType ==
  ASSUME NEW j \in Seq(Entry), NEW n \in 0..Len(j)
  PROVE  /\ SubSeq(j, 1, n) \in Seq(Entry)
         /\ Len(SubSeq(j, 1, n)) = n
         /\ \A i \in 1..n : SubSeq(j, 1, n)[i] = j[i]
  OBVIOUS

(* The journal an edit leaves behind.                                      *)
LEMMA CutAppend ==
  ASSUME NEW j \in Seq(Entry), NEW n \in 0..Len(j), NEW e \in Entry
  PROVE  /\ Append(SubSeq(j, 1, n), e) \in Seq(Entry)
         /\ Len(Append(SubSeq(j, 1, n), e)) = n + 1
         /\ \A i \in 1..n : Append(SubSeq(j, 1, n), e)[i] = j[i]
         /\ Append(SubSeq(j, 1, n), e)[n + 1] = e
<1> DEFINE t == SubSeq(j, 1, n)
<1>1. /\ t \in Seq(Entry)
      /\ Len(t) = n
      /\ \A i \in 1..n : t[i] = j[i]
  BY CutType
<1>2. n \in Nat
  BY JournalIndices
<1> HIDE DEF t
<1>3. QED
  BY <1>1, <1>2 DEF t

(* Applying a batch changes the plan in memory only. *)
LEMMA ApplyingIs ==
  ASSUME NEW m \in Session, NEW b \in Batch
  PROVE  /\ Applying(m, b) \in Session
         /\ Applying(m, b) = [state |-> ApplyBatch(m.state, b), prefs |-> m.prefs,
                              entries |-> m.entries, cursor |-> m.cursor]
<1>1. ApplyBatch(m.state, b) \in State
  BY ApplyBatchType, SessionParts
<1>2. QED
  BY <1>1, SessionParts DEF Applying, Session

(* A pushed entry cuts the redo tail. *)
LEMMA PushIs ==
  ASSUME NEW m \in Session, m.cursor \in 0..Len(m.entries), NEW e \in Entry
  PROVE  /\ Push(m, e) \in Session
         /\ Push(m, e) = [state |-> m.state, prefs |-> m.prefs,
                          entries |-> Append(SubSeq(m.entries, 1, m.cursor), e),
                          cursor |-> m.cursor + 1]
         /\ Push(m, e).cursor \in 0..Len(Push(m, e).entries)
<1> DEFINE t == Append(SubSeq(m.entries, 1, m.cursor), e)
<1>1. t \in Seq(Entry) /\ Len(t) = m.cursor + 1
  BY CutAppend, SessionParts
<1>2. Push(m, e) = [state |-> m.state, prefs |-> m.prefs,
                    entries |-> t, cursor |-> m.cursor + 1]
  BY DEF Push
<1> HIDE DEF t
<1>3. /\ Push(m, e) \in Session
      /\ Push(m, e).cursor \in 0..Len(Push(m, e).entries)
  BY <1>1, <1>2, SessionParts DEF Session
<1>4. QED
  BY <1>2, <1>3 DEF t

(* Undo in memory steps one entry back. *)
LEMMA StepBackIs ==
  ASSUME NEW m \in Session, m.cursor \in 0..Len(m.entries), CanUndo(m)
  PROVE  /\ UndoEntry(m) \in Entry
         /\ StepBack(m) \in Session
         /\ StepBack(m) = [state |-> ApplyBatch(m.state, m.entries[m.cursor].inverse),
                           prefs |-> m.prefs, entries |-> m.entries,
                           cursor |-> m.cursor - 1]
<1>1. m.cursor \in 1..Len(m.entries) /\ m.cursor - 1 \in Nat
  BY SessionParts, JournalIndices DEF CanUndo
<1>2. UndoEntry(m) \in Entry /\ UndoEntry(m).inverse \in Batch
  BY <1>1, JournalIndices, SessionParts DEF UndoEntry
<1>3. StepBack(m) = [state |-> ApplyBatch(m.state, m.entries[m.cursor].inverse),
                     prefs |-> m.prefs, entries |-> m.entries,
                     cursor |-> m.cursor - 1]
  BY <1>2, ApplyingIs DEF StepBack, UndoEntry
<1>4. QED
  BY <1>1, <1>2, <1>3, ApplyBatchType, SessionParts DEF Session, UndoEntry

(* Redo in memory steps one entry forward. *)
LEMMA StepForwardIs ==
  ASSUME NEW m \in Session, m.cursor \in 0..Len(m.entries), CanRedo(m)
  PROVE  /\ RedoEntry(m) \in Entry
         /\ StepForward(m) \in Session
         /\ StepForward(m) = [state |-> ApplyBatch(m.state, m.entries[m.cursor + 1].forward),
                              prefs |-> m.prefs, entries |-> m.entries,
                              cursor |-> m.cursor + 1]
<1>1. m.cursor + 1 \in 1..Len(m.entries) /\ m.cursor + 1 \in Nat
  BY SessionParts, JournalIndices DEF CanRedo
<1>2. RedoEntry(m) \in Entry /\ RedoEntry(m).forward \in Batch
  BY <1>1, JournalIndices, SessionParts DEF RedoEntry
<1>3. StepForward(m) = [state |-> ApplyBatch(m.state, m.entries[m.cursor + 1].forward),
                        prefs |-> m.prefs, entries |-> m.entries,
                        cursor |-> m.cursor + 1]
  BY <1>2, ApplyingIs DEF StepForward, RedoEntry
<1>4. QED
  BY <1>1, <1>2, <1>3, ApplyBatchType, SessionParts DEF Session, RedoEntry

(* Opening a plan file gives a session. *)
LEMMA LoadIs ==
  ASSUME NEW d \in Store, d.cursor \in 0..Len(d.journal)
  PROVE  /\ Load(d) \in Session
         /\ Load(d) = [state |-> LoadState(d.rows, d.name), prefs |-> d.prefs,
                       entries |-> d.journal, cursor |-> d.cursor]
<1>1. Load(d) = [state |-> LoadState(d.rows, d.name), prefs |-> d.prefs,
                 entries |-> d.journal, cursor |-> d.cursor]
  BY StoreParts, JournalIndices DEF Load
<1>2. LoadState(d.rows, d.name) \in State
  BY StoreParts, LoadStateType
<1>3. QED
  BY <1>1, <1>2, StoreParts DEF Session

(* A commit leaves a plan file. *)
LEMMA CommitType ==
  ASSUME NEW d \in Store, NEW e \in Entry, NEW m \in Session,
         NEW c \in 0..Len(d.journal)
  PROVE  /\ Commit(d, e, m, c + 1) \in Store
         /\ Commit(d, e, m, c + 1).journal = Append(SubSeq(d.journal, 1, c), e)
         /\ Commit(d, e, m, c + 1).cursor = c + 1
         /\ Len(Commit(d, e, m, c + 1).journal) = c + 1
<1> DEFINE t == Append(SubSeq(d.journal, 1, c), e)
<1>1. t \in Seq(Entry) /\ Len(t) = c + 1
  BY CutAppend, StoreParts
<1>2. c \in Nat /\ (c + 1) - 1 = c
  BY StoreParts, JournalIndices
<1>3. e.forward \in Batch
  BY DEF Entry
<1>4. ApplyRows(d.rows, e.forward) \in Rows /\ m.state[MetaName] \in Val \cup {Absent}
  BY <1>3, ApplyRowsType, StoreParts, SessionParts, StoreAssumption DEF State
<1>5. Commit(d, e, m, c + 1) =
        [rows |-> ApplyRows(d.rows, e.forward), name |-> m.state[MetaName],
         prefs |-> m.prefs, journal |-> t, cursor |-> c + 1]
  BY <1>2 DEF Commit
<1> HIDE DEF t
<1>6. /\ Commit(d, e, m, c + 1) \in Store
      /\ Commit(d, e, m, c + 1).journal = t
      /\ Commit(d, e, m, c + 1).cursor = c + 1
      /\ Len(Commit(d, e, m, c + 1).journal) = c + 1
  BY <1>1, <1>2, <1>4, <1>5, SessionParts DEF Store
<1>7. QED
  BY <1>6 DEF t

(* A checkpoint leaves a plan file. *)
LEMMA CheckpointType ==
  ASSUME NEW d \in Store, NEW b \in Batch, NEW m \in Session
  PROVE  Checkpoint(d, b, m) \in Store
<1>1. ApplyRows(d.rows, b) \in Rows /\ m.state[MetaName] \in Val \cup {Absent}
  BY ApplyRowsType, StoreParts, SessionParts, StoreAssumption DEF State
<1>2. QED
  BY <1>1, StoreParts, SessionParts DEF Checkpoint, Store

------------------------------------------------------------------------------
(* Types *)

(* What an edit does to memory and to the store, with the definitions of   *)
(* the helpers worked out.                                                 *)
LEMMA EditIs ==
  ASSUME TypeInv, NEW f \in Recordings, Edit(f)
  PROVE  LET c == mem.cursor
             e == Stage(mem.state, f)
             j == Append(SubSeq(disk.journal, 1, c), e)
         IN  /\ e \in Entry
             /\ mem' \in Session
             /\ disk' \in Store
             /\ mem' = [state |-> ApplyBatch(mem.state, f), prefs |-> mem.prefs,
                        entries |-> j, cursor |-> c + 1]
             /\ disk' = [rows |-> ApplyRows(disk.rows, f),
                         name |-> ApplyBatch(mem.state, f)[MetaName],
                         prefs |-> mem.prefs, journal |-> j, cursor |-> c + 1]
             /\ Len(j) = c + 1
<1> DEFINE c == mem.cursor
           e == Stage(mem.state, f)
           a == Applying(mem, f)
           j == Append(SubSeq(disk.journal, 1, c), e)
<1>1. /\ mem \in Session /\ disk \in Store
      /\ c \in 0..Len(disk.journal) /\ mem.entries = disk.journal
      /\ f \in Batch /\ mem.state \in State
  BY SessionParts, RecordingType DEF TypeInv, TypeOK, JournalMirrored, Edit
<1>2. e \in Entry /\ e.forward = f
  BY <1>1, StageType DEF Stage
<1>3. /\ a \in Session
      /\ a = [state |-> ApplyBatch(mem.state, f), prefs |-> mem.prefs,
              entries |-> disk.journal, cursor |-> c]
  BY <1>1, ApplyingIs
<1>4. a.cursor = c /\ a.entries = disk.journal
  BY <1>3
<1>5. /\ Push(a, e) \in Session
      /\ Push(a, e) = [state |-> a.state, prefs |-> a.prefs,
                       entries |-> Append(SubSeq(a.entries, 1, a.cursor), e),
                       cursor |-> a.cursor + 1]
  BY <1>1, <1>2, <1>3, <1>4, PushIs
<1>6. /\ Commit(disk, e, a, c + 1) \in Store
      /\ Commit(disk, e, a, c + 1).journal = j
      /\ Len(Commit(disk, e, a, c + 1).journal) = c + 1
  BY <1>1, <1>2, <1>3, CommitType
<1>7. disk' = Commit(disk, e, a, c + 1) /\ mem' = Push(a, e)
  BY DEF Edit
<1>8. (c + 1) - 1 = c
  BY <1>1, StoreParts, JournalIndices
<1>9. disk' = [rows |-> ApplyRows(disk.rows, f), name |-> a.state[MetaName],
               prefs |-> a.prefs, journal |-> j, cursor |-> c + 1]
  BY <1>2, <1>7, <1>8 DEF Commit
<1> HIDE DEF a, e, c
<1>10. QED
  BY <1>2, <1>3, <1>4, <1>5, <1>6, <1>7, <1>9 DEF c, e

(* A transaction taken back leaves memory as it was.                       *)
LEMMA TakenBack ==
  ASSUME NEW m \in Session, NEW f \in Batch
  PROVE  Applying(Applying(m, f), InverseBatch(m.state, f)) = m
<1> DEFINE a == Applying(m, f)
           g == InverseBatch(m.state, f)
<1>1. m.state \in State /\ g \in Batch
  BY SessionParts, InverseBatchIs
<1>2. /\ a \in Session
      /\ a = [state |-> ApplyBatch(m.state, f), prefs |-> m.prefs,
              entries |-> m.entries, cursor |-> m.cursor]
  BY ApplyingIs
<1>3. Applying(a, g) = [state |-> ApplyBatch(a.state, g), prefs |-> a.prefs,
                        entries |-> a.entries, cursor |-> a.cursor]
  BY <1>1, <1>2, ApplyingIs
<1>4. ApplyBatch(a.state, g) = m.state
  BY <1>1, <1>2, InverseCancels
<1> HIDE DEF a, g
<1>5. Applying(a, g) = m
  BY <1>2, <1>3, <1>4, SessionParts
<1>6. QED
  BY <1>5 DEF a, g

(* So does an edit that the store or a later command refuses.              *)
LEMMA RefusedIs ==
  ASSUME TypeInv, NEW f \in Recordings, EditNotSaved(f) \/ EditRejected(f)
  PROVE  mem' = mem /\ UNCHANGED <<up, disk>> /\ outcome' \in Outcome /\ up
<1>1. mem \in Session /\ f \in Batch
  BY RecordingType DEF TypeInv, TypeOK
<1>2. mem' = Applying(Applying(mem, f), InverseBatch(mem.state, f))
  BY DEF EditNotSaved, EditRejected, Stage
<1>3. QED
  BY <1>1, <1>2, TakenBack DEF EditNotSaved, EditRejected, Outcome, Failures

(* A session reloaded from its file. *)
LEMMA ReloadIs ==
  ASSUME TypeOK
  PROVE  /\ Load(disk) \in Session
         /\ Load(disk) = [state |-> LoadState(disk.rows, disk.name),
                          prefs |-> disk.prefs,
                          entries |-> disk.journal, cursor |-> disk.cursor]
  BY LoadIs DEF TypeOK
(* What Undo does, whether its write lands or not. *)
LEMMA UndoIs ==
  ASSUME TypeInv, up, CanUndo(mem)
  PROVE  LET c == mem.cursor
             b == disk.journal[c].inverse
         IN  /\ c \in DOMAIN disk.journal
             /\ c - 1 \in 0..Len(disk.journal)
             /\ b \in Batch
             /\ UndoEntry(mem) = disk.journal[c]
             /\ StepBack(mem) \in Session
             /\ StepBack(mem) = [state |-> ApplyBatch(mem.state, b), prefs |-> mem.prefs,
                                 entries |-> disk.journal, cursor |-> c - 1]
             /\ Checkpoint(disk, b, StepBack(mem)) \in Store
<1>1. /\ mem \in Session /\ disk \in Store
      /\ mem.cursor \in 0..Len(disk.journal) /\ mem.entries = disk.journal
  BY DEF TypeInv, TypeOK, JournalMirrored
<1>2. /\ mem.cursor \in DOMAIN disk.journal
      /\ mem.cursor - 1 \in 0..Len(disk.journal)
  BY <1>1, SessionParts, StoreParts, JournalIndices DEF CanUndo
<1>3. disk.journal[mem.cursor].inverse \in Batch
  BY <1>1, <1>2, StoreParts, JournalIndices
<1>4. /\ StepBack(mem) \in Session
      /\ StepBack(mem) = [state |-> ApplyBatch(mem.state, disk.journal[mem.cursor].inverse),
                          prefs |-> mem.prefs, entries |-> disk.journal,
                          cursor |-> mem.cursor - 1]
  BY <1>1, StepBackIs
<1>5. QED
  BY <1>1, <1>2, <1>3, <1>4, CheckpointType DEF UndoEntry

(* What Redo does, whether its write lands or not. *)
LEMMA RedoIs ==
  ASSUME TypeInv, up, CanRedo(mem)
  PROVE  LET c == mem.cursor
             b == disk.journal[c + 1].forward
         IN  /\ c + 1 \in DOMAIN disk.journal
             /\ c + 1 \in 0..Len(disk.journal)
             /\ b \in Batch
             /\ RedoEntry(mem) = disk.journal[c + 1]
             /\ StepForward(mem) \in Session
             /\ StepForward(mem) = [state |-> ApplyBatch(mem.state, b), prefs |-> mem.prefs,
                                    entries |-> disk.journal, cursor |-> c + 1]
             /\ Checkpoint(disk, b, StepForward(mem)) \in Store
<1>1. /\ mem \in Session /\ disk \in Store
      /\ mem.cursor \in 0..Len(disk.journal) /\ mem.entries = disk.journal
  BY DEF TypeInv, TypeOK, JournalMirrored
<1>2. /\ mem.cursor + 1 \in DOMAIN disk.journal
      /\ mem.cursor + 1 \in 0..Len(disk.journal)
  BY <1>1, SessionParts, StoreParts, JournalIndices DEF CanRedo
<1>3. disk.journal[mem.cursor + 1].forward \in Batch
  BY <1>1, <1>2, StoreParts, JournalIndices
<1>4. /\ StepForward(mem) \in Session
      /\ StepForward(mem) = [state |-> ApplyBatch(mem.state, disk.journal[mem.cursor + 1].forward),
                             prefs |-> mem.prefs, entries |-> disk.journal,
                             cursor |-> mem.cursor + 1]
  BY <1>1, StepForwardIs
<1>5. QED
  BY <1>1, <1>2, <1>3, <1>4, CheckpointType DEF RedoEntry

(* Stepping back and forward again: only the plan could differ.            *)
LEMMA UndoRedoIs ==
  ASSUME TypeInv, up, CanUndo(mem)
  PROVE  /\ StepForward(StepBack(mem)) \in Session
         /\ StepForward(StepBack(mem)) =
              [state |-> ApplyBatch(ApplyBatch(mem.state, disk.journal[mem.cursor].inverse),
                                    disk.journal[mem.cursor].forward),
               prefs |-> mem.prefs, entries |-> disk.journal, cursor |-> mem.cursor]
<1> DEFINE c == mem.cursor
           m == StepBack(mem)
<1>1. /\ m \in Session
      /\ m = [state |-> ApplyBatch(mem.state, disk.journal[c].inverse), prefs |-> mem.prefs,
              entries |-> disk.journal, cursor |-> c - 1]
      /\ c \in DOMAIN disk.journal /\ c - 1 \in 0..Len(disk.journal)
  BY UndoIs
<1>2. Len(disk.journal) \in Nat /\ DOMAIN disk.journal = 1..Len(disk.journal)
  BY JournalIndices, StoreParts DEF TypeInv, TypeOK
<1>3. (c - 1) + 1 = c /\ c - 1 < Len(disk.journal)
  BY <1>1, <1>2
<1> HIDE DEF m, c
<1>4. /\ m.cursor = c - 1 /\ m.entries = disk.journal /\ m.prefs = mem.prefs
      /\ m.state = ApplyBatch(mem.state, disk.journal[c].inverse)
      /\ m.cursor \in 0..Len(m.entries) /\ CanRedo(m)
  BY <1>1, <1>3 DEF CanRedo
<1>5. /\ StepForward(m) \in Session
      /\ StepForward(m) = [state |-> ApplyBatch(m.state, m.entries[m.cursor + 1].forward),
                           prefs |-> m.prefs, entries |-> m.entries,
                           cursor |-> m.cursor + 1]
  BY <1>1, <1>4, StepForwardIs
<1>6. QED
  BY <1>3, <1>4, <1>5 DEF m, c

(* Undoing an entry and redoing it gives the same plan. *)
LEMMA RedoUndoIs ==
  ASSUME TypeInv, up, CanRedo(mem)
  PROVE  /\ StepBack(StepForward(mem)) \in Session
         /\ StepBack(StepForward(mem)) =
              [state |-> ApplyBatch(ApplyBatch(mem.state, disk.journal[mem.cursor + 1].forward),
                                    disk.journal[mem.cursor + 1].inverse),
               prefs |-> mem.prefs, entries |-> disk.journal, cursor |-> mem.cursor]
<1> DEFINE c == mem.cursor
           m == StepForward(mem)
<1>1. /\ m \in Session
      /\ m = [state |-> ApplyBatch(mem.state, disk.journal[c + 1].forward), prefs |-> mem.prefs,
              entries |-> disk.journal, cursor |-> c + 1]
      /\ c + 1 \in 0..Len(disk.journal) /\ c \in Nat
  BY RedoIs, SessionParts DEF TypeInv, TypeOK
<1>2. (c + 1) - 1 = c /\ c + 1 > 0
  BY <1>1
<1> HIDE DEF m, c
<1>3. /\ m.cursor = c + 1 /\ m.entries = disk.journal /\ m.prefs = mem.prefs
      /\ m.state = ApplyBatch(mem.state, disk.journal[c + 1].forward)
      /\ m.cursor \in 0..Len(m.entries) /\ CanUndo(m)
  BY <1>1, <1>2 DEF CanUndo
<1>4. /\ StepBack(m) \in Session
      /\ StepBack(m) = [state |-> ApplyBatch(m.state, m.entries[m.cursor].inverse),
                        prefs |-> m.prefs, entries |-> m.entries,
                        cursor |-> m.cursor - 1]
  BY <1>1, <1>3, StepBackIs
<1>5. QED
  BY <1>2, <1>3, <1>4 DEF m, c

(* Damage touches only the marks of the journal's entries.                 *)
LEMMA DamageIs ==
  ASSUME TypeInv, Damage
  PROVE  /\ disk' \in Store
         /\ disk'.rows = disk.rows /\ disk'.name = disk.name
         /\ disk'.cursor = disk.cursor
         /\ DOMAIN disk'.journal = DOMAIN disk.journal
         /\ Len(disk'.journal) = Len(disk.journal)
         /\ \A i \in DOMAIN disk.journal :
              /\ disk'.journal[i].forward = disk.journal[i].forward
              /\ disk'.journal[i].inverse = disk.journal[i].inverse
         /\ ~up /\ UNCHANGED <<up, mem, outcome>>
<1> DEFINE j == disk.journal
<1>1. PICK i \in DOMAIN j : disk' = [disk EXCEPT !.journal[i].damaged = TRUE]
  BY DEF Damage
<1>2. j \in Seq(Entry) /\ DOMAIN j = 1..Len(j) /\ j[i] \in Entry
  BY JournalIndices, StoreParts DEF TypeInv, TypeOK
<1> DEFINE d == [j[i] EXCEPT !.damaged = TRUE]
           k == [j EXCEPT ![i] = d]
<1>3. d \in Entry /\ d.forward = j[i].forward /\ d.inverse = j[i].inverse
  BY <1>2 DEF Entry
<1>4. disk' = [disk EXCEPT !.journal = k]
  BY <1>1
<1> HIDE DEF d
<1>5. k \in Seq(Entry) /\ DOMAIN k = DOMAIN j /\ Len(k) = Len(j)
  BY <1>2, <1>3
<1>6. \A n \in DOMAIN j : k[n].forward = j[n].forward /\ k[n].inverse = j[n].inverse
  BY <1>3
<1>7. disk \in Store
  BY DEF TypeInv, TypeOK
<1> HIDE DEF k
<1>8. disk' \in Store /\ disk'.journal = k /\ disk'.rows = disk.rows
      /\ disk'.name = disk.name /\ disk'.cursor = disk.cursor
  BY <1>4, <1>5, <1>7 DEF Store
<1>9. QED
  BY <1>5, <1>6, <1>8 DEF Damage
(* A new session is well typed. *)
LEMMA TypeInit == Init => TypeInv
  BY EmptyType DEF Init, TypeInv, TypeOK, JournalMirrored, EmptySession, EmptyStore,
                   Outcome

(* Every call leaves the session and its file well typed. *)
LEMMA TypeNext == TypeInv /\ [Next]_vars => TypeInv'
<1> SUFFICES ASSUME TypeInv, [Next]_vars
             PROVE  TypeInv'
  OBVIOUS
<1> USE DEF TypeInv, TypeOK, JournalMirrored
<1>0. /\ mem \in Session /\ disk \in Store /\ up \in BOOLEAN
      /\ mem.cursor \in 0..Len(mem.entries) /\ disk.cursor \in 0..Len(disk.journal)
  OBVIOUS
<1>1. ASSUME NEW f \in Recordings, Edit(f)
      PROVE  TypeInv'
  <2> DEFINE c == mem.cursor
             j == Append(SubSeq(disk.journal, 1, c), Stage(mem.state, f))
  <2>1. /\ mem' \in Session /\ disk' \in Store
        /\ mem'.entries = j /\ disk'.journal = j /\ Len(j) = c + 1
        /\ mem'.cursor = c + 1 /\ disk'.cursor = c + 1 /\ c \in Nat
    BY <1>1, EditIs, SessionParts
  <2>2. up' = up /\ outcome' \in Outcome
    BY <1>1 DEF Edit, Outcome
  <2> HIDE DEF j
  <2>3. QED
    BY <2>1, <2>2
<1>2. ASSUME NEW f \in Recordings, EditNotSaved(f) \/ EditRejected(f)
      PROVE  TypeInv'
  BY <1>2, RefusedIs
<1>3. CASE EditNothing
  BY <1>3 DEF EditNothing, Outcome
<1>4. CASE Undo
  <2>1. /\ mem' \in Session /\ disk' \in Store
        /\ mem'.entries = disk.journal /\ disk'.journal = disk.journal
        /\ mem'.cursor = mem.cursor - 1 /\ disk'.cursor = mem.cursor - 1
        /\ mem.cursor - 1 \in 0..Len(disk.journal)
    BY <1>4, UndoIs DEF Undo, Checkpoint
  <2>2. QED
    BY <1>4, <2>1 DEF Undo, Outcome
<1>5. CASE UndoNotSaved
  <2>1. up /\ CanUndo(mem) /\ mem' = StepForward(StepBack(mem))
    BY <1>5 DEF UndoNotSaved
  <2>2. /\ mem' \in Session
        /\ mem'.entries = disk.journal /\ mem'.cursor = mem.cursor
    BY <2>1, UndoRedoIs
  <2>3. QED
    BY <1>5, <2>2 DEF UndoNotSaved, Outcome, Failures
<1>6. CASE UndoCorrupt \/ RedoCorrupt
  <2>1. mem' = Load(disk) /\ UNCHANGED <<up, disk>> /\ outcome' = "corrupt"
    BY <1>6 DEF UndoCorrupt, RedoCorrupt
  <2>2. /\ mem' \in Session
        /\ mem'.entries = disk.journal /\ mem'.cursor = disk.cursor
    BY <2>1, ReloadIs
  <2>3. QED
    BY <2>1, <2>2 DEF Outcome, Failures
<1>7. CASE Redo
  <2>1. /\ mem' \in Session /\ disk' \in Store
        /\ mem'.entries = disk.journal /\ disk'.journal = disk.journal
        /\ mem'.cursor = mem.cursor + 1 /\ disk'.cursor = mem.cursor + 1
        /\ mem.cursor + 1 \in 0..Len(disk.journal)
    BY <1>7, RedoIs DEF Redo, Checkpoint
  <2>2. QED
    BY <1>7, <2>1 DEF Redo, Outcome
<1>8. CASE RedoNotSaved
  <2>1. up /\ CanRedo(mem) /\ mem' = StepBack(StepForward(mem))
    BY <1>8 DEF RedoNotSaved
  <2>2. /\ mem' \in Session
        /\ mem'.entries = disk.journal /\ mem'.cursor = mem.cursor
    BY <2>1, RedoUndoIs
  <2>3. QED
    BY <1>8, <2>2 DEF RedoNotSaved, Outcome, Failures
<1>9. ASSUME NEW v \in Pref, SetNextPreferences(v)
      PROVE  TypeInv'
  <2>1. /\ mem' \in Session
        /\ mem'.entries = mem.entries /\ mem'.cursor = mem.cursor
    BY <1>9 DEF SetNextPreferences, Session
  <2>2. mem.state[MetaName] \in Val \cup {Absent}
    BY SessionParts, StoreAssumption DEF State
  <2>3. CASE disk' = [disk EXCEPT !.name = mem.state[MetaName], !.prefs = v]
    <3>1. /\ disk' \in Store
          /\ disk'.journal = disk.journal /\ disk'.cursor = disk.cursor
      BY <2>2, <2>3 DEF Store
    <3>2. QED
      BY <1>9, <2>1, <3>1 DEF SetNextPreferences, Outcome, Failures
  <2>4. CASE UNCHANGED disk
    BY <1>9, <2>1, <2>4 DEF SetNextPreferences, Outcome, Failures
  <2>5. QED
    BY <1>9, <2>3, <2>4 DEF SetNextPreferences
<1>10. CASE NewEmpire
  <2>1. /\ EmptySession.entries = <<>> /\ EmptySession.cursor = 0
        /\ EmptyStore.journal = <<>> /\ EmptyStore.cursor = 0
        /\ Len(<<>>) = 0 /\ 0 \in 0..0
    BY DEF EmptySession, EmptyStore
  <2>2. QED
    BY <1>10, <2>1, EmptyType DEF NewEmpire, Outcome
<1>11. CASE NewEmpireNotSaved
  BY <1>11 DEF NewEmpireNotSaved, Outcome, Failures
<1>12. CASE Crash
  <2>1. /\ EmptySession.entries = <<>> /\ EmptySession.cursor = 0
        /\ Len(<<>>) = 0 /\ 0 \in 0..0
    BY DEF EmptySession
  <2>2. QED
    BY <1>12, <2>1, EmptyType DEF Crash, Outcome
<1>13. CASE Open
  <2>1. /\ mem' \in Session
        /\ mem'.entries = disk.journal /\ mem'.cursor = disk.cursor
    BY <1>13, ReloadIs DEF Open
  <2>2. QED
    BY <1>13, <2>1 DEF Open, Outcome
<1>14. CASE Damage
  BY <1>14, DamageIs
<1>15. CASE UNCHANGED vars
  BY <1>15 DEF vars
<1>16. QED
  BY <1>1, <1>2, <1>3, <1>4, <1>5, <1>6, <1>7, <1>8, <1>9, <1>10, <1>11, <1>12,
     <1>13, <1>14, <1>15 DEF Next

(* Every reachable state is well typed, and the undo position never points *)
(* past the journal, in memory or on disk: a commit that cuts the redo     *)
(* tail, an undo that is saved or not, a reload and a crash keep it so.    *)
THEOREM TypeCorrect == Spec => []TypeOK
<1>1. TypeInv => TypeOK
  BY DEF TypeInv
<1>2. QED
  BY <1>1, TypeInit, TypeNext, PTL DEF Spec
------------------------------------------------------------------------------
(* Memory, rows and journal *)

(* A new session and its file agree. *)
LEMMA InvInit == Init => IInv
<1> SUFFICES ASSUME Init PROVE IInv
  OBVIOUS
<1>1. TypeInv
  BY TypeInit
<1>2. /\ disk.rows = NoRows /\ disk.name = DefaultName /\ disk.journal = <<>>
      /\ disk.cursor = 0 /\ mem.state = Blank
  BY DEF Init, EmptyStore, EmptySession
<1>3. PlanMirrored
  BY <1>2, LoadNothing DEF PlanMirrored
<1>4. RowsReplay
  BY <1>2, LoadNothing, StateAfterNone DEF RowsReplay
<1>5. EntriesCancel
  BY <1>2 DEF EntriesCancel
<1>6. QED
  BY <1>1, <1>3, <1>4, <1>5 DEF IInv

(* Mirroring a batch keeps the loaded plan equal to the plan in memory.    *)
LEMMA Mirrored ==
  ASSUME IdsDistinct, TypeInv, PlanMirrored, up, NEW b \in Batch
  PROVE  LoadState(ApplyRows(disk.rows, b), ApplyBatch(mem.state, b)[MetaName])
           = ApplyBatch(mem.state, b)
<1>1. /\ mem.state \in State /\ disk.rows \in Rows
      /\ mem.state = LoadState(disk.rows, disk.name)
  BY SessionParts, StoreParts DEF TypeInv, TypeOK, PlanMirrored
<1>2. QED
  BY <1>1, RowsFollowState

(* An edit: the new entry leads from the current plan to the new one, the  *)
(* kept entries are untouched.                                             *)
LEMMA EditInv ==
  ASSUME IdsDistinct, IInv, NEW f \in Recordings, Edit(f)
  PROVE  (PlanMirrored /\ RowsReplay /\ EntriesCancel)'
<1> DEFINE c == mem.cursor
           s == mem.state
           e == Stage(s, f)
           j == Append(SubSeq(disk.journal, 1, c), e)
<1>1. /\ up /\ TypeInv /\ PlanMirrored /\ f \in Batch /\ s \in State
      /\ disk.journal \in Seq(Entry) /\ c \in 0..Len(disk.journal)
      /\ disk.cursor = c /\ Len(disk.journal) \in Nat /\ c \in Nat
  BY RecordingType, SessionParts, StoreParts, JournalIndices
     DEF IInv, TypeInv, TypeOK, JournalMirrored, Edit
<1>2. /\ e \in Entry /\ e.forward = f /\ e.inverse = InverseBatch(s, f)
  BY <1>1, StageType DEF Stage
<1>3. /\ mem'.state = ApplyBatch(s, f)
      /\ disk'.rows = ApplyRows(disk.rows, f)
      /\ disk'.name = ApplyBatch(s, f)[MetaName]
      /\ disk'.journal = j /\ disk'.cursor = c + 1
  BY <1>1, EditIs
<1>4. LoadState(disk'.rows, disk'.name) = ApplyBatch(s, f)
  BY <1>1, <1>3, Mirrored
<1>5. s = StateAfter(disk.journal, c)
  BY <1>1 DEF IInv, RowsReplay, PlanMirrored
<1>6. /\ j \in Seq(Entry) /\ Len(j) = c + 1 /\ j[c + 1] = e
      /\ \A i \in 1..c : j[i] = disk.journal[i]
  BY <1>1, <1>2, CutAppend
<1> HIDE DEF j, e, s, c
<1>7. \A n \in 0..c : StateAfter(j, n) = StateAfter(disk.journal, n)
  <2>1. ASSUME NEW n \in 0..c
        PROVE  n \in Nat /\ \A i \in 1..n : j[i].forward = disk.journal[i].forward
    BY <1>1, <1>6
  <2>2. QED
    BY <2>1, StateAfterPrefix
<1>8. c + 1 \in DOMAIN j /\ (c + 1) - 1 = c /\ c \in 0..c
  BY <1>1, <1>6, JournalIndices
<1>9. StateAfter(j, c + 1) = ApplyBatch(s, f)
  BY <1>2, <1>5, <1>6, <1>7, <1>8, StateAfterStep
<1>10. PlanMirrored' /\ RowsReplay'
  BY <1>3, <1>4, <1>9 DEF PlanMirrored, RowsReplay
<1>11. ASSUME NEW i \in DOMAIN j
       PROVE  ApplyBatch(StateAfter(j, i), j[i].inverse) = StateAfter(j, i - 1)
  <2>1. i \in 1..(c + 1)
    BY <1>6, JournalIndices
  <2>2. CASE i = c + 1
    BY <1>1, <1>2, <1>5, <1>6, <1>7, <1>8, <1>9, <2>2, InverseCancels
  <2>3. CASE i # c + 1
    <3>1. i \in 1..c /\ i \in 0..c /\ i - 1 \in 0..c /\ i \in DOMAIN disk.journal
      BY <1>1, <2>1, <2>3, JournalIndices
    <3>2. QED
      BY <1>6, <1>7, <3>1 DEF IInv, EntriesCancel
  <2>4. QED
    BY <2>2, <2>3
<1>12. EntriesCancel'
  BY <1>3, <1>11 DEF EntriesCancel
<1>13. QED
  BY <1>10, <1>12

(* The plan an undo leads to, and the way back.                            *)
LEMMA UndoPlans ==
  ASSUME IInv, up, CanUndo(mem)
  PROVE  LET c == mem.cursor
             j == disk.journal
         IN  /\ ApplyBatch(mem.state, j[c].inverse) = StateAfter(j, c - 1)
             /\ ApplyBatch(ApplyBatch(mem.state, j[c].inverse), j[c].forward) = mem.state
<1> DEFINE c == mem.cursor
           j == disk.journal
<1>1. c \in DOMAIN j /\ j \in Seq(Entry) /\ c = disk.cursor
  BY UndoIs, StoreParts DEF IInv, TypeInv, TypeOK, JournalMirrored
<1>2. mem.state = StateAfter(j, c)
  BY <1>1 DEF IInv, RowsReplay, PlanMirrored
<1>3. ApplyBatch(mem.state, j[c].inverse) = StateAfter(j, c - 1)
  BY <1>1, <1>2 DEF IInv, EntriesCancel
<1>4. QED
  BY <1>1, <1>2, <1>3, StateAfterStep

(* Redo moves to the state the journal has there. *)
LEMMA RedoPlans ==
  ASSUME IInv, up, CanRedo(mem)
  PROVE  LET c == mem.cursor
             j == disk.journal
         IN  /\ ApplyBatch(mem.state, j[c + 1].forward) = StateAfter(j, c + 1)
             /\ ApplyBatch(ApplyBatch(mem.state, j[c + 1].forward), j[c + 1].inverse)
                  = mem.state
<1> DEFINE c == mem.cursor
           j == disk.journal
<1>1. /\ c + 1 \in DOMAIN j /\ j \in Seq(Entry) /\ c = disk.cursor
      /\ (c + 1) - 1 = c
  BY RedoIs, StoreParts, SessionParts DEF IInv, TypeInv, TypeOK, JournalMirrored
<1>2. mem.state = StateAfter(j, c)
  BY <1>1 DEF IInv, RowsReplay, PlanMirrored
<1>3. ApplyBatch(mem.state, j[c + 1].forward) = StateAfter(j, c + 1)
  BY <1>1, <1>2, StateAfterStep
<1>4. ApplyBatch(StateAfter(j, c + 1), j[c + 1].inverse) = StateAfter(j, c)
  BY <1>1 DEF IInv, EntriesCancel
<1>5. QED
  BY <1>2, <1>3, <1>4
(* A move the store refuses is taken back, to the last component.          *)
LEMMA CompensatedIs ==
  ASSUME IInv, UndoNotSaved \/ RedoNotSaved
  PROVE  mem' = mem /\ UNCHANGED <<up, disk>>
<1>1. TypeInv /\ up
  BY DEF IInv, UndoNotSaved, RedoNotSaved
<1>2. /\ mem = [state |-> mem.state, prefs |-> mem.prefs,
                entries |-> mem.entries, cursor |-> mem.cursor]
      /\ mem.entries = disk.journal
  BY <1>1, SessionParts DEF TypeInv, TypeOK, JournalMirrored
<1>3. CASE UndoNotSaved
  <2>1. CanUndo(mem) /\ mem' = StepForward(StepBack(mem)) /\ UNCHANGED <<up, disk>>
    BY <1>3 DEF UndoNotSaved
  <2>2. mem' = [state |-> mem.state, prefs |-> mem.prefs,
                entries |-> disk.journal, cursor |-> mem.cursor]
    BY <1>1, <2>1, UndoRedoIs, UndoPlans
  <2>3. QED
    BY <1>2, <2>1, <2>2
<1>4. CASE RedoNotSaved
  <2>1. CanRedo(mem) /\ mem' = StepBack(StepForward(mem)) /\ UNCHANGED <<up, disk>>
    BY <1>4 DEF RedoNotSaved
  <2>2. mem' = [state |-> mem.state, prefs |-> mem.prefs,
                entries |-> disk.journal, cursor |-> mem.cursor]
    BY <1>1, <2>1, RedoUndoIs, RedoPlans
  <2>3. QED
    BY <1>2, <2>1, <2>2
<1>5. QED
  BY <1>3, <1>4

(* Undo keeps memory, file and journal in agreement. *)
LEMMA UndoInv ==
  ASSUME IdsDistinct, IInv, Undo
  PROVE  (PlanMirrored /\ RowsReplay /\ EntriesCancel)'
<1> DEFINE c == mem.cursor
           b == disk.journal[c].inverse
           m == StepBack(mem)
<1>1. TypeInv /\ PlanMirrored /\ up /\ CanUndo(mem)
  BY DEF IInv, Undo
<1>2. /\ b \in Batch
      /\ mem' = [state |-> ApplyBatch(mem.state, b), prefs |-> mem.prefs,
                 entries |-> disk.journal, cursor |-> c - 1]
      /\ disk' = Checkpoint(disk, b, mem')
  BY <1>1, UndoIs DEF Undo
<1>3. /\ mem'.state = ApplyBatch(mem.state, b) /\ mem'.cursor = c - 1
      /\ disk'.rows = ApplyRows(disk.rows, b)
      /\ disk'.name = ApplyBatch(mem.state, b)[MetaName]
      /\ disk'.journal = disk.journal /\ disk'.cursor = c - 1
  BY <1>2 DEF Checkpoint
<1>4. LoadState(disk'.rows, disk'.name) = ApplyBatch(mem.state, b)
  BY <1>1, <1>2, <1>3, Mirrored
<1>5. ApplyBatch(mem.state, b) = StateAfter(disk.journal, c - 1)
  BY <1>1, UndoPlans
<1>6. PlanMirrored' /\ RowsReplay'
  BY <1>3, <1>4, <1>5 DEF PlanMirrored, RowsReplay
<1>7. EntriesCancel'
  BY <1>3 DEF IInv, EntriesCancel
<1>8. QED
  BY <1>6, <1>7

(* Redo keeps memory, file and journal in agreement. *)
LEMMA RedoInv ==
  ASSUME IdsDistinct, IInv, Redo
  PROVE  (PlanMirrored /\ RowsReplay /\ EntriesCancel)'
<1> DEFINE c == mem.cursor
           b == disk.journal[c + 1].forward
<1>1. TypeInv /\ PlanMirrored /\ up /\ CanRedo(mem)
  BY DEF IInv, Redo
<1>2. /\ b \in Batch
      /\ mem' = [state |-> ApplyBatch(mem.state, b), prefs |-> mem.prefs,
                 entries |-> disk.journal, cursor |-> c + 1]
      /\ disk' = Checkpoint(disk, b, mem')
  BY <1>1, RedoIs DEF Redo
<1>3. /\ mem'.state = ApplyBatch(mem.state, b) /\ mem'.cursor = c + 1
      /\ disk'.rows = ApplyRows(disk.rows, b)
      /\ disk'.name = ApplyBatch(mem.state, b)[MetaName]
      /\ disk'.journal = disk.journal /\ disk'.cursor = c + 1
  BY <1>2 DEF Checkpoint
<1>4. LoadState(disk'.rows, disk'.name) = ApplyBatch(mem.state, b)
  BY <1>1, <1>2, <1>3, Mirrored
<1>5. ApplyBatch(mem.state, b) = StateAfter(disk.journal, c + 1)
  BY <1>1, RedoPlans
<1>6. PlanMirrored' /\ RowsReplay'
  BY <1>3, <1>4, <1>5 DEF PlanMirrored, RowsReplay
<1>7. EntriesCancel'
  BY <1>3 DEF IInv, EntriesCancel
<1>8. QED
  BY <1>6, <1>7

(* The saved name already is the name in memory, so saving the preferences *)
(* rewrites it with itself.                                                *)
LEMMA PreferencesInv ==
  ASSUME IInv, NEW v \in Pref, SetNextPreferences(v)
  PROVE  /\ mem'.state = mem.state /\ mem'.entries = mem.entries
         /\ mem'.cursor = mem.cursor
         /\ disk'.rows = disk.rows /\ disk'.journal = disk.journal
         /\ disk'.cursor = disk.cursor /\ disk'.name = disk.name
         /\ up /\ up' = up
<1>1. /\ mem \in Session /\ disk \in Store /\ up
      /\ mem' = [mem EXCEPT !.prefs = v]
  BY DEF IInv, TypeInv, TypeOK, SetNextPreferences
<1>2. mem.state[MetaName] = disk.name
  BY <1>1, StoreAssumption DEF IInv, PlanMirrored, LoadState
<1>3. CASE disk' = [disk EXCEPT !.name = mem.state[MetaName], !.prefs = v]
  BY <1>1, <1>2, <1>3 DEF Session, Store, SetNextPreferences
<1>4. CASE UNCHANGED disk
  BY <1>1, <1>4 DEF Session, SetNextPreferences
<1>5. QED
  BY <1>3, <1>4 DEF SetNextPreferences

(* An entry that can no longer be decoded leaves memory and file in agreement. *)
LEMMA DamageInv ==
  ASSUME IInv, Damage
  PROVE  (PlanMirrored /\ RowsReplay /\ EntriesCancel)'
<1> DEFINE j == disk.journal
           k == disk'.journal
<1>1. TypeInv
  BY DEF IInv
<1>2. /\ disk'.rows = disk.rows /\ disk'.name = disk.name /\ disk'.cursor = disk.cursor
      /\ DOMAIN k = DOMAIN j /\ ~up'
      /\ \A i \in DOMAIN j : k[i].forward = j[i].forward /\ k[i].inverse = j[i].inverse
  BY <1>1, DamageIs
<1>3. j \in Seq(Entry) /\ disk.cursor \in 0..Len(j)
  BY <1>1, StoreParts DEF TypeInv, TypeOK
<1>4. ASSUME NEW n \in 0..Len(j)
      PROVE  StateAfter(k, n) = StateAfter(j, n)
  <2>1. n \in Nat /\ \A i \in 1..n : k[i].forward = j[i].forward
    BY <1>2, <1>3, JournalIndices
  <2>2. QED
    BY <2>1, StateAfterPrefix
<1>5. RowsReplay'
  BY <1>2, <1>3, <1>4 DEF IInv, RowsReplay
<1>6. ASSUME NEW i \in DOMAIN k
      PROVE  ApplyBatch(StateAfter(k, i), k[i].inverse) = StateAfter(k, i - 1)
  <2>1. i \in DOMAIN j /\ i \in 0..Len(j) /\ i - 1 \in 0..Len(j)
    BY <1>2, <1>3, JournalIndices
  <2>2. QED
    BY <1>2, <1>4, <2>1 DEF IInv, EntriesCancel
<1>7. QED
  BY <1>2, <1>5, <1>6 DEF PlanMirrored, EntriesCancel

(* Every call keeps memory, file and journal in agreement. *)
LEMMA InvNext == IdsDistinct /\ IInv /\ [Next]_vars => IInv'
<1> SUFFICES ASSUME IdsDistinct, IInv, [Next]_vars
             PROVE  (PlanMirrored /\ RowsReplay /\ EntriesCancel)'
  BY TypeNext DEF IInv
<1>0. TypeInv /\ PlanMirrored /\ RowsReplay /\ EntriesCancel
  BY DEF IInv
<1>1. ASSUME UNCHANGED <<up, mem, disk>>
      PROVE  (PlanMirrored /\ RowsReplay /\ EntriesCancel)'
  BY <1>0, <1>1 DEF PlanMirrored, RowsReplay, EntriesCancel
<1>2. ASSUME NEW f \in Recordings, Edit(f)
      PROVE  (PlanMirrored /\ RowsReplay /\ EntriesCancel)'
  BY <1>2, EditInv
<1>3. ASSUME NEW f \in Recordings, EditNotSaved(f) \/ EditRejected(f)
      PROVE  (PlanMirrored /\ RowsReplay /\ EntriesCancel)'
  BY <1>0, <1>1, <1>3, RefusedIs
<1>4. CASE EditNothing \/ NewEmpireNotSaved \/ UNCHANGED vars
  BY <1>1, <1>4 DEF EditNothing, NewEmpireNotSaved, vars
<1>5. CASE Undo
  BY <1>5, UndoInv
<1>6. CASE Redo
  BY <1>6, RedoInv
<1>7. CASE UndoNotSaved \/ RedoNotSaved
  BY <1>1, <1>7, CompensatedIs
<1>8. ASSUME mem' = Load(disk), UNCHANGED disk
      PROVE  (PlanMirrored /\ RowsReplay /\ EntriesCancel)'
  <2>1. mem'.state = LoadState(disk'.rows, disk'.name)
    BY <1>0, <1>8, ReloadIs DEF TypeInv
  <2>2. QED
    BY <1>0, <1>8, <2>1 DEF PlanMirrored, RowsReplay, EntriesCancel
<1>9. CASE UndoCorrupt \/ RedoCorrupt \/ Open
  BY <1>8, <1>9 DEF UndoCorrupt, RedoCorrupt, Open
<1>10. ASSUME NEW v \in Pref, SetNextPreferences(v)
       PROVE  (PlanMirrored /\ RowsReplay /\ EntriesCancel)'
  BY <1>0, <1>10, PreferencesInv DEF PlanMirrored, RowsReplay, EntriesCancel
<1>11. CASE NewEmpire
  <2>1. /\ disk'.rows = NoRows /\ disk'.name = DefaultName /\ disk'.journal = <<>>
        /\ disk'.cursor = 0 /\ mem'.state = Blank
    BY <1>11 DEF NewEmpire, EmptyStore, EmptySession
  <2>2. QED
    BY <2>1, LoadNothing, StateAfterNone DEF PlanMirrored, RowsReplay, EntriesCancel
<1>12. CASE Crash
  BY <1>0, <1>12 DEF Crash, PlanMirrored, RowsReplay, EntriesCancel
<1>13. CASE Damage
  BY <1>13, DamageInv
<1>14. QED
  BY <1>2, <1>3, <1>4, <1>5, <1>6, <1>7, <1>9, <1>10, <1>11, <1>12, <1>13 DEF Next
(* Memory, plan file and journal agree in every reachable state. *)
THEOREM Invariant ==
  ASSUME IdsDistinct
  PROVE  Spec => []IInv
<1>1. IInv /\ [Next]_vars => IInv'
  BY InvNext
<1>2. QED
  BY <1>1, InvInit, PTL DEF Spec

(* What a plan file says is what the next session starts with. *)
LEMMA LoadGivesSession ==
  ASSUME TypeInv, PlanMirrored, up
  PROVE  Load(disk) = [state |-> mem.state, prefs |-> disk.prefs,
                       entries |-> mem.entries, cursor |-> mem.cursor]
  BY ReloadIs DEF TypeInv, PlanMirrored, JournalMirrored

(* However calls fail, whatever the store refuses, whenever the process    *)
(* dies: what a fresh load of the plan file gives is what the session      *)
(* holds, if no two entities share an id.                                  *)
THEOREM DiskAlwaysMirrorsMemory ==
  ASSUME IdsDistinct
  PROVE  Spec => []DiskMirrorsMemory
<1>1. IInv => DiskMirrorsMemory
  <2> SUFFICES ASSUME IInv, up
               PROVE  mem = [Load(disk) EXCEPT !.prefs = mem.prefs]
    BY DEF DiskMirrorsMemory
  <2>1. Load(disk) = [state |-> mem.state, prefs |-> disk.prefs,
                      entries |-> mem.entries, cursor |-> mem.cursor]
    BY LoadGivesSession DEF IInv
  <2>2. mem = [state |-> mem.state, prefs |-> mem.prefs,
               entries |-> mem.entries, cursor |-> mem.cursor]
    BY SessionParts DEF IInv, TypeInv, TypeOK
  <2>3. QED
    BY <2>1, <2>2
<1>2. QED
  BY <1>1, Invariant, PTL

(* The stored rows are what the applied journal entries build, and every   *)
(* entry, applied or waiting to be redone, can be undone exactly.          *)
THEOREM JournalAlwaysReplays ==
  ASSUME IdsDistinct
  PROVE  Spec => []JournalReplays
<1>1. IInv => JournalReplays
  <2> SUFFICES ASSUME IInv PROVE JournalReplays
    OBVIOUS
  <2>1. Load(disk).state = LoadState(disk.rows, disk.name)
    BY ReloadIs DEF IInv, TypeInv
  <2>2. QED
    BY <2>1 DEF IInv, RowsReplay, EntriesCancel, JournalReplays
<1>2. QED
  BY <1>1, Invariant, PTL

------------------------------------------------------------------------------
(* What a call leaves behind *)

(* A call that reports a failure leaves the plan, the journal and the undo *)
(* position alone, in memory and in the store.                             *)
THEOREM FailureAlwaysLeavesNoTrace ==
  ASSUME IdsDistinct
  PROVE  Spec => FailureLeavesNoTrace
<1> DEFINE Same == /\ disk'.rows = disk.rows
                   /\ disk'.journal = disk.journal
                   /\ disk'.cursor = disk.cursor
                   /\ mem'.state = mem.state
                   /\ mem'.entries = mem.entries
                   /\ mem'.cursor = mem.cursor
           Step == (up /\ up' /\ outcome' \in Failures) => Same
<1>1. IInv /\ [Next]_vars => [Step]_vars
  <2> SUFFICES ASSUME IInv, Next, up, up', outcome' \in Failures
               PROVE  Same
    OBVIOUS
  <2>1. ASSUME UNCHANGED <<mem, disk>> PROVE Same
    BY <2>1
  <2>2. outcome' \notin {"ok", "nothing to do", "started", "gone"}
    BY DEF Failures
  <2>3. ASSUME NEW f \in Recordings, EditNotSaved(f) \/ EditRejected(f)
        PROVE  Same
    BY <2>1, <2>3, RefusedIs DEF IInv
  <2>4. CASE UndoNotSaved \/ RedoNotSaved
    BY <2>1, <2>4, CompensatedIs
  <2>5. CASE UndoCorrupt \/ RedoCorrupt
    <3>1. mem' = Load(disk) /\ UNCHANGED disk
      BY <2>5 DEF UndoCorrupt, RedoCorrupt
    <3>2. QED
      BY <3>1, LoadGivesSession DEF IInv
  <2>6. ASSUME NEW v \in Pref, SetNextPreferences(v) PROVE Same
    BY <2>6, PreferencesInv
  <2>7. CASE NewEmpireNotSaved
    BY <2>1, <2>7 DEF NewEmpireNotSaved
  <2>8. ASSUME NEW f \in Recordings, Edit(f) PROVE FALSE
    BY <2>2, <2>8 DEF Edit
  <2>9. CASE EditNothing \/ Undo \/ Redo \/ NewEmpire \/ Crash \/ Open \/ Damage
    BY <2>2, <2>9 DEF EditNothing, Undo, Redo, NewEmpire, Crash, Open, Damage
  <2>10. QED
    BY <2>3, <2>4, <2>5, <2>6, <2>7, <2>8, <2>9 DEF Next
<1>2. Spec => [][Step]_vars
  BY <1>1, Invariant, PTL DEF Spec
<1>3. QED
  BY <1>2 DEF FailureLeavesNoTrace

(* A closed session has nothing to report.                                 *)
ClosedIsGone == ~up => outcome = "gone"

(* With the file closed nothing is pending. *)
LEMMA ClosedInv == Spec => []ClosedIsGone
<1>1. Init => ClosedIsGone
  BY DEF Init, ClosedIsGone
<1>2. ClosedIsGone /\ [Next]_vars => ClosedIsGone'
  <2> SUFFICES ASSUME ClosedIsGone, [Next]_vars, ~up'
               PROVE  outcome' = "gone"
    BY DEF ClosedIsGone
  <2>1. CASE Crash
    BY <2>1 DEF Crash
  <2>2. CASE Damage \/ UNCHANGED vars
    BY <2>2 DEF Damage, vars, ClosedIsGone
  <2>3. up /\ UNCHANGED up => FALSE
    OBVIOUS
  <2>4. ASSUME NEW f \in Recordings, Edit(f) \/ EditNotSaved(f) \/ EditRejected(f)
        PROVE  up /\ UNCHANGED up
    BY <2>4, Zenon DEF Edit, EditNotSaved, EditRejected
  <2>5. ASSUME NEW v \in Pref, SetNextPreferences(v) PROVE up /\ UNCHANGED up
    BY <2>5, Zenon DEF SetNextPreferences
  <2>6. CASE EditNothing \/ Undo \/ UndoNotSaved \/ UndoCorrupt
    <3>1. up /\ UNCHANGED up
      BY <2>6, Zenon DEF EditNothing, Undo, UndoNotSaved, UndoCorrupt
    <3>2. QED
      BY <2>3, <3>1
  <2>7. CASE Redo \/ RedoNotSaved \/ RedoCorrupt
    <3>1. up /\ UNCHANGED up
      BY <2>7, Zenon DEF Redo, RedoNotSaved, RedoCorrupt
    <3>2. QED
      BY <2>3, <3>1
  <2>8. CASE NewEmpire \/ NewEmpireNotSaved \/ Open
    <3>1. (up /\ UNCHANGED up) \/ up' = TRUE
      BY <2>8, Zenon DEF NewEmpire, NewEmpireNotSaved, Open
    <3>2. QED
      BY <2>3, <3>1
  <2>9. QED
    BY <2>1, <2>2, <2>3, <2>4, <2>5, <2>6, <2>7, <2>8, Zenon DEF Next
<1>3. QED
  BY <1>1, <1>2, PTL DEF Spec

(* A call that reports success has already saved all it changed: loading   *)
(* the store then gives the session, preferences included.                 *)
THEOREM SuccessIsAlwaysDurable ==
  ASSUME IdsDistinct
  PROVE  Spec => SuccessIsDurable
<1> DEFINE Step == outcome' = "ok" => Load(disk') = mem'
<1>1. IInv /\ IInv' /\ ClosedIsGone /\ [Next]_vars => [Step]_vars
  <2> SUFFICES ASSUME IInv, IInv', ClosedIsGone, Next, outcome' = "ok"
               PROVE  Load(disk') = mem'
    OBVIOUS
  <2>1. ASSUME up', disk'.prefs = mem'.prefs PROVE Load(disk') = mem'
    <3>1. /\ disk' \in Store /\ disk'.cursor \in 0..Len(disk'.journal)
          /\ mem' \in Session
          /\ mem'.entries = disk'.journal /\ mem'.cursor = disk'.cursor
          /\ mem'.state = LoadState(disk'.rows, disk'.name)
      BY <2>1 DEF IInv, TypeInv, TypeOK, JournalMirrored, PlanMirrored
    <3>2. Load(disk') = [state |-> mem'.state, prefs |-> mem'.prefs,
                         entries |-> mem'.entries, cursor |-> mem'.cursor]
      BY <2>1, <3>1, LoadIs
    <3>3. mem' = [state |-> mem'.state, prefs |-> mem'.prefs,
                  entries |-> mem'.entries, cursor |-> mem'.cursor]
      BY <3>1, SessionParts
    <3>4. QED
      BY <3>2, <3>3
  <2>2. ASSUME NEW f \in Recordings, Edit(f) PROVE Load(disk') = mem'
    <3>1. up'
      BY <2>2, Zenon DEF Edit
    <3>2. mem'.prefs = mem.prefs /\ disk'.prefs = mem.prefs
      BY <2>2, EditIs DEF IInv
    <3>3. QED
      BY <2>1, <3>1, <3>2
  <2>3. CASE Undo \/ Redo
    BY <2>1, <2>3 DEF Undo, Redo, Checkpoint
  <2>4. ASSUME NEW v \in Pref, SetNextPreferences(v) PROVE Load(disk') = mem'
    <3>1. /\ up' /\ mem' = [mem EXCEPT !.prefs = v]
          /\ disk' = [disk EXCEPT !.name = mem.state[MetaName], !.prefs = v]
      BY <2>4 DEF SetNextPreferences
    <3>2. mem \in Session /\ disk \in Store
      BY DEF IInv, TypeInv, TypeOK
    <3>3. mem'.prefs = v /\ disk'.prefs = v
      BY <3>1, <3>2 DEF Session, Store
    <3>4. QED
      BY <2>1, <3>1, <3>3
  <2>5. CASE NewEmpire
    BY <2>1, <2>5 DEF NewEmpire, EmptyStore, EmptySession
  <2>6. CASE Damage
    BY <2>6 DEF ClosedIsGone, Damage
  <2>7. ASSUME NEW f \in Recordings, EditNotSaved(f) \/ EditRejected(f) PROVE FALSE
    BY <2>7 DEF EditNotSaved, EditRejected
  <2>8. CASE EditNothing \/ UndoNotSaved \/ UndoCorrupt \/ RedoNotSaved \/ RedoCorrupt
             \/ NewEmpireNotSaved \/ Crash \/ Open
    BY <2>8 DEF EditNothing, UndoNotSaved, UndoCorrupt, RedoNotSaved, RedoCorrupt,
                NewEmpireNotSaved, Crash, Open
  <2>9. QED
    BY <2>2, <2>3, <2>4, <2>5, <2>6, <2>7, <2>8 DEF Next
<1>2. Spec => [][Step]_vars
  BY <1>1, Invariant, ClosedInv, PTL DEF Spec
<1>3. QED
  BY <1>2 DEF SuccessIsDurable
------------------------------------------------------------------------------
(* The plan file implements the line of versions *)

(* The line of versions a journal stands for.                              *)
Line(j) == [i \in 1..(Len(j) + 1) |-> StateAfter(j, i - 1)]

(* The line of versions a journal stands for. *)
LEMMA LineIs ==
  ASSUME NEW j \in Seq(Entry)
  PROVE  /\ Len(Line(j)) = Len(j) + 1
         /\ \A i \in 1..(Len(j) + 1) : Line(j)[i] = StateAfter(j, i - 1)
<1>1. Len(j) + 1 \in Nat
  BY JournalIndices
<1>2. QED
  BY <1>1 DEF Line

(* An empty journal stands for one version. *)
LEMMA LineOfNothing == Line(<<>>) = <<Blank>>
<1>1. Len(<<>>) + 1 = 1
  OBVIOUS
<1>2. \A i \in 1..1 : StateAfter(<<>>, i - 1) = Blank
  BY StateAfterNone
<1>3. Line(<<>>) = [i \in 1..1 |-> Blank]
  BY <1>1, <1>2 DEF Line
<1>4. QED
  BY <1>3

(* A new plan file is a line of one version. *)
LEMMA HistoryInit == Init => History!Init
  BY LineOfNothing DEF Init, History!Init, EmptyStore, Line

(* An edit is a new version after the current one.                         *)
LEMMA EditDoes ==
  ASSUME IInv, NEW f \in Recordings, Edit(f)
  PROVE  History!Do
<1> DEFINE c == mem.cursor
           e == Stage(mem.state, f)
           j == disk.journal
           k == Append(SubSeq(j, 1, c), e)
<1>1. /\ TypeInv /\ j \in Seq(Entry) /\ c \in 0..Len(j) /\ disk.cursor = c
      /\ c \in Nat
  BY StoreParts, SessionParts DEF IInv, TypeInv, TypeOK, JournalMirrored, Edit
<1>2. /\ e \in Entry /\ disk'.journal = k /\ disk'.cursor = c + 1
  BY <1>1, EditIs
<1>3. /\ k \in Seq(Entry) /\ Len(k) = c + 1
      /\ \A i \in 1..c : k[i] = j[i]
  BY <1>1, <1>2, CutAppend
<1> HIDE DEF c, e, k
<1>4. ASSUME NEW n \in 0..c
      PROVE  StateAfter(k, n) = StateAfter(j, n)
  <2>1. n \in Nat /\ \A i \in 1..n : k[i].forward = j[i].forward
    BY <1>1, <1>3
  <2>2. QED
    BY <2>1, StateAfterPrefix
<1>5. StateAfter(k, c + 1) \in State
  BY <1>1, <1>3, StateAfterType
<1>6. /\ Len(Line(k)) = c + 2
      /\ \A i \in 1..(c + 2) : Line(k)[i] = StateAfter(k, i - 1)
      /\ \A i \in 1..(c + 1) : Line(j)[i] = StateAfter(j, i - 1)
  BY <1>1, <1>3, LineIs, JournalIndices
<1>7. Line(k)[c + 2] \in State
  <2>1. (c + 2) - 1 = c + 1 /\ c + 2 \in 1..(c + 2)
    BY <1>1
  <2>2. QED
    BY <1>5, <1>6, <2>1
<1>8. \A i \in 1..(c + 1) : Line(k)[i] = Line(j)[i]
  <2>1. \A i \in 1..(c + 1) : i \in 1..(c + 2) /\ i - 1 \in 0..c
    BY <1>1
  <2>2. QED
    BY <1>4, <1>6, <2>1
<1>9. (c + 1) + 1 = c + 2
  BY <1>1
<1>10. QED
  BY <1>1, <1>2, <1>6, <1>7, <1>8, <1>9 DEF History!Do, Line

(* The line only depends on the forward batches.                           *)
LEMMA SameLine ==
  ASSUME NEW j \in Seq(Entry), NEW k, Len(k) = Len(j),
         \A i \in DOMAIN j : k[i].forward = j[i].forward
  PROVE  Line(k) = Line(j)
<1>1. ASSUME NEW i \in 1..(Len(j) + 1)
      PROVE  StateAfter(k, i - 1) = StateAfter(j, i - 1)
  <2>1. /\ i - 1 \in Nat
        /\ \A n \in 1..(i - 1) : k[n].forward = j[n].forward
    BY JournalIndices
  <2>2. QED
    BY <2>1, StateAfterPrefix
<1>2. QED
  BY <1>1 DEF Line

(* Every call moves along the line, extends it, or leaves it. *)
LEMMA HistoryNext ==
  ASSUME IdsDistinct, IInv, [Next]_vars
  PROVE  [History!Next]_(History!vars)
<1>0. TypeInv
  BY DEF IInv
<1>1. ASSUME disk'.journal = disk.journal, disk'.cursor = disk.cursor
      PROVE  UNCHANGED History!vars
  BY <1>1 DEF History!vars
<1>2. ASSUME UNCHANGED disk PROVE UNCHANGED History!vars
  BY <1>1, <1>2
<1>3. ASSUME NEW f \in Recordings, Edit(f)
      PROVE  History!Next
  BY <1>3, EditDoes DEF History!Next
<1>4. CASE Undo
  <2>1. /\ disk'.journal = disk.journal /\ disk'.cursor = disk.cursor - 1
        /\ disk.cursor \in Nat /\ disk.cursor > 0
    BY <1>0, <1>4, UndoIs, StoreParts
       DEF Undo, CanUndo, Checkpoint, TypeInv, TypeOK, JournalMirrored
  <2>2. disk.cursor + 1 > 1 /\ disk'.cursor + 1 = (disk.cursor + 1) - 1
    BY <2>1
  <2>3. QED
    BY <2>1, <2>2 DEF History!Back, History!Next
<1>5. CASE Redo
  <2>1. /\ disk'.journal = disk.journal /\ disk'.cursor = disk.cursor + 1
        /\ disk.cursor \in Nat /\ disk.cursor < Len(disk.journal)
        /\ disk.journal \in Seq(Entry)
    BY <1>0, <1>5, RedoIs, StoreParts
       DEF Redo, CanRedo, Checkpoint, TypeInv, TypeOK, JournalMirrored
  <2>2. /\ disk.cursor + 1 < Len(Line(disk.journal))
        /\ disk'.cursor + 1 = (disk.cursor + 1) + 1
    BY <2>1, LineIs, JournalIndices
  <2>3. QED
    BY <2>1, <2>2 DEF History!Forward, History!Next, Line
<1>6. CASE NewEmpire
  <2>1. disk'.journal = <<>> /\ disk'.cursor = 0
    BY <1>6 DEF NewEmpire, EmptyStore
  <2>2. Line(disk'.journal) = <<Blank>> /\ disk'.cursor + 1 = 1
    BY <2>1, LineOfNothing
  <2>3. QED
    BY <2>2 DEF History!Restart, History!Next, Line
<1>7. ASSUME NEW f \in Recordings, EditNotSaved(f) \/ EditRejected(f)
      PROVE  UNCHANGED History!vars
  BY <1>0, <1>2, <1>7, RefusedIs
<1>8. CASE EditNothing \/ UndoNotSaved \/ UndoCorrupt \/ RedoNotSaved \/ RedoCorrupt
           \/ NewEmpireNotSaved \/ Crash \/ Open \/ UNCHANGED vars
  BY <1>2, <1>8 DEF EditNothing, UndoNotSaved, UndoCorrupt, RedoNotSaved, RedoCorrupt,
                    NewEmpireNotSaved, Crash, Open, vars
<1>9. ASSUME NEW v \in Pref, SetNextPreferences(v)
      PROVE  UNCHANGED History!vars
  BY <1>1, <1>9, PreferencesInv
<1>10. CASE Damage
  <2>1. Line(disk'.journal) = Line(disk.journal) /\ disk'.cursor = disk.cursor
    BY <1>0, <1>10, DamageIs, SameLine, StoreParts DEF TypeInv, TypeOK
  <2>2. QED
    BY <2>1 DEF History!vars, Line
<1>11. QED
  BY <1>3, <1>4, <1>5, <1>6, <1>7, <1>8, <1>9, <1>10 DEF Next

(* The plan file implements the abstract line of versions: every call is   *)
(* one version more, one back, one forward, a fresh start or nothing at    *)
(* all, whatever fails.                                                    *)
THEOREM PlanFileIsALine ==
  ASSUME IdsDistinct
  PROVE  Spec => DurableHistory
<1>1. IInv /\ [Next]_vars => [History!Next]_(History!vars)
  BY HistoryNext
<1>2. QED
  BY <1>1, HistoryInit, Invariant, PTL DEF Spec, DurableHistory, History!Spec
==============================================================================
