----------------------------- MODULE EntityStore -----------------------------
(***************************************************************************)
(* The data every other module shares: the canonical plan as a map from    *)
(* entity paths to values, entity-granular patch batches, the inverse a    *)
(* transaction records for them, and the rows the plan store keeps.        *)
(*                                                                         *)
(* A path is a pair <<collection, id>>.  A value stands for the whole      *)
(* entity at that path (batches replace whole entities, never fields).     *)
(* The definitions say what a batch DOES, op by op in order: the last op   *)
(* that names a path decides it.  No definition is recursive, so that the  *)
(* proof modules can use them.                                             *)
(***************************************************************************)
EXTENDS Integers, Sequences, SequencesExt

CONSTANTS
  Path,       \* the entity paths in play, pairs <<collection, id>>
  Val,        \* entity contents
  Absent,     \* "no entity at this path"
  MetaName,   \* the path /meta/name of the plan's name
  DefaultName \* the name of a plan nobody named

ASSUME StoreAssumption ==
  /\ Absent \notin Val
  /\ MetaName \in Path
  /\ DefaultName \in Val
  /\ "none" \notin {p[1] : p \in Path}

EntityPath == Path \ {MetaName}
Id         == {p[2] : p \in EntityPath}
Coll       == {p[1] : p \in EntityPath}

\* No two entities share an id.  Ids are ULIDs, except that a build override
\* carries the id of the build step it overrides (entities.rs, buildqueue.rs).
IdsDistinct == \A p, q \in EntityPath : p[2] = q[2] => p = q

State == [Path -> Val \cup {Absent}]
Op    == [path : Path, val : Val \cup {Absent}]
Batch == Seq(Op)

\* PlanState::default()
Blank == [p \in Path |-> IF p = MetaName THEN DefaultName ELSE Absent]

------------------------------------------------------------------------------
(* Batches *)

Writes(b, p) == \E i \in DOMAIN b : b[i].path = p

LastWrite(b, p) ==
  CHOOSE i \in DOMAIN b :
    /\ b[i].path = p
    /\ \A j \in DOMAIN b : b[j].path = p => j <= i

\* PlanState::apply_batch on ops that all decode.
ApplyBatch(s, b) ==
  [p \in Path |-> IF Writes(b, p) THEN b[LastWrite(b, p)].val ELSE s[p]]

\* What the k-th op of f finds at its path, when f runs from s.
Before(s, f, k) == ApplyBatch(s, SubSeq(f, 1, k - 1))[f[k].path]

\* The inverse op that upsert / remove return for the k-th op of f.
InverseOp(s, f, k) == [path |-> f[k].path, val |-> Before(s, f, k)]

\* Faulty variant: the inverse ops keep the order they were recorded in.
InverseInRecordedOrder(s, f) == [k \in DOMAIN f |-> InverseOp(s, f, k)]

\* Transaction::record pushes both directions in step; UndoLog::stage and every
\* rollback reverse the inverse list, so the newest op is undone first.
InverseBatch(s, f) == Reverse([k \in DOMAIN f |-> InverseOp(s, f, k)])

\* The batches a transaction can record from s: remove records nothing for an
\* absent entity, and the plan's name is only ever replaced.
Recordable(s, f) ==
  \A k \in DOMAIN f :
    f[k].val = Absent => /\ f[k].path # MetaName
                         /\ Before(s, f, k) # Absent

------------------------------------------------------------------------------
(* Rows: one per entity, keyed by the bare id (entities.id is the primary   *)
(* key of the SQLite table and the key of the in-memory map).               *)

NoRow == [coll |-> "none", val |-> Absent]
Row   == [coll : Coll \cup {"none"}, val : Val \cup {Absent}]
Rows  == [Id -> Row]

NoRows == [id \in Id |-> NoRow]

\* Ops on /meta/... touch no row.
Touches(op, id) == op.path # MetaName /\ op.path[2] = id

LastTouch(b, id) ==
  CHOOSE i \in DOMAIN b :
    /\ Touches(b[i], id)
    /\ \A j \in DOMAIN b : Touches(b[j], id) => j <= i

RowOf(op) ==
  IF op.val = Absent THEN NoRow ELSE [coll |-> op.path[1], val |-> op.val]

ApplyRows(r, b) ==
  [id \in Id |->
     IF \E i \in DOMAIN b : Touches(b[i], id)
       THEN RowOf(b[LastTouch(b, id)])
       ELSE r[id]]

\* The plan a load rebuilds from the rows and the saved name.
LoadState(r, name) ==
  [p \in Path |->
     IF p = MetaName THEN name
     ELSE IF r[p[2]].coll = p[1] THEN r[p[2]].val
     ELSE Absent]

------------------------------------------------------------------------------
(* Journal entries *)

\* damaged: one op of the stored batches no longer decodes (it sits last).
Entry == [forward : Batch, inverse : Batch, damaged : BOOLEAN]

\* UndoLog::stage, for a transaction that recorded f from s.
Stage(s, f) == [forward |-> f, inverse |-> InverseBatch(s, f), damaged |-> FALSE]

\* The plan after the first n entries of journal j, read off the newest entry
\* that names each path.
Writers(j, n, p) == {i \in 1..n : Writes(j[i].forward, p)}

Newest(S) == CHOOSE i \in S : \A k \in S : k <= i

StateAfter(j, n) ==
  [p \in Path |->
     IF Writers(j, n, p) = {}
       THEN Blank[p]
       ELSE LET b == j[Newest(Writers(j, n, p))].forward
            IN  b[LastWrite(b, p)].val]
==============================================================================
