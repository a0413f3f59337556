----------------------------- MODULE DriftReview -----------------------------
(***************************************************************************)
(* Save import and drift review.  The first import writes the built (◆)    *)
(* layer; a later one only compares the save with it and drafts a review   *)
(* proposal, one item for each difference.  The user drops items, picks    *)
(* sides where an edit of his collides with the save, and accepts; undo    *)
(* and redo walk over all of it, but not over the record of the newest     *)
(* import, which lives outside the journal and is written best-effort.     *)
(*                                                                         *)
(* A plan here is the machine groups of its built factories and the drift  *)
(* proposals.  Two factories never match one site, and a save is given     *)
(* clustered by site.  Belts, ports and node claims of a built factory are *)
(* not modelled, nor are proposals of other sources.                       *)
(***************************************************************************)
EXTENDS Integers, Sequences, SequencesExt, FiniteSetsExt, Functions

CONSTANTS
  Site,         \* places a factory can stand, further apart than REMATCH_M
  Machine,      \* machine classes
  Generator,    \* the classes that burn fuel
  Recipe,       \* recipes as naturals, in the order of their names
  Saves,        \* the saves that can be imported, see Save
  EditCounts,   \* counts the user sets
  EditClocks,   \* clocks the user sets, in percent
  MaxVersions,  \* bound: plan versions in the journal
  MaxDiffs,     \* bound: drift proposals drafted
  MaxPlanned,   \* bound: planned groups in one built factory
  MaxLost       \* bound: lost writes of the last-import record

Unfueled == 0   \* the empty recipe of a generator that holds no fuel
Unedited == 0   \* no planned value for a count or a clock
MinClock == 1
MaxClock == 250

NoRecord == -1  \* last import: nothing written yet
NoDiff   == 0   \* last import: it drafted no proposal

\* One group of a save: machines of one class on one recipe, mean clock.
SaveGroup == [machine : Machine, recipe : Recipe, count : Nat \ {0}, clock : Nat]

Key(g) == <<g.machine, g.recipe>>

\* For each site the groups there, one for each key, in the order of their
\* keys; none if the save has no machine there.
Save ==
  {save \in [Site -> Seq(SaveGroup)] :
     \A s \in Site : \A i, j \in DOMAIN save[s] :
       Key(save[s][i]) = Key(save[s][j]) => i = j}

ASSUME DriftAssumption ==
  /\ IsFiniteSet(Site)
  /\ Machine # {} /\ Generator \subseteq Machine
  /\ Recipe \subseteq Nat /\ Unfueled \in Recipe
  /\ \A s \in Saves : s \in Save
  /\ EditCounts \subseteq Nat \ {Unedited}
  /\ EditClocks \subseteq MinClock..MaxClock
  /\ MaxDiffs \in Nat /\ MaxLost \in Nat

VARIABLES
  hist,    \* the plan versions of the journal
  pos,     \* the current version
  drafted, \* drift proposals drafted so far, their ids are 1..drafted
  last,    \* the last-import record: the proposal it names
  newest,  \* the newest import: its proposal and its save (history variable)
  lost     \* writes of the record that were lost (history variable)

vars == <<hist, pos, drafted, last, newest, lost>>

plan == hist[pos]

------------------------------------------------------------------------------
(* Machine groups *)

\* count, clock: the baseline from the game; mine*: the user's planned delta.
Group == [id : Nat, machine : Machine, recipe : Recipe,
          count : Nat, clock : MinClock..MaxClock,
          mineCount : Nat, mineClock : Nat, planned : BOOLEAN]

Keys(gs) == {Key(g) : g \in Range(gs)}

At(gs, k) == {i \in DOMAIN gs : Key(gs[i]) = k}

Clamp(clock) == Max({MinClock, Min({clock, MaxClock})})

\* The diff looks groups up in a map, which keeps the last one of a key.
Listed(gs, k) == gs[Max(At(gs, k))]

NextId(gs) == 1 + Max({g.id : g \in Range(gs)} \cup {0})

BuiltGroup(sg, id) ==
  [id |-> id, machine |-> sg.machine, recipe |-> sg.recipe,
   count |-> sg.count, clock |-> Clamp(sg.clock),
   mineCount |-> Unedited, mineClock |-> Unedited, planned |-> FALSE]

\* write_built_layer, for one cluster.
Written(c) == [i \in DOMAIN c |-> BuiltGroup(c[i], i)]

Clusters(save) == {s \in Site : save[s] # <<>>}

WriteBuiltLayer(save) == [s \in Clusters(save) |-> Written(save[s])]

EffectiveCount(g) == IF g.mineCount = Unedited THEN g.count ELSE g.mineCount
EffectiveClock(g) == IF g.mineClock = Unedited THEN g.clock ELSE g.mineClock

------------------------------------------------------------------------------
(* The diff *)

Op == [do : {"update", "retune", "create", "remove"}, site : Site,
       machine : Machine, recipe : Recipe, to : Recipe,
       count : Nat, clock : Nat, cluster : Seq(SaveGroup)]

Sides == {"mine", "theirs", "undecided"}

\* side: "no conflict", or where the user stands in a conflict.
Item == [op : Op, included : BOOLEAN, side : Sides \cup {"no conflict"}]

\* Operations on a whole factory carry a group's fields unused.
FactoryOp(do, s, c) ==
  [do |-> do, site |-> s, machine |-> CHOOSE m \in Machine : TRUE,
   recipe |-> Unfueled, to |-> Unfueled, count |-> 0, clock |-> 0, cluster |-> c]

GroupOp(do, s, m, from, to, count, clock) ==
  [do |-> do, site |-> s, machine |-> m, recipe |-> from, to |-> to,
   count |-> count, clock |-> clock, cluster |-> <<>>]

UpdateOp(s, sg) ==
  GroupOp("update", s, sg.machine, sg.recipe, sg.recipe, sg.count, sg.clock)

Drift(op)    == [op |-> op, included |-> TRUE, side |-> "no conflict"]
Conflict(op) == [op |-> op, included |-> TRUE, side |-> "undecided"]

\* Faulty variant: the save's clock is compared as it stands in the save.
DriftedUnclamped(g, sg) == g.count # sg.count \/ g.clock # sg.clock

Drifted(g, sg) == g.count # sg.count \/ g.clock # Clamp(sg.clock)

\* The save moved a component that the user set to another value.
Collides(g, sg) ==
  \/ /\ g.count # sg.count
     /\ g.mineCount \notin {Unedited, sg.count}
  \/ /\ g.clock # Clamp(sg.clock)
     /\ g.mineClock \notin {Unedited, Clamp(sg.clock)}

Reviewed(g, sg, op) == IF Collides(g, sg) THEN Conflict(op) ELSE Drift(op)

\* Save generators of a class whose fuel no group has, and the fuels of the
\* groups left for them.
Refueled(gs, c, m) ==
  {i \in DOMAIN c : m \in Generator /\ c[i].machine = m /\ Key(c[i]) \notin Keys(gs)}

Spare(gs, c, m) == {r \in Recipe : <<m, r>> \in Keys(gs) \ Keys(c)}

\* The n-th such generator takes the n-th fuel, if there are as many.
Below(S, x) == {y \in S : y < x}

Taken(gs, c, i) ==
  LET m == c[i].machine
  IN  {r \in Spare(gs, c, m) :
         Cardinality(Below(Spare(gs, c, m), r)) = Cardinality(Below(Refueled(gs, c, m), i))}

\* An existing key, a generator's refuelling, or machines added in game.
KeyItems(s, gs, sg) ==
  IF Key(sg) \notin Keys(gs) THEN <<Drift(UpdateOp(s, sg))>>
  ELSE LET g == Listed(gs, Key(sg))
       IN  IF Drifted(g, sg) THEN <<Reviewed(g, sg, UpdateOp(s, sg))>> ELSE <<>>

RefuelItems(s, gs, c, i) ==
  LET sg == c[i]
      m  == sg.machine
  IN  IF Taken(gs, c, i) = {} THEN <<Drift(UpdateOp(s, sg))>>
      ELSE LET old == CHOOSE r \in Taken(gs, c, i) : TRUE
               new == IF sg.recipe = Unfueled THEN old ELSE sg.recipe
               g   == Listed(gs, <<m, old>>)
               op  == GroupOp("retune", s, m, old, new, sg.count, sg.clock)
           IN  IF new # old \/ Drifted(g, sg) THEN <<Reviewed(g, sg, op)>> ELSE <<>>

\* Keys of the factory that nothing in the save accounts for.
Demolished(gs, c) ==
  {k \in Keys(gs) \ Keys(c) : \A i \in Refueled(gs, c, k[1]) : k[2] \notin Taken(gs, c, i)}

DemolishedItem(s, gs, k) ==
  Drift(GroupOp("update", s, k[1], k[2], k[2], 0, Listed(gs, k).clock))

FactoryItems(s, gs, c) ==
  LET burns(i) == i \in Refueled(gs, c, c[i].machine)
      gone     == SetToSeq(Demolished(gs, c))
  IN  FlattenSeq([i \in DOMAIN c |-> IF burns(i) THEN <<>> ELSE KeyItems(s, gs, c[i])])
      \o FlattenSeq([i \in DOMAIN c |-> IF burns(i) THEN RefuelItems(s, gs, c, i) ELSE <<>>])
      \o [i \in DOMAIN gone |-> DemolishedItem(s, gs, gone[i])]

SiteItems(b, save, s) ==
  CASE s \in DOMAIN b /\ save[s] # <<>> -> FactoryItems(s, b[s], save[s])
    [] s \in DOMAIN b /\ save[s] = <<>> -> <<Drift(FactoryOp("remove", s, <<>>))>>
    [] s \notin DOMAIN b /\ save[s] # <<>> -> <<Drift(FactoryOp("create", s, save[s]))>>
    [] OTHER -> <<>>

\* diff_against_built
Diff(b, save) ==
  LET sites == SetToSeq(Site)
  IN  FlattenSeq([i \in DOMAIN sites |-> SiteItems(b, save, sites[i])])

------------------------------------------------------------------------------
(* Accepting an item *)

\* A planned value the game has caught up to dissolves.
Dissolved(g) ==
  [g EXCEPT !.mineCount = IF @ = g.count THEN Unedited ELSE @,
            !.mineClock = IF @ = g.clock THEN Unedited ELSE @]

\* Faulty variant: the sync drops the planned delta whichever side was taken.
SyncedDropping(g, op, takeSave) ==
  [g EXCEPT !.recipe = op.to, !.count = op.count, !.clock = Clamp(op.clock),
            !.mineCount = Unedited, !.mineClock = Unedited]

Synced(g, op, takeSave) ==
  LET at == [g EXCEPT !.recipe = op.to, !.count = op.count, !.clock = Clamp(op.clock)]
  IN  IF takeSave
        THEN [at EXCEPT !.mineCount = Unedited, !.mineClock = Unedited]
        ELSE Dissolved(at)

\* apply_sync on one factory takes the FIRST group of the key.
SyncGroups(gs, op, takeSave) ==
  LET at  == At(gs, <<op.machine, op.recipe>>)
      new == [machine |-> op.machine, recipe |-> op.recipe,
              count |-> op.count, clock |-> op.clock]
  IN  CASE at # {} /\ (op.do = "retune" \/ op.count > 0) ->
             [gs EXCEPT ![Min(at)] = Synced(@, op, takeSave)]
        [] at # {} /\ op.do = "update" /\ op.count = 0 -> RemoveAt(gs, Min(at))
        [] at = {} /\ op.do = "update" /\ op.count > 0 ->
             Append(gs, BuiltGroup(new, NextId(gs)))
        [] OTHER -> gs

ApplySync(b, op, takeSave) ==
  CASE op.do = "create" ->
         [s \in DOMAIN b \cup {op.site} |-> IF s = op.site THEN Written(op.cluster) ELSE b[s]]
    [] op.do = "remove" -> Restrict(b, DOMAIN b \ {op.site})
    [] OTHER -> IF op.site \notin DOMAIN b THEN b
                ELSE [b EXCEPT ![op.site] = SyncGroups(@, op, takeSave)]

\* The included items, one after the other.
ApplyIncluded(b, p) ==
  LET after[i \in 0..Len(p.items)] ==
        IF i = 0 THEN b
        ELSE IF p.items[i].included
        THEN ApplySync(after[i - 1], p.items[i].op, p.items[i].side = "theirs")
        ELSE after[i - 1]
  IN  after[Len(p.items)]

------------------------------------------------------------------------------
(* Proposals *)

\* save, mixed: the save it was drafted from, and whether a built factory
\* held a planned group then (history fields).
Proposal == [items : Seq(Item), status : {"open", "accepted", "rejected"},
             save : Saves, mixed : BOOLEAN]

IsPlan(pl) ==
  /\ DOMAIN pl.built \subseteq Site
  /\ \A s \in DOMAIN pl.built : pl.built[s] \in Seq(Group)
  /\ DOMAIN pl.diffs \subseteq 1..drafted
  /\ \A p \in DOMAIN pl.diffs : pl.diffs[p] \in Proposal

TypeOK ==
  /\ \A v \in DOMAIN hist : IsPlan(hist[v])
  /\ pos \in DOMAIN hist
  /\ drafted \in 0..MaxDiffs
  /\ last \in {NoRecord, NoDiff} \cup 1..drafted
  /\ newest.diff \in {NoDiff} \cup 1..drafted
  /\ newest.save \in Save
  /\ lost \in 0..MaxLost

Open(pl) == {p \in DOMAIN pl.diffs : pl.diffs[p].status = "open"}

Mixed(b) == \E s \in DOMAIN b : \E g \in Range(b[s]) : g.planned

EmptyPlan == [built |-> << >>, diffs |-> << >>]

Init ==
  /\ hist = <<EmptyPlan>>
  /\ pos = 1
  /\ drafted = 0
  /\ last = NoRecord
  /\ newest = [diff |-> NoDiff, save |-> [s \in Site |-> <<>>]]
  /\ lost = 0

\* One undo entry for a plan with these built factories and proposals.
Commit(built, diffs) ==
  /\ pos < MaxVersions
  /\ hist' = Append(SubSeq(hist, 1, pos), [built |-> built, diffs |-> diffs])
  /\ pos' = pos + 1

\* write_last_import: best-effort, after the import's own commit; the process
\* may also end between the two.
WriteLastImport(p, save) ==
  /\ newest' = [diff |-> p, save |-> save]
  /\ \/ /\ last' = p
        /\ UNCHANGED lost
     \/ /\ lost < MaxLost
        /\ lost' = lost + 1
        /\ UNCHANGED last

ImportFirst(save) ==
  /\ DOMAIN plan.built = {}
  /\ Commit(WriteBuiltLayer(save), plan.diffs)
  /\ WriteLastImport(NoDiff, save)
  /\ UNCHANGED drafted

Drafted(save) ==
  [items |-> Diff(plan.built, save), status |-> "open",
   save |-> save, mixed |-> Mixed(plan.built)]

\* Faulty variant: older open drift proposals stay open.
AddedOnly(diffs, n, new) ==
  [p \in DOMAIN diffs \cup {n} |-> IF p = n THEN new ELSE diffs[p]]

\* The new proposal, and every open one rejected by the same edit.
Superseding(diffs, n, new) ==
  [p \in DOMAIN diffs \cup {n} |->
     IF p = n THEN new
     ELSE IF diffs[p].status = "open" THEN [diffs[p] EXCEPT !.status = "rejected"]
     ELSE diffs[p]]

ImportDrift(save) ==
  /\ DOMAIN plan.built # {}
  /\ Diff(plan.built, save) # <<>>
  /\ drafted < MaxDiffs
  /\ drafted' = drafted + 1
  /\ Commit(plan.built, Superseding(plan.diffs, drafted + 1, Drafted(save)))
  /\ WriteLastImport(drafted + 1, save)

ImportInSync(save) ==
  /\ DOMAIN plan.built # {}
  /\ Diff(plan.built, save) = <<>>
  /\ WriteLastImport(NoDiff, save)
  /\ UNCHANGED <<hist, pos, drafted>>

------------------------------------------------------------------------------
(* The review *)

Reviewing(p, i, item) ==
  /\ p \in Open(plan)
  /\ i \in DOMAIN plan.diffs[p].items
  /\ Commit(plan.built, [plan.diffs EXCEPT ![p].items[i] = item])
  /\ UNCHANGED <<drafted, last, newest, lost>>

ToggleProposalItem(p, i) ==
  LET it == plan.diffs[p].items[i]
  IN  Reviewing(p, i, [it EXCEPT !.included = ~@])

SetProposalItemChoice(p, i, side) ==
  LET it == plan.diffs[p].items[i]
  IN  /\ it.side # "no conflict"
      /\ Reviewing(p, i, [it EXCEPT !.side = side])

\* The review surface only ever sends "rejected", for an open proposal.
RejectProposal(p) ==
  /\ p \in Open(plan)
  /\ Commit(plan.built, [plan.diffs EXCEPT ![p].status = "rejected"])
  /\ UNCHANGED <<drafted, last, newest, lost>>

Decided(p) ==
  \A i \in DOMAIN plan.diffs[p].items :
    plan.diffs[p].items[i].included => plan.diffs[p].items[i].side # "undecided"

\* Faulty variant: any open drift proposal can be accepted.
AcceptUngated(p) ==
  /\ p \in Open(plan)
  /\ Decided(p)
  /\ Commit(ApplyIncluded(plan.built, plan.diffs[p]),
            [plan.diffs EXCEPT ![p].status = "accepted"])
  /\ UNCHANGED <<drafted, last, newest, lost>>

AcceptProposal(p) ==
  /\ p \in Open(plan)
  /\ last # NoRecord => last = p
  /\ Decided(p)
  /\ Commit(ApplyIncluded(plan.built, plan.diffs[p]),
            [plan.diffs EXCEPT ![p].status = "accepted"])
  /\ UNCHANGED <<drafted, last, newest, lost>>

------------------------------------------------------------------------------
(* What the user does to a built factory *)

EditGroups(s, gs) ==
  /\ Commit([plan.built EXCEPT ![s] = gs], plan.diffs)
  /\ UNCHANGED <<drafted, last, newest, lost>>

\* Faulty variant: the built value itself is edited.
CountSetInPlace(g, n) == [g EXCEPT !.count = n]

\* On a built group an edit is a planned delta; the built value clears it.
CountSet(g, n) ==
  IF g.planned THEN [g EXCEPT !.count = n]
  ELSE [g EXCEPT !.mineCount = IF n = g.count THEN Unedited ELSE n]

ClockSet(g, c) ==
  IF g.planned THEN [g EXCEPT !.clock = c]
  ELSE [g EXCEPT !.mineClock = IF c = g.clock THEN Unedited ELSE c]

SetGroupCount(s, i, n) ==
  EditGroups(s, [plan.built[s] EXCEPT ![i] = CountSet(@, n)])

SetGroupClock(s, i, c) ==
  EditGroups(s, [plan.built[s] EXCEPT ![i] = ClockSet(@, c)])

AddGroup(s, m, r, n) ==
  LET gs == plan.built[s]
      new == [BuiltGroup([machine |-> m, recipe |-> r, count |-> n, clock |-> 100],
                         NextId(gs)) EXCEPT !.planned = TRUE]
  IN  /\ Len(SelectSeq(gs, LAMBDA g : g.planned)) < MaxPlanned
      /\ EditGroups(s, Append(gs, new))

DeleteGroup(s, i) ==
  /\ plan.built[s][i].planned
  /\ EditGroups(s, RemoveAt(plan.built[s], i))

Undo ==
  /\ pos > 1
  /\ pos' = pos - 1
  /\ UNCHANGED <<hist, drafted, last, newest, lost>>

Redo ==
  /\ pos < Len(hist)
  /\ pos' = pos + 1
  /\ UNCHANGED <<hist, drafted, last, newest, lost>>

Next ==
  \/ \E save \in Saves :
       \/ ImportFirst(save)
       \/ ImportDrift(save)
       \/ ImportInSync(save)
  \/ \E p \in Open(plan) :
       \/ AcceptProposal(p)
       \/ RejectProposal(p)
       \/ \E i \in DOMAIN plan.diffs[p].items :
            \/ ToggleProposalItem(p, i)
            \/ \E side \in Sides : SetProposalItemChoice(p, i, side)
  \/ \E s \in DOMAIN plan.built :
       \/ \E i \in DOMAIN plan.built[s] :
            \/ \E n \in EditCounts : SetGroupCount(s, i, n)
            \/ \E c \in EditClocks : SetGroupClock(s, i, c)
            \/ DeleteGroup(s, i)
       \/ \E m \in Machine, r \in Recipe, n \in EditCounts : AddGroup(s, m, r, n)
  \/ Undo
  \/ Redo

Spec == Init /\ [][Next]_vars

------------------------------------------------------------------------------
(* Properties *)

Ops(items) == {it.op : it \in Range(items)}

\* At most one drift proposal is open, in every version undo can reach: the
\* import that drafts one rejects the others in the same entry.
OneOpenDiff ==
  \A v \in DOMAIN hist : \A p, q \in Open(hist[v]) : p = q

\* An open drift proposal still says what a fresh diff of its save against
\* the built layer would say, whatever the user has edited, undone or redone
\* since: baselines move with accepted diffs only.  (A planned group inside a
\* built factory is taken for a built one by the diff; see PlannedWorkSurvives.)
OpenDiffStillFits ==
  \A p \in Open(plan) :
    LET d == plan.diffs[p]
    IN  ~d.mixed /\ ~Mixed(plan.built) =>
          Ops(Diff(plan.built, d.save)) = Ops(d.items)

\* The step takes proposal p from open to accepted.
Accepts(p) ==
  /\ p \in Open(plan)
  /\ p \in DOMAIN plan'.diffs
  /\ plan'.diffs[p].status = "accepted"

\* Accepting part of a diff leaves exactly the rest of it: importing the same
\* save again finds the items that were not included, and is in sync if all
\* were (the diff's own claim of an accepted item, import.rs).
RestLeft(old, new, d) ==
  ~d.mixed /\ ~Mixed(old) =>
    Ops(Diff(new, d.save)) = {it.op : it \in {x \in Range(d.items) : ~x.included}}

AcceptLeavesTheRest ==
  [][\A p \in 1..MaxDiffs :
       Accepts(p) => RestLeft(plan.built, plan'.built, plan.diffs[p])]_vars

\* A value the user planned for a built group is still what the group is
\* planned to be after a diff is accepted, unless the user took the save's side
\* there or the machines are gone from the game.
Yielded(d, s, g) ==
  \E it \in Range(d.items) :
    /\ it.included
    /\ it.op.site = s
    /\ \/ it.op.do = "remove"
       \/ /\ <<it.op.machine, it.op.recipe>> = Key(g)
          /\ it.side = "theirs" \/ it.op.count = 0

Carries(h, g) ==
  /\ h.id = g.id
  /\ g.mineCount # Unedited => EffectiveCount(h) = g.mineCount
  /\ g.mineClock # Unedited => EffectiveClock(h) = g.mineClock

EditsKept(old, new, d) ==
  \A s \in DOMAIN old : \A g \in Range(old[s]) :
    \/ Yielded(d, s, g)
    \/ /\ s \in DOMAIN new
       /\ \E h \in Range(new[s]) : Carries(h, g)

EditsSurviveAccept ==
  [][\A p \in 1..MaxDiffs :
       Accepts(p) => EditsKept(plan.built, plan'.built, plan.diffs[p])]_vars

\* Only the proposal of the newest import can be accepted, whatever was undone
\* in between, as long as no write of the last-import record was lost.
OnlyNewestDiffAccepted ==
  [][\A p \in 1..MaxDiffs :
       Accepts(p) /\ hist' # hist => newest.diff = p \/ lost > 0]_vars

------------------------------------------------------------------------------
(* Claims of the documents that the code does not keep; the README says how. *)

\* A diff that a newer import of another save made moot never rewrites the
\* built layer (write_last_import's promise), by undo and redo neither.
MootDiffNeverLands ==
  [][\A p \in 1..MaxDiffs :
       Accepts(p) => newest.diff = p \/ newest.save = plan.diffs[p].save]_vars

\* Accepting a drift diff touches the built layer only: the planned groups the
\* user has in a built factory that still stands are there afterwards.
PlannedWorkSurvives ==
  [][\A p \in 1..MaxDiffs : Accepts(p) =>
       \A s \in DOMAIN plan.built \cap DOMAIN plan'.built :
         \A g \in Range(plan.built[s]) :
           g.planned => g \in Range(plan'.built[s])]_vars

==============================================================================
