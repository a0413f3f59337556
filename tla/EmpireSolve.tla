----------------------------- MODULE EmpireSolve -----------------------------
(***************************************************************************)
(* The empire pass: every edit, undo and redo solves all factories,        *)
(* upstream first, what one achieves being what its routes bring to the    *)
(* next.  After an edit the pass writes counts, clocks and a clamped       *)
(* target back into the plan, inside the edit's own undo entry.            *)
(*                                                                         *)
(* The plan holds the numbers and the routes in use; the graph of each     *)
(* factory is FactoryFlow's.  view is the derived state the last answer    *)
(* carried: view.wrote says that the pass wrote back.                      *)
(***************************************************************************)
EXTENDS FactoryFlow, TLC, SequencesExt

CONSTANTS
  FactoryOrder,          \* a sequence: the factories in key order
  Route, RouteSrc, RouteDst, RouteCap,
  Built,                 \* imported groups, ports and belts
  Fluid,                 \* in-ports whose item is a fluid
  Generator,             \* generators not wired to a power port
  InitPlan, Rates, Ceilings, Clocks, Counts, Caps,
  Tunable,               \* the groups, ports and belts whose numbers are edited
  MaxEdits

VARIABLES plan, view, past, future, spent

vars == <<plan, view, past, future, spent>>

NoEdit == [kind |-> "none", at |-> "none", value |-> 0]

-----------------------------------------------------------------------------
(* The snapshot of a factory *)

EffCount(p, g) == IF p.dcount[g] = None THEN p.count[g] ELSE p.dcount[g]
EffClock(p, g) == IF p.dclock[g] = None THEN p.clock[g] ELSE p.dclock[g]

Bound(p, port) == \E r \in p.routes : RouteDst[r] = port

\* What a port may take: its ceiling, a fluid nothing brings being 0.
BaseCeil(p, port) ==
  IF p.ceil[port] = None /\ ~Bound(p, port) /\ port \notin Built /\ port \in Fluid
  THEN 0 ELSE p.ceil[port]

\* The same with what a route supplies; "None" until its source is solved.
SuppliedCeil(p, supply, port) ==
  LET base == BaseCeil(p, port) IN
  IF ~Bound(p, port) THEN base
  ELSE IF supply[port] # None
       THEN IF base = None THEN supply[port] ELSE Min({base, supply[port]})
  ELSE IF base = None /\ port \notin Built /\ port \in Fluid THEN 0
  ELSE base

Snapshot(p, ceil) ==
  [cap      |-> p.cap,
   rate     |-> p.rate,
   ceil     |-> ceil,
   count    |-> [g \in Group |-> EffCount(p, g)],
   clock    |-> [g \in Group |-> EffClock(p, g)],
   authored |-> [g \in Group |-> IF p.dclock[g] = None THEN p.authored[g] ELSE p.dclock[g]],
   driven   |-> [g \in Group |-> IF g \in Generator
                                 THEN (EffCount(p, g) * EffClock(p, g)) \div Half ELSE None]]

\* A factory with one output is always solved towards it.
TriggerFor(p, f, edit) ==
  CASE edit.kind = "target" /\ edit.at \in Of(f, OutPort) -> edit
    [] edit.kind = "clock" /\ edit.at \in Of(f, Group)    -> edit
    [] OTHER -> IF Cardinality(Of(f, OutPort)) = 1
                THEN LET o == CHOOSE o \in Of(f, OutPort) : TRUE
                     IN  [kind |-> "target", at |-> o, value |-> p.rate[o]]
                ELSE NoEdit

-----------------------------------------------------------------------------
(* The pass *)

Upstream(p, f) == {Site[RouteSrc[r]] : r \in {q \in p.routes : Site[RouteDst[q]] = f}}

\* Mutant: key order, whatever the routes say.
KeyOrder(p) == [order |-> FactoryOrder, cyclic |-> FALSE]

\* Sweeps over the factories in key order, placing those whose sources are
\* placed; what a cycle leaves over comes last, in key order.
EmpireOrder(p) ==
  LET Sweep(order, k) ==
        FoldLeft(LAMBDA o, f : IF f \notin ToSet(o) /\ Upstream(p, f) \subseteq ToSet(o)
                               THEN Append(o, f) ELSE o, order, FactoryOrder)
      placed == FoldLeft(Sweep, <<>>, FactoryOrder)
      Left(f) == f \notin ToSet(placed)
  IN  [order |-> placed \o SelectSeq(FactoryOrder, Left), cyclic |-> Len(placed) < Len(FactoryOrder)]

\* What a solved factory's routes bring, at most what each can carry.
FeedDownstream(p, f, got, supply) ==
  [port \in InPort |->
     IF \E r \in p.routes : RouteDst[r] = port /\ Site[RouteSrc[r]] = f
     THEN LET r == CHOOSE r \in p.routes : RouteDst[r] = port
          IN  Min({got[RouteSrc[r]], RouteCap[r]})
     ELSE supply[port]]

\* Mutant: imported groups are resized too.
ResizableAll(s, f) == {g \in Of(f, Group) : s.driven[g] = None}

\* The groups a solve may resize.
Resizable(s, f) == {g \in Of(f, Group) : g \notin Built /\ s.driven[g] = None}

\* Sizes go back only from a solve without shortfall, and only for groups that
\* run; the edited target is lowered to what its factory achieved.
WriteBack(p, s, f, o, edit, trigger) ==
  LET size == [g \in Of(f, Group) |-> Sized(s, g, o.run[g], trigger)]
      met  == \A q \in Of(f, OutPort) : o.missing[q] = 0
      New(g) == met /\ g \in Resizable(s, f) /\ size[g].clock > 0
  IN  [p EXCEPT
        !.count = [g \in Group |-> IF g \in Of(f, Group) /\ New(g) THEN size[g].count ELSE @[g]],
        !.clock = [g \in Group |-> IF g \in Of(f, Group) /\ New(g) THEN size[g].clock ELSE @[g]],
        !.rate  = [q \in OutPort |->
                     IF o.clamped /\ edit.kind = "target" /\ edit.at = q /\ Site[q] = f
                     THEN o.got[q] ELSE @[q]]]

SolveNext(acc, f, edit, write) ==
  LET s == Snapshot(acc.plan, [port \in InPort |-> SuppliedCeil(acc.plan, acc.supply, port)])
      t == TriggerFor(acc.plan, f, edit)
  IN  {[plan   |-> IF write THEN WriteBack(acc.plan, s, f, o, edit, t) ELSE acc.plan,
        supply |-> FeedDownstream(acc.plan, f, o.got, acc.supply),
        solved |-> acc.solved @@ (f :> o)] : o \in Solve(s, f, t)}

\* The target a factory was solved towards, in the units of its own output.
Requested(p, f, edit) ==
  IF edit.kind = "target" /\ edit.at \in Of(f, OutPort) THEN edit.value
  ELSE IF Cardinality(Of(f, OutPort)) = 1
       THEN p.rate[CHOOSE o \in Of(f, OutPort) : TRUE] ELSE 0

\* Mutant: a port at its limit gets a row, whatever was asked of the factory.
DeficitsUnasked(acc, edit) ==
  {r \in acc.plan.routes : acc.solved[Site[RouteDst[r]]].bound = [kind |-> "port", at |-> RouteDst[r]]}

\* The routes that get a deficit row: the port they feed limits its factory.
Deficits(acc, edit) ==
  {r \in acc.plan.routes :
     LET port == RouteDst[r]
         f == Site[port]
         o == acc.solved[f]
         here == [kind |-> "port", at |-> port]
     IN  \/ o.bound = here /\ Requested(acc.plan, f, edit) > o.top
         \/ \E q \in Of(f, OutPort) : o.blame[q] = here}

Answer(acc, edit, cyclic, write) ==
  LET Joined(Field(_)) ==
        FoldFunction(LAMBDA a, b : a @@ b, <<>>, [f \in Factory |-> Field(acc.solved[f])])
  IN  [got     |-> Joined(LAMBDA o : o.got),
       intake  |-> Joined(LAMBDA o : o.intake),
       run     |-> Joined(LAMBDA o : o.run),
       supply  |-> acc.supply,
       deficit |-> Deficits(acc, edit),
       cyclic  |-> cyclic, wrote |-> write, asked |-> edit]

\* The manifests of the routes in use record what they carry.
Manifests(p, answer) ==
  [p EXCEPT !.carried = [r \in Route |-> IF r \in p.routes THEN answer.intake[RouteDst[r]] ELSE 0]]

\* Every outcome of a pass over plan p: the plan it leaves and its answer.
EmpireSolve(p, edit, write) ==
  LET seq == EmpireOrder(p)
      start == {[plan |-> p, supply |-> [port \in InPort |-> None], solved |-> <<>>]}
      Go(accs, f) == UNION {SolveNext(a, f, edit, write) : a \in accs}
      Out(a, answer) == [plan |-> IF write THEN Manifests(a.plan, answer) ELSE a.plan, view |-> answer]
  IN  {Out(a, Answer(a, edit, seq.cyclic, write)) : a \in FoldLeft(Go, start, seq.order)}

-----------------------------------------------------------------------------
(* The session *)

Init ==
  /\ plan = InitPlan
  /\ \E e \in EmpireSolve(InitPlan, NoEdit, FALSE) : view = e.view
  /\ past = <<>> /\ future = <<>> /\ spent = 0

\* An edit that leaves p, with the pass and its write-backs in one entry.
Commit(p, edit) ==
  /\ spent < MaxEdits /\ spent' = spent + 1
  /\ \E e \in EmpireSolve(p, edit, TRUE) : plan' = e.plan /\ view' = e.view
  /\ past' = Append(past, plan) /\ future' = <<>>

SetPortRate(o, r) ==
  Commit([plan EXCEPT !.rate[o] = r], [kind |-> "target", at |-> o, value |-> r])

SetPortCeiling(i, c) ==
  Commit([plan EXCEPT !.ceil[i] = c], NoEdit)

SetEdgeTier(b, c) ==
  /\ b \notin Built
  /\ Commit([plan EXCEPT !.cap[b] = c], NoEdit)

SetGroupCount(g, n) ==
  Commit(IF g \in Built THEN [plan EXCEPT !.dcount[g] = IF n = plan.count[g] THEN None ELSE n]
         ELSE [plan EXCEPT !.count[g] = n], NoEdit)

SetGroupClock(g, c) ==
  Commit(IF g \in Built THEN [plan EXCEPT !.dclock[g] = IF c = plan.clock[g] THEN None ELSE c]
         ELSE [plan EXCEPT !.clock[g] = c, !.authored[g] = c],
         [kind |-> "clock", at |-> g, value |-> c])

\* A port takes one route at a time.
AddRoute(r) ==
  /\ \A q \in plan.routes : RouteSrc[q] # RouteSrc[r] /\ RouteDst[q] # RouteDst[r]
  /\ Commit([plan EXCEPT !.routes = @ \cup {r}], NoEdit)

DeleteRoute(r) ==
  /\ r \in plan.routes
  /\ Commit([plan EXCEPT !.routes = @ \ {r}], NoEdit)

Navigate(p) ==
  /\ plan' = p
  /\ \E e \in EmpireSolve(p, NoEdit, FALSE) : view' = e.view
  /\ UNCHANGED spent

Undo ==
  /\ past # <<>>
  /\ past' = Front(past) /\ future' = <<plan>> \o future
  /\ Navigate(Last(past))

Redo ==
  /\ future # <<>>
  /\ past' = Append(past, plan) /\ future' = Tail(future)
  /\ Navigate(future[1])

Next ==
  \/ \E o \in OutPort \cap Tunable, r \in Rates : SetPortRate(o, r)
  \/ \E i \in InPort \cap Tunable, c \in Ceilings : SetPortCeiling(i, c)
  \/ \E b \in Belt \cap Tunable, c \in Caps : SetEdgeTier(b, c)
  \/ \E g \in Group \cap Tunable, n \in Counts : SetGroupCount(g, n)
  \/ \E g \in Group \cap Tunable, c \in Clocks : SetGroupClock(g, c)
  \/ \E r \in Route : AddRoute(r) \/ DeleteRoute(r)
  \/ Undo \/ Redo

Spec == Init /\ [][Next]_vars

-----------------------------------------------------------------------------
(* What the numbers promise *)

Met(f)  == \A o \in Of(f, OutPort) : view.got[o] = plan.rate[o]
Load(g) == view.run[g] * Half

\* After an edit, a factory that meets its targets has the machines for it: no
\* planned group has one too few or one too many for what it runs, whatever
\* dips of supply its earlier solves were written under, and a clock the user
\* set is still his.  (session.rs, the write-backs; model.rs: an authored over-
\* or underclock survives every re-solve.)
SizingFits ==
  \A g \in Group \ (Built \cup Generator) :
    /\ plan.authored[g] # None => plan.clock[g] = plan.authored[g]
    /\ (view.wrote /\ Met(Site[g]) /\ view.run[g] > 0) =>
         /\ plan.count[g] * plan.clock[g] >= Load(g)
         /\ (plan.count[g] - 1) * plan.clock[g] < Load(g)

\* What the user or the game says of the plan: never the solver's to change.
Authored(p) ==
  [o \in OutPort |-> p.rate[o]] @@ [i \in InPort |-> p.ceil[i]] @@ [b \in Belt |-> p.cap[b]]
  @@ [g \in Group |-> <<p.authored[g], p.dcount[g], p.dclock[g],
                        IF g \in Built \cup Generator THEN <<p.count[g], p.clock[g]>> ELSE <<>>>>]
  @@ [r \in Route |-> r \in p.routes]

\* One edit changes one number of the user's: a dip upstream never lowers a
\* target downstream, and no solve touches an imported group, a generator's
\* placement, a ceiling, a belt or a route.  (session.rs, the write-back guards.)
UserNumbersStand ==
  [][spent' > spent =>
       LET a == Authored(plan)
           b == Authored(plan')
       IN  Cardinality({k \in DOMAIN a : a[k] # b[k]}) <= 1]_vars

\* A factory never takes more through a route than its source achieved in the
\* same answer and the route carries; in a cycle of routes this holds of fluids
\* without a ceiling, which are never assumed free.  (session.rs, empire_order,
\* feed_downstream and the ceilings of bound ports.)
SupplyHeld ==
  \A r \in plan.routes :
    LET port == RouteDst[r] IN
    (~view.cyclic \/ (port \in Fluid \ Built /\ plan.ceil[port] = None)) =>
      view.intake[port] <= Min({view.got[RouteSrc[r]], RouteCap[r]})

\* A factory fell short of its targets, or of the one the edit asked for.
Short(f) == ~Met(f) \/ (view.asked.kind = "target" /\ view.asked.at \in Of(f, OutPort)
                          /\ view.got[view.asked.at] < view.asked.value)

\* What a port was let in under the plan and the supply of this answer.
Lets(port) == SuppliedCeil(plan, view.supply, port)

\* A deficit row stands only at a factory that fell short, for a port that is
\* drained to its supply or ceiling (where routes form a cycle the supply may
\* have come after the solve); and a factory with one chain of machines
\* that fell short for want of what a route brings has its row.  (session.rs,
\* the deficit contract: one decision after all factories are solved.)
DeficitsReal ==
  /\ \A r \in view.deficit :
       /\ Short(Site[RouteDst[r]])
       /\ view.cyclic \/ view.intake[RouteDst[r]] = Lets(RouteDst[r])
  /\ \A r \in plan.routes :
       LET f == Site[RouteDst[r]]
           s == Snapshot(plan, [port \in InPort |-> Lets(port)])
           more == [s EXCEPT !.ceil[RouteDst[r]] = None]
       IN  (/\ Cardinality(Of(f, Group)) = 1 /\ ~Met(f)
            /\ \E x \in Settle(more, f) : x.intake[RouteDst[r]] > view.intake[RouteDst[r]])
             => r \in view.deficit

\* Supply, intake and deficits of one answer agree, though the factories were
\* solved one after the other and some of them again.
AnswerCoheres == SupplyHeld /\ DeficitsReal

\* Not kept by the code (see the README).  session.rs: a route is in deficit iff
\* the downstream solve was limited by its port; one whose targets take no more
\* than is supplied is not.
NoPhantomDeficit ==
  \A r \in view.deficit :
    LET f == Site[RouteDst[r]]
        s == Snapshot(plan, [port \in InPort |-> BaseCeil(plan, port)])
    IN  ~Met(f) => \E x \in Settle([s EXCEPT !.ceil[RouteDst[r]] = None], f) :
                     x.intake[RouteDst[r]] > Lets(RouteDst[r])

\* What the drag preview lets the slider reach, the settle on release meets: a
\* target under which T0 finds every cap held gives a T1 solve that neither
\* clamps it nor misses any target.  (t0.rs, t1.rs: two algorithms, one graph.)
PreviewHolds ==
  \A f \in Factory :
    (Acyclic(f) /\ Wired(f)) =>
      \A o \in Of(f, OutPort), r \in Rates :
        LET s == [Snapshot(plan, [q \in InPort |-> BaseCeil(plan, q)]) EXCEPT !.rate[o] = r]
        IN  PreviewFits(s, f) =>
              \A e \in Solve(s, f, [kind |-> "target", at |-> o, value |-> r]) :
                ~e.clamped /\ \A q \in Of(f, OutPort) : e.missing[q] = 0
==============================================================================
