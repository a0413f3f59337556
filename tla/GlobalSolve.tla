---------------------------- MODULE GlobalSolve ----------------------------
(***************************************************************************)
(* The wizard's solver: from a goal to a proposal for a new site, in four  *)
(* phases.  The demand walk expands items through the recipes a            *)
(* backtracking resolver picks; selection sizes a stage for each; siting   *)
(* claims nodes; routing ties the site to surplus, consumers and power.    *)
(* It works on a copy of the plan and can be cancelled in the first two.   *)
(*                                                                         *)
(* A case is everything the solver reads, a record of                      *)
(*   book      recipes in catalog order: [class, makes, takes, alt, made,  *)
(*             per, mw], makes and takes sequences of <<item, amount>>,    *)
(*             made whether a machine runs it, per its cycles in a minute  *)
(*   resource  items the world provides; nodes [id, item, purity] in order *)
(*   goals     <<item, rate>> in order; pins item -> class; unlocked, alts *)
(*   spare     unbound out ports [port, item, rate, planned] in order      *)
(*   wants     unbound in ports [port, item]; grid a generator's port      *)
(*   claimed, budget, floor  the nodes taken, and what may be taken        *)
(*   replaces  whether the site is to replace a running factory            *)
(* Goals name distinct items.  Distances are left out: nodes of one purity *)
(* are taken in catalog order.                                             *)
(***************************************************************************)
EXTENDS Naturals, Sequences, FiniteSets, SequencesExt, FiniteSetsExt, Functions

CONSTANTS
  Cases,
  ItemOrder,      \* every item, in the order of class names
  Power,          \* POWER_ITEM, one of them
  None,
  ExpansionCap    \* EXPANSION_CAP

ASSUME CapAssumption == ExpansionCap \in Nat \ {0}

VARIABLES case, phase, queue, demand, raw, avail, taken, memo, steps, stages, result

vars == <<case, phase, queue, demand, raw, avail, taken, memo, steps, stages, result>>

Item  == Range(ItemOrder)
InOrder(S) == SelectSeq(ItemOrder, LAMBDA i : i \in S)

-----------------------------------------------------------------------------
(* The catalog *)

Amount(list, i) ==
  LET at == {k \in DOMAIN list : list[k][1] = i}
  IN  IF at = {} THEN 0 ELSE list[Min(at)][2]

Names(list) == {list[k][1] : k \in DOMAIN list}
Recipes(w)  == Range(w.book)
Goal(w)     == Names(w.goals)

Eligible(w, i, r) ==
  /\ r.made /\ i \in Names(r.makes) /\ Power \notin Names(r.makes)
  /\ r.alt => w.alts \/ r.class \in w.unlocked

HasCandidates(w, i) == \E r \in Recipes(w) : Eligible(w, i, r)

\* A recipe in the catalog makes it, other than as a burn's residue.
Craftable(w, i) ==
  \E r \in Recipes(w) : r.made /\ i \in Names(r.makes) /\ r.makes[1][1] # Power

Expands(w, i) == i # Power /\ i \notin w.resource /\ Craftable(w, i)

\* What candidates are ordered by: starved and cyclic ones last, then the
\* slow, the power hungry, the alternates, and the order of the catalog.
Starved(w, r) == \E y \in Names(r.takes) : Expands(w, y) /\ ~HasCandidates(w, y)
Cyclic(w, i, r) ==
  \E y \in Names(r.takes) \ w.resource : \E s \in Recipes(w) :
     s.makes[1][1] = y /\ i \in Names(s.takes)
Bit(b) == IF b THEN 1 ELSE 0
PerMinute(r, i) == Amount(r.makes, i) * r.per
Cost(w, i, r) ==
  <<Bit(Starved(w, r)), Bit(Cyclic(w, i, r)), 1000 - PerMinute(r, i), r.mw, Bit(r.alt)>>

Cheaper(a, b) == \E k \in DOMAIN a : a[k] < b[k] /\ \A j \in 1..(k - 1) : a[j] = b[j]

\* The pin first, if it makes the item, then the eligible in order of cost.
OrderedCandidates(w, i) ==
  LET IsPin(r) == i \in DOMAIN w.pins /\ r.class = w.pins[i] /\ r.made /\ i \in Names(r.makes)
      rest == {k \in DOMAIN w.book : Eligible(w, i, w.book[k]) /\ ~IsPin(w.book[k])}
      Before(a, b) == LET ca == Cost(w, i, w.book[a])
                          cb == Cost(w, i, w.book[b])
                      IN  Cheaper(ca, cb) \/ (ca = cb /\ a < b)
      order == SetToSortSeq(rest, Before)
  IN  SelectSeq(w.book, IsPin) \o [k \in DOMAIN order |-> w.book[order[k]]]

\* What the solver is asked to replace a running factory: all it ships but
\* power, item by item, within the default limits, and with the recipe to be
\* adopted pinned to its first product.  outs is <<item, achieved rate>>.
ReplacementOf(w, outs, pin) ==
  LET shipped == InOrder(Names(outs) \ {Power})
      Rate(i) == MapThenSumSet(LAMBDA k : outs[k][2], {k \in DOMAIN outs : outs[k][1] = i})
      adopted == {r \in Recipes(w) : r.class = pin}
  IN  [w EXCEPT !.goals = [k \in DOMAIN shipped |-> <<shipped[k], Rate(shipped[k])>>],
                !.pins = [i \in {r.makes[1][1] : r \in adopted} |-> pin],
                !.alts = FALSE, !.surplusFirst = TRUE, !.budget = 3, !.floor = 1, !.replaces = TRUE]

-----------------------------------------------------------------------------
(* The resolver: s is what it remembers, its picks and the steps it spent. *)

RECURSIVE Resolve(_, _, _, _), TryEach(_, _, _, _, _), FeedEach(_, _, _, _)

\* Mutant: an item that failed on this path is taken to fail on every path.
ResolveCaching(w, i, path, s) ==
  IF i \in DOMAIN s.memo THEN [pick |-> s.memo[i], s |-> s]
  ELSE LET t == TryEach(w, i, OrderedCandidates(w, i), path \cup {i}, s)
       IN  [t EXCEPT !.s.memo = [x \in {i} |-> t.pick] @@ @]

Resolve(w, i, path, s) ==
  IF i \in DOMAIN s.memo THEN [pick |-> s.memo[i], s |-> s]
  ELSE TryEach(w, i, OrderedCandidates(w, i), path \cup {i}, s)

\* The first candidate whose ingredients can all be had; only it is kept.
TryEach(w, i, candidates, path, s) ==
  IF candidates = <<>> \/ s.steps >= ExpansionCap
  THEN [pick |-> None,
        s |-> IF candidates = <<>> THEN s ELSE [s EXCEPT !.steps = ExpansionCap + 1]]
  ELSE LET r == Head(candidates)
           t == FeedEach(w, r.takes, path, [s EXCEPT !.steps = @ + 1])
       IN  IF t.ok THEN [pick |-> r.class, s |-> [t.s EXCEPT !.memo = [x \in {i} |-> r.class] @@ @]]
           ELSE TryEach(w, i, Tail(candidates), path, t.s)

\* Mutant: the path is not looked at below the item itself.
FeedShort(w, list, path, s) ==
  IF list = <<>> THEN [ok |-> TRUE, s |-> s]
  ELSE LET y == Head(list)[1] IN
       IF ~Expands(w, y) \/ y \in path THEN FeedEach(w, Tail(list), path, s)
       ELSE LET t == Resolve(w, y, path, s)
            IN  IF t.pick = None /\ HasCandidates(w, y) THEN [ok |-> FALSE, s |-> t.s]
                ELSE FeedEach(w, Tail(list), path, t.s)

\* An ingredient on the path closes a loop; one that has candidates must
\* resolve; one that nothing in scope makes is let through.
FeedEach(w, list, path, s) ==
  IF list = <<>> THEN [ok |-> TRUE, s |-> s]
  ELSE LET y == Head(list)[1] IN
       IF ~Expands(w, y) THEN FeedEach(w, Tail(list), path, s)
       ELSE IF y \in path THEN [ok |-> FALSE, s |-> s]
       ELSE LET t == Resolve(w, y, path, s)
            IN  IF t.pick = None /\ HasCandidates(w, y) THEN [ok |-> FALSE, s |-> t.s]
                ELSE FeedEach(w, Tail(list), path, t.s)

NewResolver == [memo |-> <<>>, steps |-> 0]
Recipe(w, class) == CHOOSE r \in Recipes(w) : r.class = class

-----------------------------------------------------------------------------
(* Demand graph *)

Start(w) == [queue |-> w.goals, avail |-> [k \in DOMAIN w.spare |-> w.spare[k].rate]]

Init ==
  /\ case \in Cases /\ phase = "demand"
  /\ queue = Start(case).queue /\ avail = Start(case).avail
  /\ demand = [i \in Item |-> 0] /\ raw = [i \in Item |-> 0]
  /\ taken = <<>> /\ memo = NewResolver /\ steps = 0 /\ stages = <<>> /\ result = None

Refuse(why, best) == phase' = "done" /\ result' = [kind |-> "infeasible", why |-> why, best |-> best]

\* What an intermediate item draws from each offer, in order; goals draw none.
Drawn(i, rate) ==
  LET d[k \in 0..Len(avail)] ==
        IF k = 0 THEN [at |-> <<>>, left |-> rate]
        ELSE LET before == d[k - 1]
                 mine == case.surplusFirst /\ case.spare[k].item = i /\ i \notin Goal(case)
                 take == IF mine THEN Min({avail[k], before.left}) ELSE 0
             IN  [at |-> Append(before.at, take), left |-> before.left - take]
  IN  d[Len(avail)]

\* Mutant: a second take from a port is a second route.
MergeTwice(tk, k, amount) == IF amount = 0 THEN tk ELSE Append(tk, [port |-> k, amount |-> amount])

\* One route per port: repeated takes add up.
Merge(tk, k, amount) ==
  LET at == {j \in DOMAIN tk : tk[j].port = k}
  IN  IF amount = 0 THEN tk
      ELSE IF at = {} THEN Append(tk, [port |-> k, amount |-> amount])
      ELSE [tk EXCEPT ![Min(at)].amount = @ + amount]

Merged(at) ==
  LET t[k \in 0..Len(at)] == IF k = 0 THEN taken ELSE Merge(t[k - 1], k, at[k])
  IN  t[Len(at)]

\* Raw: extracted from a node, provided by the world, or made by nothing.
IsRaw(w, i) == i # Power /\ (\/ \E k \in DOMAIN w.nodes : w.nodes[k].item = i
                             \/ i \in w.resource \/ ~Craftable(w, i))

\* Mutant: scaled by the first product, not by the one that is wanted.
IngredientsFirst(r, i, rate) ==
  [k \in DOMAIN r.takes |-> <<r.takes[k][1], (r.takes[k][2] * rate) \div r.makes[1][2]>>]

\* What a recipe needs for this much of one of its products.
Ingredients(r, i, rate) ==
  [k \in DOMAIN r.takes |-> <<r.takes[k][1], (r.takes[k][2] * rate) \div Amount(r.makes, i)>>]

Walking == phase = "demand" /\ queue # <<>>

\* No chosen generator: refused before the walk.
RefusePower ==
  /\ Walking /\ steps = 0 /\ Power \in Goal(case) /\ Power \notin DOMAIN case.pins
  /\ Refuse("generator", 0)
  /\ UNCHANGED <<case, queue, demand, raw, avail, taken, memo, steps, stages>>

GivenUp ==
  /\ Walking /\ steps >= ExpansionCap
  /\ Refuse("diverged", 0)
  /\ UNCHANGED <<case, queue, demand, raw, avail, taken, memo, steps, stages>>

\* One item off the queue: grid power is left for later, surplus is taken
\* first, raw items are noted, the rest expands through the resolver's pick.
Expand ==
  LET i    == Last(queue)[1]
      draw == Drawn(i, Last(queue)[2])
      rest == Front(queue)
      t    == Resolve(case, i, {}, memo)
  IN  /\ Walking /\ steps < ExpansionCap
      /\ steps = 0 => ~(Power \in Goal(case) /\ Power \notin DOMAIN case.pins)
      /\ steps' = steps + 1
      /\ \/ /\ i = Power /\ i \notin Goal(case)
            /\ queue' = rest
            /\ UNCHANGED <<phase, demand, raw, avail, taken, memo, result>>
         \/ /\ i # Power \/ i \in Goal(case)
            /\ avail' = [k \in DOMAIN avail |-> avail[k] - draw.at[k]]
            /\ taken' = Merged(draw.at)
            /\ \/ /\ draw.left = 0 \/ IsRaw(case, i)
                  /\ raw' = [raw EXCEPT ![i] = @ + draw.left]
                  /\ queue' = rest
                  /\ UNCHANGED <<phase, demand, memo, result>>
               \/ /\ draw.left > 0 /\ ~IsRaw(case, i)
                  /\ demand' = [demand EXCEPT ![i] = @ + draw.left]
                  /\ memo' = t.s
                  /\ UNCHANGED raw
                  /\ IF t.pick # None
                     THEN /\ queue' = rest \o Ingredients(Recipe(case, t.pick), i, draw.left)
                          /\ UNCHANGED <<phase, result>>
                     ELSE /\ queue' = rest
                          /\ IF t.s.steps > ExpansionCap THEN Refuse("diverged", 0)
                             ELSE IF i \in Goal(case) /\ HasCandidates(case, i)
                             THEN Refuse("cycle", 0)
                             ELSE UNCHANGED <<phase, result>>
      /\ UNCHANGED <<case, stages>>

Cancel ==
  /\ phase = "demand"
  /\ phase' = "done" /\ result' = [kind |-> "cancelled"]
  /\ UNCHANGED <<case, queue, demand, raw, avail, taken, memo, steps, stages>>

-----------------------------------------------------------------------------
(* Recipe selection *)

CeilDiv(a, b) == (a + b - 1) \div b

\* A stage runs as many machines as the rate asks for, the last underclocked.
Stage(i, r) == [item |-> i, rate |-> demand[i], recipe |-> r,
                count |-> Max({1, CeilDiv(demand[i], PerMinute(r, i))})]

Picked(i) == Resolve(case, i, {}, memo).pick

Select ==
  LET wanted == SelectSeq(ItemOrder, LAMBDA i : demand[i] > 0)
      staged == SelectSeq(wanted, LAMBDA i : Picked(i) # None)
  IN  /\ phase = "demand" /\ queue = <<>>
      /\ IF \E i \in Goal(case) : demand[i] > 0 /\ Picked(i) = None
         THEN Refuse("no recipe", 0) /\ UNCHANGED stages
         ELSE /\ stages' = [k \in DOMAIN staged |-> Stage(staged[k], Recipe(case, Picked(staged[k])))]
              /\ phase' = "siting" /\ UNCHANGED result
      /\ UNCHANGED <<case, queue, demand, raw, avail, taken, memo, steps>>

-----------------------------------------------------------------------------
(* Siting *)

Noded(w, i)     == \E k \in DOMAIN w.nodes : w.nodes[k].item = i
NoNode(w, i)    == i \in w.resource /\ ~Noded(w, i)
Placeable(w, i) == \E r \in Recipes(w) : r.takes = <<>> /\ i \in Names(r.makes)
SupplyAssumed(w, i) == NoNode(w, i) /\ ~Placeable(w, i)

\* Mutant: the floor is not looked at.
CandidatesAny(w, i) ==
  SetToSeq({k \in DOMAIN w.nodes : w.nodes[k].item = i /\ w.nodes[k].id \notin w.claimed})

\* Nodes of an item that may be claimed, the purest first.
Candidates(w, i) ==
  LET ok == {k \in DOMAIN w.nodes : /\ w.nodes[k].item = i /\ w.nodes[k].id \notin w.claimed
                                    /\ w.nodes[k].purity >= w.floor}
  IN  SetToSortSeq(ok, LAMBDA a, b : \/ w.nodes[a].purity > w.nodes[b].purity
                                     \/ w.nodes[a].purity = w.nodes[b].purity /\ a < b)

Yield(w, ks) == MapThenSumSet(LAMBDA k : w.nodes[k].purity, ks)

\* Claims for one item after another, until the need is covered, the nodes
\* run out or the budget does; a short item ends the solve.
Claims(w, need) ==
  LET items == SelectSeq(ItemOrder, LAMBDA i : need[i] > 0 /\ ~NoNode(w, i))
      Prefix(seq, n) == {seq[j] : j \in 1..n}
      c[n \in 0..Len(items)] ==
        IF n = 0 THEN [nodes |-> {}, left |-> w.budget, short |-> None, binding |-> None, got |-> 0]
        ELSE LET done == c[n - 1]
                 i     == items[n]
                 cands == Candidates(w, i)
                 upto  == Min({Len(cands), done.left})
                 enough == {k \in 0..upto : Yield(w, Prefix(cands, k)) >= need[i]}
                 take  == IF enough = {} THEN upto ELSE Min(enough)
                 got   == Prefix(cands, take)
             IN  IF done.short # None THEN done ELSE
                 [nodes |-> done.nodes \cup got, left |-> done.left - take,
                  short |-> IF enough = {} THEN i ELSE None,
                  binding |-> IF enough # {} THEN None
                              ELSE IF upto < Len(cands) THEN "budget" ELSE "nodes",
                  got |-> Yield(w, got)]
  IN  c[Len(items)]

-----------------------------------------------------------------------------
(* The proposal.  An item is what the player can tick: its kind, the items *)
(* it depends on by place, and its commands, each with the alias it mints  *)
(* (None for none) and the aliases it names.  node is what a claim takes,  *)
(* from the port a route leaves, amount how much, keep what it splits off. *)

Cmd(mint, uses) == [mint |-> mint, uses |-> uses]
Line(from, to)  == Cmd(None, {<<"site">>, from, to})
Fit(kind, deps, does) ==
  [kind |-> kind, deps |-> deps, does |-> does, node |-> None, from |-> None, amount |-> 0, keep |-> 0]

Staged(i) == \E k \in DOMAIN stages : stages[k].item = i
Ported(i) == raw[i] > 0 /\ ~SupplyAssumed(case, i)
Shipped   == SelectSeq(case.goals, LAMBDA g : g[1] # Power)

\* Products of a stage that nothing takes and that are no goal: each gets one
\* outlet, fed by the first stage that makes it.
Byproducts ==
  LET Left(k) == SelectSeq(stages[k].recipe.makes, LAMBDA p :
                   p[1] # stages[k].item /\ p[1] # Power /\ ~Staged(p[1]) /\ p[1] \notin Goal(case))
      b[k \in 0..Len(stages)] ==
        IF k = 0 THEN <<>>
        ELSE LET had == b[k - 1]
                 new == SelectSeq(Left(k), LAMBDA p : \A j \in DOMAIN had : had[j][2] # p[1])
             IN  had \o [j \in DOMAIN new |-> <<stages[k].item, new[j][1]>>]
  IN  b[Len(stages)]

\* Where a stage's or an outlet's supply comes from, if the site has it.

\* Mutant: whatever has no port on the site is taken to be staged there.
SourcesGuess(i) == IF Ported(i) THEN <<<<"in", i>>>> ELSE <<<<"g", i>>>>

Sources(i) == IF Ported(i) THEN <<<<"in", i>>>> ELSE IF Staged(i) THEN <<<<"g", i>>>> ELSE <<>>

Lines(from, to) == [k \in DOMAIN from |-> Line(from[k], to)]

Create ==
  LET ports == SelectSeq(ItemOrder, Ported)
      fed   == [k \in DOMAIN stages |->
                 FlattenSeq([j \in DOMAIN stages[k].recipe.takes |->
                   Lines(Sources(stages[k].recipe.takes[j][1]), <<"g", stages[k].item>>)])]
  IN  Fit("create", {},
        <<Cmd(<<"site">>, {})>>
        \o [k \in DOMAIN ports   |-> Cmd(<<"in", ports[k]>>, {<<"site">>})]
        \o [k \in DOMAIN Shipped |-> Cmd(<<"out", Shipped[k][1]>>, {<<"site">>})]
        \o [k \in DOMAIN stages  |-> Cmd(<<"g", stages[k].item>>, {<<"site">>})]
        \o FlattenSeq([k \in DOMAIN Byproducts |->
             <<Cmd(<<"wout", Byproducts[k][2]>>, {<<"site">>}),
               Line(<<"g", Byproducts[k][1]>>, <<"wout", Byproducts[k][2]>>)>>])
        \o FlattenSeq(fed)
        \o FlattenSeq([k \in DOMAIN Shipped |->
             Lines(Sources(Shipped[k][1]), <<"out", Shipped[k][1]>>)
             \o <<Cmd(None, {<<"out", Shipped[k][1]>>})>>])
        \o <<Cmd(None, {<<"site">>})>>
        \o IF case.replaces THEN <<Cmd(None, {<<"site">>})>> ELSE <<>>)

\* The first open in port of a goal item is delivered to.
Deliveries ==
  LET met == SelectSeq(Shipped, LAMBDA g : \E k \in DOMAIN case.wants : case.wants[k].item = g[1])
  IN  [k \in DOMAIN met |-> Fit("route", {1}, <<Cmd(None, {<<"out", met[k][1]>>})>>)]

\* Mutant: the new in port is belted to the first stage that eats the item.
TapFirst(t) ==
  LET o     == case.spare[t.port]
      eaters == SelectSeq(stages, LAMBDA st : o.item \in Names(st.recipe.takes))
  IN  [Fit("route", {1},
         <<Cmd(<<"surplus", o.item>>, {<<"site">>}), Cmd(None, {<<"surplus", o.item>>}),
           Line(<<"surplus", o.item>>, <<"g", eaters[1].item>>)>>)
       EXCEPT !.from = o.port, !.amount = t.amount]

\* A surplus port is bound to the site whole.  A planned one is split first:
\* the untaken rest moves to a sibling that stays open.
Tap(t) ==
  LET o     == case.spare[t.port]
      rest  == o.rate - t.amount
      split == o.planned /\ rest > 0
      eaters == SelectSeq(stages, LAMBDA st : o.item \in Names(st.recipe.takes))
  IN  [Fit("route", {1},
         (IF split THEN <<Cmd(<<"keep", o.item>>, {}), Cmd(None, {<<"keep", o.item>>}), Cmd(None, {})>>
          ELSE <<>>)
         \o <<Cmd(<<"surplus", o.item>>, {<<"site">>}), Cmd(None, {<<"surplus", o.item>>})>>
         \o [k \in DOMAIN eaters |-> Line(<<"surplus", o.item>>, <<"g", eaters[k].item>>)])
       EXCEPT !.from = o.port, !.amount = t.amount, !.keep = IF split THEN rest ELSE 0]

\* Power comes from the first generator in the plan, made larger, over a line
\* that needs both it and the site; a plant feeds itself.
Powering(before) ==
  IF (\E k \in DOMAIN stages : stages[k].recipe.mw > 0) /\ Power \notin Goal(case) /\ case.grid # None
  THEN <<Fit("expand", {}, <<Cmd(None, {})>>),
         Fit("route", {1, before + 1}, <<Cmd(None, {<<"site">>})>>)>>
  ELSE <<>>

Proposed(claims) ==
  LET got   == SelectSeq([k \in DOMAIN case.nodes |-> k], LAMBDA k : k \in claims)
      first == <<Create>>
               \o [k \in DOMAIN got |-> [Fit("claim", {1}, <<Cmd(None, {<<"site">>})>>) EXCEPT !.node = got[k]]]
               \o Deliveries
               \o [k \in DOMAIN taken |-> Tap(taken[k])]
  IN  first \o Powering(Len(first))

Site ==
  LET c == Claims(case, raw)
      g == case.goals[1]
  IN  /\ phase = "siting"
      /\ IF c.short # None
         THEN Refuse(c.binding, (g[2] * c.got) \div raw[c.short])
         ELSE phase' = "done" /\ result' = [kind |-> "proposal", items |-> Proposed(c.nodes)]
      /\ UNCHANGED <<case, queue, demand, raw, avail, taken, memo, steps, stages>>

Next == RefusePower \/ GivenUp \/ Expand \/ Cancel \/ Select \/ Site

Spec == Init /\ [][Next]_vars

-----------------------------------------------------------------------------
(* Accepting some of its items *)

\* Mutant: items come as listed, whatever they depend on.
OrderedAsListed(p, in) == SelectSeq([k \in DOMAIN p |-> k], LAMBDA k : k \in in)

\* Included items in passes over the proposal, each once what it depends on
\* is placed; one with an unticked dependency is left out.
OrderedIncluded(p, in) ==
  LET f[n \in 0..(Len(p) * Len(p))] ==
        IF n = 0 THEN <<>>
        ELSE LET k == ((n - 1) % Len(p)) + 1
                 placed == f[n - 1]
             IN  IF k \in in \ Range(placed) /\ p[k].deps \subseteq in \cap Range(placed)
                 THEN Append(placed, k) ELSE placed
  IN  f[Len(p) * Len(p)]

\* Ticked items left out for another reason than an unticked dependency,
\* direct or through others: accepting refuses these.
CycleDropped(p, in) ==
  LET t[n \in 0..Len(p)] ==
        IF n = 0 THEN {k \in in : ~(p[k].deps \subseteq in)}
        ELSE LET u == t[n - 1] IN u \cup {k \in in : p[k].deps \cap u # {}}
  IN  (in \ Range(OrderedIncluded(p, in))) \ t[Len(p)]

\* Every alias is minted before it is named: else accepting rolls back.
ResolveAliases(p, order) ==
  LET all == FlattenSeq([k \in DOMAIN order |-> p[order[k]].does])
  IN  \A k \in DOMAIN all : all[k].uses \subseteq {all[j].mint : j \in 1..(k - 1)}

-----------------------------------------------------------------------------
(* What must hold.  A pin may name an alternate that is still locked; then *)
(* its item has a candidate and "has none", and the walk may run to its cap. *)

LockedPin == \E i \in DOMAIN case.pins : \E r \in Recipes(case) :
               r.class = case.pins[i] /\ r.alt /\ ~case.alts /\ r.class \notin case.unlocked

Expanding(i) == i # Power /\ i \notin case.resource /\ Craftable(case, i)
Fed(i)       == {y \in Names(Recipe(case, memo.memo[i]).takes) : Expanding(y)}

\* The picks never lead back to an item they came from, and an item that is
\* reached has a pick unless nothing in scope makes it: the demand walk ends,
\* and selection stages what the walk expanded (RecipeResolver).
PicksAcyclic ==
  LockedPin \/
  LET picked == {i \in DOMAIN memo.memo : memo.memo[i] # None}
      peeled[n \in 0..Cardinality(picked)] ==
        IF n = 0 THEN {} ELSE LET under == peeled[n - 1] IN {i \in picked : Fed(i) \cap picked \subseteq under}
  IN  /\ peeled[Cardinality(picked)] = picked
      /\ \A i \in picked : \A y \in Fed(i) \ picked : ~HasCandidates(case, y)
      /\ phase = "done" => result.kind # "infeasible" \/ result.why # "diverged"

\* An item goes without a recipe exactly when it cannot be made from what the
\* world gives, whatever was tried before and in whatever order: backtracking
\* gives up neither too early nor, by what it remembers, on the wrong path.
PicksComplete ==
  LET Had(y, S) == ~Expanding(y) \/ ~HasCandidates(case, y) \/ y \in S
      made[n \in 0..Cardinality(Item)] ==
        IF n = 0 THEN {}
        ELSE LET under == made[n - 1]
             IN  {i \in Item : \E r \in Range(OrderedCandidates(case, i)) :
                   \A y \in Names(r.takes) : Had(y, under)}
  IN  \A i \in Item : (demand[i] > 0 /\ queue = <<>> /\ ~LockedPin) =>
        ((Picked(i) # None) <=> i \in made[Cardinality(Item)])

\* The resolver's picks: acyclic, and missing only where nothing can be made.
PicksSound == PicksAcyclic /\ PicksComplete

\* Nothing is lost or counted twice on the way: at every step what the goals
\* and the expanded recipes need of an item is what is made, extracted, taken
\* from surplus or still queued; what is taken from a port leaves it, and each
\* port gives its one route to one tap.
MaterialBalance ==
  LET Total(F(_), S) == MapThenSumSet(F, S)
      Eaten(i, j) == IF demand[j] = 0 \/ j \notin DOMAIN memo.memo THEN 0
                     ELSE LET r == Recipe(case, memo.memo[j])
                          IN  (demand[j] * Amount(r.takes, i)) \div Amount(r.makes, j)
      From(i) == {k \in DOMAIN taken : case.spare[taken[k].port].item = i}
  IN  /\ \A i \in Item \ {Power} :
           Amount(case.goals, i) + Total(LAMBDA j : Eaten(i, j), Item)
             = demand[i] + raw[i] + Total(LAMBDA k : taken[k].amount, From(i))
               + Total(LAMBDA k : IF queue[k][1] = i THEN queue[k][2] ELSE 0, DOMAIN queue)
      /\ \A k \in DOMAIN case.spare :
           avail[k] + Total(LAMBDA j : IF taken[j].port = k THEN taken[j].amount ELSE 0, DOMAIN taken)
             = case.spare[k].rate
      /\ \A j, k \in DOMAIN taken : taken[j].port = taken[k].port => j = k

Proposing == phase = "done" /\ result.kind = "proposal"
Ran(order) == FlattenSeq([k \in DOMAIN order |-> result.items[order[k]].does])

\* Accepted whole, the site is fed: a belt brings every stage each of its
\* ingredients, and every outlet its item, unless the supply is assumed or
\* nothing in scope makes it; a port split for surplus keeps the rest open.
SiteIsFed ==
  Proposing =>
    LET all == Range(Ran([k \in DOMAIN result.items |-> k]))
        Brought(i, to) == \/ raw[i] > 0 /\ SupplyAssumed(case, i)
                          \/ demand[i] > 0 /\ Picked(i) = None
                          \/ \E from \in {<<"in", i>>, <<"g", i>>, <<"surplus", i>>} :
                               Line(from, to) \in all
    IN  /\ \A k \in DOMAIN stages : \A i \in Names(stages[k].recipe.takes) :
             Brought(i, <<"g", stages[k].item>>)
        /\ \A k \in DOMAIN Shipped : Brought(Shipped[k][1], <<"out", Shipped[k][1]>>)
        /\ \A k \in DOMAIN case.spare : case.spare[k].planned =>
             LET taps == {j \in DOMAIN result.items : result.items[j].from = case.spare[k].port}
             IN  \A j \in taps : result.items[j].amount + result.items[j].keep = case.spare[k].rate

\* Whatever the player unticks, accepting runs the rest in an order in which
\* every alias is minted before it is named, and drops no ticked item but for
\* an unticked dependency.
AliasesBound ==
  Proposing =>
    \A in \in SUBSET DOMAIN result.items :
      /\ ResolveAliases(result.items, OrderedIncluded(result.items, in))
      /\ CycleDropped(result.items, in) = {}

\* A proposal claims free nodes of the purity asked for, within the budget,
\* enough for what it extracts and none too many; a goal refused for want of
\* nodes could not have been covered by the nodes left.
ClaimsCover ==
  LET Of(i, ks)  == {k \in ks : case.nodes[k].item = i}
      Free(k)    == case.nodes[k].id \notin case.claimed /\ case.nodes[k].purity >= case.floor
      ks         == {result.items[j].node : j \in DOMAIN result.items} \ {None}
  IN  /\ Proposing =>
           /\ Cardinality(ks) <= case.budget /\ \A k \in ks : Free(k)
           /\ \A i \in Item : Noded(case, i) =>
                /\ Yield(case, Of(i, ks)) >= raw[i]
                /\ \A k \in Of(i, ks) : Yield(case, Of(i, ks) \ {k}) < raw[i]
      /\ (phase = "done" /\ result.kind = "infeasible" /\ result.why = "nodes") =>
           \E i \in Item : Yield(case, {k \in Of(i, DOMAIN case.nodes) : Free(k)}) < raw[i]

\* The proposal can be accepted in any ticking, and stakes what it needs.
ProposalBinds == AliasesBound /\ ClaimsCover
=============================================================================
