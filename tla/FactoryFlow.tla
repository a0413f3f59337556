----------------------------- MODULE FactoryFlow -----------------------------
(***************************************************************************)
(* One factory's numbers.  T1 is the settle: a linear program over belt    *)
(* flows with elastic targets, its objectives taken one after the other    *)
(* (unmet targets, idle generators, machines, fairness); which of several  *)
(* equal optima the simplex returns is left open.  T0 is the drag preview: *)
(* demand walked from the targets to the inputs, split by fixed weights.   *)
(*                                                                         *)
(* The graph is constant, the numbers are a snapshot.  Amounts are whole   *)
(* numbers: a flow of 1 is what half a machine moves per unit of its rate, *)
(* and a clock of 12 is 100 %.  Each recipe consumes something.            *)
(***************************************************************************)
EXTENDS Integers, Sequences, FiniteSets, FiniteSetsExt, Functions

CONSTANTS
  Factory, Group, InPort, OutPort, Junction, Belt, Item,
  Site,                \* the factory of a group, port, junction or belt
  Src, Dst, Cargo,      \* where a belt starts and ends, and its item
  InRate, OutRate,     \* what a group's recipe takes and gives: [Group -> [Item -> Nat]]
  Kin,                 \* groups of one recipe and machine share a value
  BeltOrder, PortOrder, \* sequences: belts by id, in-ports as listed
  MaxFlow

Whole  == 12           \* 100 % clock
Half   == 6            \* clock units of one unit of flow
None   == -1
Unbound == [kind |-> "none", at |-> "none"]

Of(f, S)     == {x \in S : Site[x] = f}
Into(n)      == {b \in Belt : Dst[b] = n}
OutOf(n)     == {b \in Belt : Src[b] = n}
With(i, B)   == {b \in B : Cargo[b] = i}
Takes(g)     == {i \in Item : InRate[g][i] > 0}
Gives(g)     == {i \in Item : OutRate[g][i] > 0}
Total(x, B)  == MapThenSumSet(LAMBDA b : x[b], B)

-----------------------------------------------------------------------------
(* T1 *)

\* Machine equivalents of a group, from what one of its inputs brings.
Run(x, g) == LET i == CHOOSE i \in Takes(g) : TRUE
             IN  Total(x, With(i, Into(g))) \div InRate[g][i]

\* Flows that respect the recipes and the junctions, whatever the numbers.
Lawful(f, x) ==
  /\ \A g \in Of(f, Group) :
       /\ \A i \in Takes(g) : Total(x, With(i, Into(g))) = Run(x, g) * InRate[g][i]
       /\ \A i \in Gives(g) : Total(x, With(i, OutOf(g))) <= Run(x, g) * OutRate[g][i]
  /\ \A j \in Of(f, Junction), i \in Item :
       Total(x, With(i, Into(j))) = Total(x, With(i, OutOf(j)))

\* The lawful flows with what they run, take in and deliver, and in all.
Balanced ==
  [f \in Factory |->
     LET Outcome(x, run, got) ==
           [flow |-> x, run |-> run, got |-> got,
            intake |-> [p \in Of(f, InPort) |-> Total(x, OutOf(p))],
            machines |-> Total(run, DOMAIN run), delivered |-> Total(got, DOMAIN got)]
     IN  {Outcome(x, [g \in Of(f, Group) |-> Run(x, g)], [p \in Of(f, OutPort) |-> Total(x, Into(p))]) :
            x \in {y \in [Of(f, Belt) -> 0 .. MaxFlow] : Lawful(f, y)}}]

\* Belts, ceilings, nameplates and targets hold; a port in free has no target.
Feasible(s, f, free) ==
  {x \in Balanced[f] :
     /\ \A b \in DOMAIN x.flow : x.flow[b] <= s.cap[b]
     /\ \A p \in DOMAIN x.intake : s.ceil[p] # None => x.intake[p] <= s.ceil[p]
     /\ \A g \in DOMAIN x.run : s.driven[g] # None => x.run[g] <= s.driven[g]
     /\ \A p \in DOMAIN x.got \ free : x.got[p] <= s.rate[p]}

Best(X, Worth(_)) == LET m == Max({Worth(x) : x \in X}) IN {x \in X : Worth(x) = m}

\* The concave reward of running a group of n machines at m: segments of a
\* quarter, a quarter, a half and one and a half machines each.
Reward(m, n) ==
  LET Part(from, to) == Max({0, Min({2 * m, to * n}) - from * n})
  IN  4 * Part(0, 1) + 3 * Part(1, 2) + 2 * Part(2, 4) + Part(4, 10)

Shared(s, f) ==
  {g \in Of(f, Group) :
     /\ s.driven[g] = None /\ s.count[g] > 0
     /\ \E h \in Of(f, Group) \ {g} : Kin[h] = Kin[g] /\ s.driven[h] = None /\ s.count[h] > 0}

\* The objectives after the targets, in their order: generators at their
\* nameplate (left out when a target is maximized), few machines, fairness.
Economical(s, f, X, generators) ==
  LET A == IF generators = {} THEN X ELSE Best(X, LAMBDA x : Total(x.run, generators))
      B == Best(A, LAMBDA x : 0 - x.machines)
      fair == Shared(s, f)
  IN  IF fair = {} THEN B
      ELSE Best(B, LAMBDA x : MapThenSumSet(LAMBDA g : Reward(x.run[g], s.count[g]), fair))

\* Targets fixed: every optimum the solver may return.
Settle(s, f) ==
  Economical(s, f, Best(Feasible(s, f, {}), LAMBDA x : x.delivered),
             {g \in Of(f, Group) : s.driven[g] # None})

\* One target free: the most that port can get, generators yielding to it.
Highest(s, f, p) ==
  LET A == Best(Feasible(s, f, {p}), LAMBDA x : x.delivered - x.got[p])
  IN  Economical(s, f, Best(A, LAMBDA x : x.got[p]), {})

FirstIn(seq, S) ==
  LET k == Min({i \in DOMAIN seq : seq[i] \in S}) IN seq[k]

\* The first belt at its capacity, else the first port at its ceiling.
Binding(s, x) ==
  LET belts == {b \in DOMAIN x.flow : x.flow[b] >= s.cap[b]}
      ports == {p \in DOMAIN x.intake : s.ceil[p] # None /\ x.intake[p] >= s.ceil[p]}
  IN  IF belts # {} THEN [kind |-> "belt", at |-> FirstIn(BeltOrder, belts)]
      ELSE IF ports # {} THEN [kind |-> "port", at |-> FirstIn(PortOrder, ports)]
      ELSE Unbound

\* What limits a port with a shortfall: missing belts come first.
Blame(s, f, p, x) ==
  IF Into(p) = {} \/ \E g \in Of(f, Group) : \E i \in Takes(g) : With(i, Into(g)) = {}
  THEN [kind |-> "wire", at |-> "none"]
  ELSE Binding(s, x)

CeilDiv(a, b) == (a + b - 1) \div b

\* Mutant: an authored clock is spread over the machines like any other.
SizedSpread(s, g, m, edit) ==
  IF m = 0 THEN [count |-> Max({1, s.count[g]}), clock |-> 0]
  ELSE LET n == CeilDiv(m * Half, Whole) IN [count |-> n, clock |-> (m * Half) \div n]

\* Count and clock of a group that runs at m, an edited or authored clock kept.
Sized(s, g, m, edit) ==
  CASE edit.kind = "clock" /\ edit.at = g ->
         [count |-> Max({1, CeilDiv(m * Half, edit.value)}), clock |-> edit.value]
    [] m = 0 -> [count |-> Max({1, s.count[g]}), clock |-> 0]
    [] s.authored[g] # None ->
         [count |-> CeilDiv(m * Half, s.authored[g]), clock |-> s.authored[g]]
    [] OTHER -> LET n == CeilDiv(m * Half, Whole)
                IN  [count |-> n, clock |-> (m * Half) \div n]

\* A solve: the ceiling pass when a target of f is edited, then the settle.
Solve(s, f, edit) ==
  LET Outcome(t, clamped, bound, top, x) ==
        [run |-> x.run, intake |-> x.intake, got |-> x.got,
         missing |-> [p \in DOMAIN x.got |-> t.rate[p] - x.got[p]],
         blame   |-> [p \in DOMAIN x.got |->
                        IF t.rate[p] > x.got[p] THEN Blame(t, f, p, x) ELSE Unbound],
         clamped |-> clamped, bound |-> bound, top |-> top]
      Capped(bound, top) ==
        LET over == bound # Unbound /\ s.rate[edit.at] > top
            t    == IF over THEN [s EXCEPT !.rate[edit.at] = top] ELSE s
        IN  {Outcome(t, over, bound, IF bound = Unbound THEN None ELSE top, x) : x \in Settle(t, f)}
  IN  IF edit.kind = "target" /\ edit.at \in Of(f, OutPort)
      THEN UNION {Capped(c[1], c[2]) :
                    c \in {<<Binding(s, y), y.got[edit.at]>> : y \in Highest(s, f, edit.at)}}
      ELSE {Outcome(s, FALSE, Unbound, None, x) : x \in Settle(s, f)}

-----------------------------------------------------------------------------
(* T0 *)

Fine == 840 * 840     \* shares of up to eight parts, nested twice, stay whole

Reaches == [n \in Group \cup InPort \cup OutPort \cup Junction |->
              {Dst[b] : b \in OutOf(n)}]

\* reverse_topo finds an order: no node comes back to itself.
Acyclic(f) ==
  LET Nodes == Of(f, Group \cup InPort \cup OutPort \cup Junction)
      Step(S) == UNION {Reaches[n] : n \in S}
  IN  \A n \in Nodes :
        LET walk[k \in 0 .. Cardinality(Nodes)] ==
              IF k = 0 THEN Reaches[n] ELSE walk[k - 1] \cup Step(walk[k - 1])
        IN  n \notin walk[Cardinality(Nodes)]

Weight(s, b) ==
  LET n == Src[b] IN
  CASE n \in Group    -> s.count[n] * s.clock[n] * OutRate[n][Cargo[b]]
    [] n \in InPort   -> IF s.ceil[n] = None THEN s.cap[b] ELSE Min({s.ceil[n], s.cap[b]})
    [] n \in OutPort  -> 0
    [] n \in Junction -> 1

Share(s, b, amount) ==
  LET peers == With(Cargo[b], Into(Dst[b]))
      sum   == MapThenSumSet(LAMBDA e : Weight(s, e), peers)
  IN  IF sum > 0 THEN (amount * Weight(s, b)) \div sum
      ELSE amount \div Cardinality(peers)

\* The demand walk: each belt carries its share of what its head asks for.
Pull(s) ==
  LET flow[b \in Belt] ==
        LET n == Dst[b]
            i == Cargo[b]
            Asked(j, B) == MapThenSumSet(LAMBDA e : flow[e], With(j, B))
            cycles == Max({Asked(j, OutOf(n)) \div OutRate[n][j] : j \in Gives(n)}
                          \cup {IF s.driven[n] = None THEN 0 ELSE s.driven[n] * Fine})
        IN  CASE n \in OutPort  -> Share(s, b, s.rate[n] * Fine)
              [] n \in Group    -> Share(s, b, cycles * InRate[n][i])
              [] n \in Junction -> Share(s, b, Asked(i, OutOf(n)))
              [] OTHER          -> 0
  IN  flow

\* Mutant: the ceilings of the input ports are not looked at.
PreviewBelts(s, f) == \A b \in Of(f, Belt) : Pull(s)[b] <= s.cap[b] * Fine

\* Every cap holds, so the slider is not stopped and no sibling is short.
PreviewFits(s, f) ==
  LET x == Pull(s) IN
  /\ \A b \in Of(f, Belt) : x[b] <= s.cap[b] * Fine
  /\ \A p \in Of(f, InPort) : s.ceil[p] # None => Total(x, OutOf(p)) <= s.ceil[p] * Fine

\* No pull is lost on a missing belt, which T0 does not report.
Wired(f) ==
  /\ \A p \in Of(f, OutPort) : Into(p) # {}
  /\ \A g \in Of(f, Group) : \A i \in Takes(g) : With(i, Into(g)) # {}
  /\ \A j \in Of(f, Junction) : Into(j) # {}
==============================================================================
