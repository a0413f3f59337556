----------------------------- MODULE PowerGrid -----------------------------
(***************************************************************************)
(* What every solve derives about power: the circuits that the power lines *)
(* form, their names, their margin, and the order in which priority        *)
(* switches shed load.  A map of the empire's power is a record            *)
(*   lines    a sequence of <<from, to>>, in the order of the route ids    *)
(*   switches a set of [line, priority], a line's number and P1 .. P8      *)
(*   gen, draw  MW generated and drawn by every factory                    *)
(***************************************************************************)
EXTENDS Naturals, Sequences, Functions, Lists

CONSTANT FactoryOrder   \* the factories, in the order of their ids

Factory == Range(FactoryOrder)

ASSUME FactoryAssumption == FactoryOrder \in Seq(Factory) /\ IsInjective(FactoryOrder)

Total(mw, members) ==
  LET sum[k \in 0..Len(FactoryOrder)] ==
        IF k = 0 THEN 0
        ELSE IF FactoryOrder[k] \in members THEN sum[k - 1] + mw[FactoryOrder[k]]
             ELSE sum[k - 1]
  IN  sum[Len(FactoryOrder)]

-----------------------------------------------------------------------------
(* Circuits *)

\* Mutant: a line moves its first end only, not the circuit behind it.
UnionEnd(root, line) == [root EXCEPT ![line[1]] = root[line[2]]]

\* A line puts the circuit of its first end under the root of its second.
Union(root, line) ==
  [f \in Factory |-> IF root[f] = root[line[1]] THEN root[line[2]] ELSE root[f]]

Roots(p) ==
  LET root[k \in 0..Len(p.lines)] ==
        IF k = 0 THEN [f \in Factory |-> f] ELSE Union(root[k - 1], p.lines[k])
  IN  root[Len(p.lines)]

InGrid(p) == UNION {{p.lines[k][1], p.lines[k][2]} : k \in DOMAIN p.lines}

\* Circuits are named by their place: GRID A has the smallest root.
Circuits(p) ==
  LET root  == Roots(p)
      roots == Kept(FactoryOrder, {root[f] : f \in InGrid(p)})
  IN  [k \in DOMAIN roots |->
         LET members == {f \in InGrid(p) : root[f] = roots[k]}
         IN  [name |-> k, members |-> members,
              gen |-> Total(p.gen, members), draw |-> Total(p.draw, members)]]

\* "ok" from 20% of headroom, "crit" under 5%; a circuit without generation
\* is fully overdrawn as soon as anything draws.
Level(c) ==
  CASE c.gen = 0 -> IF c.draw = 0 THEN "ok" ELSE "crit"
    [] c.gen > 0 /\ 20 * c.draw > 19 * c.gen -> "crit"
    [] c.gen > 0 /\ 20 * c.draw <= 19 * c.gen /\ 5 * c.draw > 4 * c.gen -> "warn"
    [] OTHER -> "ok"

-----------------------------------------------------------------------------
(* Shedding *)

\* No line of `on` (numbers) leaves s.
Closed(p, on, s) == \A k \in on : p.lines[k][1] \in s <=> p.lines[k][2] \in s

\* The factories that the lines `on` join to f: the least such set it is in.
Joined(p, on, f) ==
  {g \in Factory : \A s \in SUBSET Factory : f \in s /\ Closed(p, on, s) => g \in s}

OnCircuit(p, c) == {k \in DOMAIN p.lines : p.lines[k][1] \in c.members}

\* Mutant: the load is always what lies behind the line's second end.
LoadSideFar(p, c, sw) == Joined(p, OnCircuit(p, c) \ {sw.line}, p.lines[sw.line][2])

\* The half that opening the switch cuts off: the one that generates less.
LoadSide(p, c, sw) ==
  LET far  == Joined(p, OnCircuit(p, c) \ {sw.line}, p.lines[sw.line][2])
      genB == Total(p.gen, far)
  IN  IF 2 * genB <= c.gen THEN far ELSE c.members \ far

\* P8 sheds first and P1 last; of one priority, in the order of the lines.
AnySwitch(p) ==
  LET n == Len(p.lines)
  IN  [k \in 1..(8 * n) |-> [line |-> 1 + ((k - 1) % n), priority |-> 8 - ((k - 1) \div n)]]

ShedOrder(p, c) == Kept(AnySwitch(p), {sw \in p.switches : sw.line \in OnCircuit(p, c)})

Downstream(p, c, sw) == Total(p.draw, LoadSide(p, c, sw))

\* What the k-th switch says it sheds at: the generation, and all that the
\* switches before it drop.
ShedsAt(p, c, k) ==
  LET order == ShedOrder(p, c)
      mw[j \in 0..(k - 1)] == IF j = 0 THEN c.gen ELSE mw[j - 1] + Downstream(p, c, order[j])
  IN  mw[k - 1]

-----------------------------------------------------------------------------
(* What the circuits should be *)

\* Two factories share a circuit exactly when power lines connect them.
AreComponents(p) ==
  LET cs == Circuits(p) IN
  /\ \A i, j \in DOMAIN cs : i # j => cs[i].members \cap cs[j].members = {}
  /\ \A i \in DOMAIN cs : \A f \in cs[i].members :
       cs[i].members = Joined(p, DOMAIN p.lines, f)

\* The lines whose removal splits circuit c in two.
Splits(p, c, k) == p.lines[k][1] \notin Joined(p, OnCircuit(p, c) \ {k}, p.lines[k][2])

\* A switch that splits its circuit drops the half that generates less.  Open
\* the switches before the k-th one after the other: when each splits the
\* circuit and none lies in another's load, the rest stays whole and draws
\* less by what ShedsAt is above the generation.
ShedsWhatItSays(p, c) ==
  LET order   == ShedOrder(p, c)
      Load(j) == LoadSide(p, c, order[j])
  IN  /\ \A j \in DOMAIN order :
           Splits(p, c, order[j].line) => 2 * Total(p.gen, Load(j)) <= c.gen
      /\ \A k \in DOMAIN order :
           (/\ \A j \in 1..k : Splits(p, c, order[j].line)
            /\ \A i, j \in 1..k : i # j => Load(i) \cap Load(j) = {})
           => LET off  == {order[j].line : j \in 1..(k - 1)}
                  kept == c.members \ UNION {Load(j) : j \in 1..(k - 1)}
              IN  /\ ShedsAt(p, c, k) - c.gen = c.draw - Total(p.draw, kept)
                  /\ \A f \in kept : Joined(p, OnCircuit(p, c) \ off, f) = kept
=============================================================================
