----------------------------- MODULE PlanGraph -----------------------------
(***************************************************************************)
(* The edit commands over the entities of a plan, with the imports that    *)
(* write its built layer.  One action is one command; what a refused       *)
(* command leaves behind is PlanSession's subject, and undo, which returns *)
(* to earlier plans, too.  Commands that change names, rates, tiers,       *)
(* clocks or canvas positions only are left out.                           *)
(***************************************************************************)
EXTENDS BuiltLayer

\* What a run varies and how far.  A scene is a record of
\*   clusters  the sites a save may hold
\*   items, recipes, nodes, places  what commands name
\*   counts    machine counts: users set them, games reach them
\*   kinds     junction kinds the user builds; lines, route kinds the user draws
\*   cuts      whether single belts are deleted
\*   room      bound: entities of each collection commands may grow it to
\*   made      bound: commands and imports that issue ids
\*   imports   bound: the imports among them
CONSTANT Scenes

ASSUME PlanAssumption ==
  \A s \in Scenes :
    /\ \A c \in s.clusters : c \in Cluster
    /\ s.items \subseteq Item /\ s.recipes \subseteq Recipe
    /\ s.nodes \subseteq Node /\ s.places \subseteq Place
    /\ s.counts \subseteq Nat \ {0}
    /\ s.kinds \subseteq JunctionKind /\ s.lines \subseteq RouteKind
    /\ s.room \in [Collection \cup {"guides", "marks"} -> Nat]

VARIABLES
  plan,
  made,    \* commands and imports that may have issued ids so far
  imports, \* imports and accepted drift items among them
  scene    \* never changes

vars == <<plan, made, imports, scene>>

n   == made + 1
New == <<n>>

\* Expansion limit.
ExpandMax == 24

------------------------------------------------------------------------------
(* Types *)

Ids(pl) == UNION {DOMAIN pl[coll] : coll \in Collection}

End(pl) ==
  UNION {{<<coll, x>> : x \in DOMAIN pl[coll]} : coll \in {"groups", "ports", "junctions"}}

TypeOK ==
  /\ DOMAIN plan = Collection \cup {"guides", "marks"}
  /\ made \in 0..scene.made /\ imports \in 0..scene.imports
  /\ \A x \in Ids(plan) : x[1] \in 1..made
  /\ \A f \in DOMAIN plan.factories :
       plan.factories[f].at \in Place /\ plan.factories[f].built \in BOOLEAN
  /\ \A g \in DOMAIN plan.groups :
       /\ plan.groups[g].recipe \in Recipe
       /\ plan.groups[g].count \in Nat \ {0}
       /\ plan.groups[g].mine \in Nat
  /\ \A p \in DOMAIN plan.ports :
       plan.ports[p].dir \in {"in", "out"} /\ plan.ports[p].item \in Item
  /\ \A j \in DOMAIN plan.junctions : plan.junctions[j].kind \in JunctionKind
  /\ \A e \in DOMAIN plan.edges :
       /\ {plan.edges[e].from, plan.edges[e].to} \subseteq End(plan)
       /\ plan.edges[e].item \in Item
  /\ \A r \in DOMAIN plan.routes :
       /\ plan.routes[r].kind \in RouteKind
       /\ plan.routes[r].path \in [1..2 -> Place]

Init == plan = EmptyPlan /\ made = 0 /\ imports = 0 /\ scene \in Scenes

------------------------------------------------------------------------------
(* Committing a command *)

Edit(pl) == plan' = pl /\ UNCHANGED <<made, imports, scene>>

Fits(pl) == \A coll \in Collection : Cardinality(DOMAIN pl[coll]) <= scene.room[coll]

Issue(pl) == made < scene.made /\ Fits(pl) /\ plan' = pl /\ made' = n /\ UNCHANGED scene

Create(pl) == Issue(pl) /\ UNCHANGED imports

Planned(coll) == {x \in DOMAIN plan[coll] : ~plan[coll][x].built}
Built(coll)   == {x \in DOMAIN plan[coll] : plan[coll][x].built}

------------------------------------------------------------------------------
(* Factories *)

CreateFactory(at) ==
  Create([plan EXCEPT !.factories = Put(@, New, NewFactory(at, FALSE))])

\* Faulty variant: power lines keep their old ends.
OnPort(end, f) == end \in DOMAIN plan.ports /\ plan.ports[end].factory = f

\* A route end sits on f: a power line names the factory, the others a port.
OnFactory(end, f) ==
  end = f \/ (end \in DOMAIN plan.ports /\ plan.ports[end].factory = f)

MovedPath(r, f, at) ==
  [i \in DOMAIN r.path |-> IF OnFactory(r.ends[i], f) THEN at ELSE r.path[i]]

Moved(f, at) ==
  LET path(r) == MovedPath(plan.routes[r], f, at)
      hit(r)  == \E i \in 1..2 : OnFactory(plan.routes[r].ends[i], f)
  IN  [plan EXCEPT
        !.factories[f].at = at,
        !.routes   = [r \in DOMAIN @ |-> [@[r] EXCEPT !.path = path(r)]],
        !.switches = [s \in DOMAIN @ |->
                        IF hit(@[s].route) THEN [@[s] EXCEPT !.at = Midpoint(path(plan.switches[s].route))]
                        ELSE @[s]]]

MoveFactoryPin(f, at) == f \in Planned("factories") /\ Edit(Moved(f, at))

DeleteFactory(f) == f \in Planned("factories") /\ Edit(RemoveFactory(plan, f))

\* Only a running factory is ever replaced; old = None clears the link.
SetFactoryReplaces(f, old) ==
  /\ f \in DOMAIN plan.factories
  /\ old \in (Built("factories") \ {f}) \cup {None}
  /\ Edit([plan EXCEPT !.factories[f].replaces = old])

CreateStyleGuide ==
  /\ Cardinality(plan.guides) < scene.room["guides"]
  /\ Create([plan EXCEPT !.guides = @ \cup {New}])

DeleteStyleGuide(s) ==
  /\ s \in plan.guides
  /\ Edit([plan EXCEPT
            !.guides = @ \ {s},
            !.factories = [f \in DOMAIN @ |->
                             IF @[f].guide = s THEN [@[f] EXCEPT !.guide = None] ELSE @[f]]])

SetFactoryTheme(f, s) ==
  /\ f \in DOMAIN plan.factories
  /\ s \in plan.guides \cup {None}
  /\ Edit([plan EXCEPT !.factories[f].guide = s])

------------------------------------------------------------------------------
(* Machine groups *)

AddGroup(f, recipe, count) ==
  /\ f \in DOMAIN plan.factories
  /\ Create([plan EXCEPT !.groups = Put(@, New, NewGroup(f, recipe, count, FALSE)),
                         !.factories[f].groups = @ \cup {New}])

SetGroupRecipe(g, recipe) ==
  /\ g \in Planned("groups")
  /\ Edit([plan EXCEPT !.groups[g].recipe = recipe])

\* On a built group the count is a planned delta, cleared by the built value.
SetGroupCount(g, count) ==
  /\ g \in DOMAIN plan.groups
  /\ Edit([plan EXCEPT !.groups[g] =
             IF ~@.built THEN [@ EXCEPT !.count = count]
             ELSE [@ EXCEPT !.mine = IF count = plan.groups[g].count THEN 0 ELSE count]])

DeleteGroup(g) == g \in Planned("groups") /\ Edit(RemoveGroup(plan, g))

(* Expanding a bank of count machines: the i-th machine is <<n, i>>.  Every  *)
(* belt e of the bank gets a chain of junctions <<n, k, e>>, k from 0, with  *)
(* three slots each: one of them passes on to the next junction.            *)

Machines(count) == {<<n, i>> : i \in 1..count}

Chain(count) == 0..(count \div 2) - 1

\* Faulty variant: machines fill three slots of a junction in the chain.
SlotThree(i, count) ==
  LET k == (i - 1) \div 3  last == (count \div 2) - 1
  IN  IF k <= last THEN k ELSE last

\* The junction whose slot the i-th machine takes.
Slot(i, count) ==
  LET k == (i - 1) \div 2  last == (count \div 2) - 1
  IN  IF k <= last THEN k ELSE last

FanKind(e, splits) ==
  IF plan.edges[e].item \in Fluid THEN "pipe"
  ELSE IF splits THEN "splitter" ELSE "merger"

\* Faulty variant: every belt of a fan runs away from the root.
FanBeltDown(e, f, splits, rootSide, farSide) ==
  NewEdge(f, rootSide, farSide, plan.edges[e].item, FALSE)

\* One belt of a fan: away from the root if it splits, towards it if not.
FanBelt(e, f, splits, rootSide, farSide) ==
  NewEdge(f, IF splits THEN rootSide ELSE farSide, IF splits THEN farSide ELSE rootSide,
          plan.edges[e].item, FALSE)

Fan(g, count) ==
  LET bank     == GroupEnd(g)
      f        == plan.groups[g].factory
      belts    == Touching(plan, bank)
      splits(e) == plan.edges[e].to = bank
      joint(k, e) == JunctionEnd(<<n, k, e>>)
      trunks   == {<<n, "trunk", k, e>> : k \in Chain(count) \ {0}, e \in belts}
      branches == {<<n, "branch", i, e>> : i \in 1..count, e \in belts}
  IN  [junctions |-> [j \in {<<n, k, e>> : k \in Chain(count), e \in belts} |->
                        NewJunction(f, FanKind(j[3], splits(j[3])))],
       edges |-> [x \in trunks \cup branches |->
                    LET e == x[4]
                    IN  IF x[2] = "trunk"
                          THEN FanBelt(e, f, splits(e), joint(x[3] - 1, e), joint(x[3], e))
                          ELSE FanBelt(e, f, splits(e), joint(Slot(x[3], count), e),
                                       GroupEnd(<<n, x[3]>>))],
       rewired |-> [e \in belts |->
                      IF splits(e) THEN [plan.edges[e] EXCEPT !.to = joint(0, e)]
                      ELSE [plan.edges[e] EXCEPT !.from = joint(0, e)]]]

Expanded(g) ==
  LET bank  == plan.groups[g]
      count == EffectiveCount(bank)
      fan   == Fan(g, count)
      one   == [x \in Machines(count) |-> NewGroup(bank.factory, bank.recipe, 1, FALSE)]
  IN  [plan EXCEPT
        !.groups    = PutAll(Drop(@, {g}), one),
        !.junctions = PutAll(@, fan.junctions),
        !.edges     = PutAll(@, PutAll(fan.rewired, fan.edges)),
        !.factories[bank.factory].groups = (@ \ {g}) \cup Machines(count),
        !.marks     = @ \ {g}]

ExpandGroup(g) ==
  /\ g \in Planned("groups")
  /\ EffectiveCount(plan.groups[g]) \in 2..ExpandMax
  /\ Create(Expanded(g))

------------------------------------------------------------------------------
(* Ports, belts and junctions *)

AddPort(f, dir, item) ==
  /\ f \in DOMAIN plan.factories
  /\ Create([plan EXCEPT !.ports = Put(@, New, NewPort(f, dir, item, FALSE)),
                         !.factories[f].ports = @ \cup {New}])

\* Faulty variant: built ports can be deleted.
DeletePortAny(p) == p \in DOMAIN plan.ports /\ Edit(RemovePort(plan, p))

DeletePort(p) == p \in Planned("ports") /\ Edit(RemovePort(plan, p))

Inputs  == [splitter |-> 1, smart |-> 1, storage |-> 1, merger |-> 3, pipe |-> 4]
Outputs == [splitter |-> 3, smart |-> 3, storage |-> 1, merger |-> 1, pipe |-> 4]

PipePorts == 4

\* A free port on a junction for a belt with the item; other ends take any.
HasRoom(end, item, used, cap) ==
  end[1] = "junctions" =>
    LET kind == plan.junctions[end[2]].kind
    IN  /\ (kind = "pipe") = (item \in Fluid)
        /\ Cardinality(used) < cap[kind]
        /\ kind = "pipe" => Cardinality(Touching(plan, end)) < PipePorts
        /\ kind # "smart" => \A e \in Touching(plan, end) : plan.edges[e].item = item

AddEdge(f, from, to, item) ==
  /\ from # to
  /\ EndIn(plan, from, f) /\ EndIn(plan, to, f)
  /\ HasRoom(from, item, OutOf(plan, from), Outputs)
  /\ HasRoom(to, item, Into(plan, to), Inputs)
  /\ Create([plan EXCEPT !.edges = Put(@, New, NewEdge(f, from, to, item, FALSE))])

DeleteEdge(e) ==
  /\ e \in Planned("edges")
  /\ Edit([plan EXCEPT !.edges = Drop(@, {e})])

AddJunction(f, kind) ==
  /\ f \in DOMAIN plan.factories
  /\ Create([plan EXCEPT !.junctions = Put(@, New, NewJunction(f, kind))])

DeleteJunction(j) ==
  j \in DOMAIN plan.junctions /\ Edit(RemoveJunction(plan, j))

------------------------------------------------------------------------------
(* Routes and switches.  The surfaces that draw a route send the pins of    *)
(* its two factories as its path.                                           *)

NewRoute(kind, from, to, path) == [kind |-> kind, ends |-> <<from, to>>, path |-> path]

PinOf(end) ==
  LET f == IF end \in DOMAIN plan.ports THEN plan.ports[end].factory ELSE end
  IN  plan.factories[f].at

Path(from, to) == <<PinOf(from), PinOf(to)>>

IsPower(r) == plan.routes[r].kind = "power"

AddPowerLine(from, to) ==
  /\ from \in DOMAIN plan.factories /\ to \in DOMAIN plan.factories
  /\ from # to
  /\ \A r \in DOMAIN plan.routes :
       IsPower(r) => plan.routes[r].ends \notin {<<from, to>>, <<to, from>>}
  /\ Create([plan EXCEPT !.routes = Put(@, New, NewRoute("power", from, to, Path(from, to)))])

\* Faulty variant: the ports may already be bound.
AddCargoRouteBound(kind, from, to) ==
  /\ from \in DOMAIN plan.ports /\ to \in DOMAIN plan.ports
  /\ plan.ports[from].dir = "out" /\ plan.ports[to].dir = "in"
  /\ plan.ports[from].item = plan.ports[to].item
  /\ Create([plan EXCEPT !.routes = Put(@, New, NewRoute(kind, from, to, Path(from, to))),
                         !.ports[from].route = New,
                         !.ports[to].route = New])

AddCargoRoute(kind, from, to) ==
  /\ from \in DOMAIN plan.ports /\ to \in DOMAIN plan.ports
  /\ plan.ports[from].dir = "out" /\ plan.ports[to].dir = "in"
  /\ plan.ports[from].item = plan.ports[to].item
  /\ plan.ports[from].route = None /\ plan.ports[to].route = None
  /\ Create([plan EXCEPT !.routes = Put(@, New, NewRoute(kind, from, to, Path(from, to))),
                         !.ports[from].route = New,
                         !.ports[to].route = New])

SetRouteSpec(r, kind) ==
  /\ r \in DOMAIN plan.routes
  /\ {plan.routes[r].kind, kind} \subseteq Respeccable
  /\ Edit([plan EXCEPT !.routes[r].kind = kind])

DeleteRoute(r) == r \in DOMAIN plan.routes /\ Edit(RemoveRoute(plan, r))

AddPrioritySwitch(r) ==
  /\ r \in DOMAIN plan.routes
  /\ IsPower(r)
  /\ Create([plan EXCEPT !.switches =
               Put(@, New, [route |-> r, at |-> Midpoint(plan.routes[r].path)])])

DeleteSwitch(s) ==
  s \in DOMAIN plan.switches /\ Edit([plan EXCEPT !.switches = Drop(@, {s})])

------------------------------------------------------------------------------
(* Node claims and build steps *)

ClaimNode(f, node) ==
  /\ f \in DOMAIN plan.factories
  /\ Create([plan EXCEPT !.claims = Put(@, New, NewClaim(f, node, FALSE)),
                         !.factories[f].claims = @ \cup {New}])

ReleaseNode(c) ==
  /\ c \in Planned("claims")
  /\ Edit([plan EXCEPT !.factories[plan.claims[c].factory].claims = @ \ {c},
                       !.claims = Drop(@, {c}),
                       !.marks = @ \ {c}])

\* An edited built claim turns into a planned one.
SetClaim(c) ==
  /\ c \in DOMAIN plan.claims
  /\ Edit([plan EXCEPT !.claims[c].built = FALSE])

\* Steps of the build queue and of the cutovers, but for those that switch one
\* item over, which no entity stands for.
Steps(pl) ==
  {f \in DOMAIN pl.factories : ~pl.factories[f].built}
  \cup {g \in DOMAIN pl.groups :
          IF pl.groups[g].built THEN pl.groups[g].mine # 0
          ELSE pl.factories[pl.groups[g].factory].built}
  \cup DOMAIN pl.routes
  \cup {c \in DOMAIN pl.claims : ~pl.claims[c].built}
  \cup UNION {{f, pl.factories[f].replaces} :
                f \in {g \in DOMAIN pl.factories : pl.factories[g].replaces # None}}

\* The override's value is left out; clearing it needs a step as setting it does.
SetBuildDone(x, kept) ==
  /\ x \in Steps(plan)
  /\ kept => Cardinality(plan.marks) < scene.room["marks"]
  /\ Edit([plan EXCEPT !.marks = IF kept THEN @ \cup {x} ELSE @ \ {x}])

------------------------------------------------------------------------------
(* Imports.  A first import writes the built layer; afterwards the user     *)
(* accepts drift items, here one at a time, which ends with dissolving      *)
(* overrides and links that nothing stands for.                             *)

Import(pl) == imports < scene.imports /\ Issue(pl) /\ imports' = imports + 1

ImportSave(c) ==
  /\ Built("factories") = {}
  /\ Import(WriteBuiltLayer(plan, n, c))

\* Marks the game has caught up with, any of them, dissolve as well.
Accept(pl) ==
  LET q == DropStaleLinks(pl)
  IN  \E caughtUp \in SUBSET pl.marks :
        Import([q EXCEPT !.marks = (@ \cap Steps(pl)) \ caughtUp])

SyncCreate(c) ==
  /\ Built("factories") # {}
  /\ Accept(WriteBuiltLayer(plan, n, c))

SyncUpdate(f, recipe, count, takeSave) ==
  /\ f \in Built("factories")
  /\ IF Keyed(plan, f, recipe) = {}
       THEN count > 0 /\ Accept(SyncNewGroup(plan, f, recipe, count, n))
       ELSE \E g \in Keyed(plan, f, recipe) :
              Accept(SyncGroup(plan, f, g, count, takeSave, n))

SyncRetune(f, recipe, to, count, takeSave) ==
  /\ f \in Built("factories")
  /\ recipe # to
  /\ \E g \in Keyed(plan, f, recipe) :
       Accept(Retune(plan, f, g, to, count, takeSave, n))

SyncRemove(f) ==
  /\ f \in Built("factories")
  /\ Accept(RemoveFactory(plan, f))

------------------------------------------------------------------------------
Next ==
  \/ \E at \in scene.places : CreateFactory(at)
  \/ \E s \in plan.guides : DeleteStyleGuide(s)
  \/ CreateStyleGuide
  \/ \E f \in DOMAIN plan.factories :
       \/ \E at \in scene.places : MoveFactoryPin(f, at)
       \/ DeleteFactory(f)
       \/ \E old \in DOMAIN plan.factories \cup {None} : SetFactoryReplaces(f, old)
       \/ \E s \in plan.guides \cup {None} : SetFactoryTheme(f, s)
       \/ \E recipe \in scene.recipes, count \in scene.counts : AddGroup(f, recipe, count)
       \/ \E dir \in {"in", "out"}, item \in scene.items : AddPort(f, dir, item)
       \/ \E kind \in scene.kinds : AddJunction(f, kind)
       \/ \E from, to \in End(plan), item \in scene.items : AddEdge(f, from, to, item)
       \/ \E node \in scene.nodes : ClaimNode(f, node)
       \/ \E to \in DOMAIN plan.factories : "power" \in scene.lines /\ AddPowerLine(f, to)
  \/ \E g \in DOMAIN plan.groups :
       \/ \E recipe \in scene.recipes : SetGroupRecipe(g, recipe)
       \/ \E count \in scene.counts : SetGroupCount(g, count)
       \/ DeleteGroup(g)
       \/ ExpandGroup(g)
  \/ \E from, to \in DOMAIN plan.ports, kind \in scene.lines \ {"power"} :
       AddCargoRoute(kind, from, to)
  \/ \E p \in DOMAIN plan.ports : DeletePort(p)
  \/ \E e \in DOMAIN plan.edges : scene.cuts /\ DeleteEdge(e)
  \/ \E j \in DOMAIN plan.junctions : DeleteJunction(j)
  \/ \E r \in DOMAIN plan.routes :
       \/ \E kind \in scene.lines : SetRouteSpec(r, kind)
       \/ DeleteRoute(r)
       \/ AddPrioritySwitch(r)
  \/ \E s \in DOMAIN plan.switches : DeleteSwitch(s)
  \/ \E c \in DOMAIN plan.claims : ReleaseNode(c) \/ SetClaim(c)
  \/ \E x \in Steps(plan), kept \in BOOLEAN : SetBuildDone(x, kept)
  \/ \E c \in scene.clusters : ImportSave(c) \/ SyncCreate(c)
  \/ \E f \in DOMAIN plan.factories :
       \/ \E recipe \in scene.recipes, takeSave \in BOOLEAN :
            \/ \E count \in scene.counts \cup {0} : SyncUpdate(f, recipe, count, takeSave)
            \/ \E to \in scene.recipes, count \in scene.counts :
                 SyncRetune(f, recipe, to, count, takeSave)
       \/ SyncRemove(f)

Spec == Init /\ [][Next]_vars

------------------------------------------------------------------------------
(* Properties *)

\* A factory's lists are exactly the groups, ports and claims that name it as
\* theirs, and every child's factory exists: no cascade, expansion or sync
\* forgets one side.
ListsMatch ==
  /\ \A coll \in {"groups", "ports", "claims"} : \A f \in DOMAIN plan.factories :
       plan.factories[f][coll] = Owned(plan, coll, f)
  /\ \A coll \in {"groups", "ports", "claims", "junctions", "edges"} :
       \A x \in DOMAIN plan[coll] : plan[coll][x].factory \in DOMAIN plan.factories

\* Every belt joins two things of its own factory that exist.
BeltsJoin ==
  \A e \in DOMAIN plan.edges :
    /\ EndIn(plan, plan.edges[e].from, plan.edges[e].factory)
    /\ EndIn(plan, plan.edges[e].to, plan.edges[e].factory)

\* No junction has more belts than it has ports, carries what its medium cannot,
\* or mixes items if it does not filter.
JunctionBudgets ==
  \A j \in DOMAIN plan.junctions :
    LET kind == plan.junctions[j].kind
        all  == Touching(plan, JunctionEnd(j))
    IN  /\ Cardinality(Into(plan, JunctionEnd(j))) <= Inputs[kind]
        /\ Cardinality(OutOf(plan, JunctionEnd(j))) <= Outputs[kind]
        /\ kind = "pipe" => Cardinality(all) <= PipePorts
        /\ kind # "smart" => \A d, e \in all : plan.edges[d].item = plan.edges[e].item
        /\ \A e \in all : (kind = "pipe") = (plan.edges[e].item \in Fluid)

\* No cascade, expansion or sync forgets one side of what a factory owns,
\* leaves a belt on something that is gone, or overfills a junction
\* (delete_factory, delete_group, expand_group, AddEdge's port counts).
WiringHolds == ListsMatch /\ BeltsJoin /\ JunctionBudgets

\* A cargo route runs from an OUT to an IN port of one item, both bound to it
\* and to nothing else; a port is bound to no other route.  Two factories share
\* at most one power line.
CargoBound(r) ==
  LET from == plan.routes[r].ends[1]  to == plan.routes[r].ends[2]
  IN  /\ {from, to} \subseteq DOMAIN plan.ports
      /\ plan.ports[from].dir = "out" /\ plan.ports[to].dir = "in"
      /\ plan.ports[from].item = plan.ports[to].item
      /\ plan.ports[from].route = r /\ plan.ports[to].route = r

PowerJoined(r) ==
  /\ Range(plan.routes[r].ends) \subseteq DOMAIN plan.factories
  /\ plan.routes[r].ends[1] # plan.routes[r].ends[2]
  /\ \A q \in DOMAIN plan.routes :
       IsPower(q) /\ Range(plan.routes[q].ends) = Range(plan.routes[r].ends) => q = r

RoutesBind ==
  /\ \A r \in DOMAIN plan.routes : IF IsPower(r) THEN PowerJoined(r) ELSE CargoBound(r)
  /\ \A p \in DOMAIN plan.ports :
       plan.ports[p].route # None =>
         /\ plan.ports[p].route \in DOMAIN plan.routes
         /\ p \in Range(plan.routes[plan.ports[p].route].ends)

\* A route starts and ends at the pins of the factories it serves, wherever they
\* have been moved, and a switch sits at the midpoint of an existing power line
\* (MoveFactoryPin: "so a pin move never strands them on the stale line").
LinesFollowPins ==
  /\ \A r \in DOMAIN plan.routes :
       \A i \in 1..2 : plan.routes[r].path[i] = PinOf(plan.routes[r].ends[i])
  /\ \A s \in DOMAIN plan.switches :
       LET r == plan.switches[s].route
       IN  /\ r \in DOMAIN plan.routes
           /\ IsPower(r)
           /\ plan.switches[s].at = Midpoint(plan.routes[r].path)

\* Routes and switches hold copies, of ids on both sides and of pin positions:
\* every copy is kept current (add_route, move_factory_pin, delete_port).
RoutesServe == RoutesBind /\ LinesFollowPins

\* A theme names a guide, a replaced factory is another one that runs, and a
\* build override never outlives the entity it tracks.
LinksResolve ==
  /\ \A f \in DOMAIN plan.factories :
       /\ plan.factories[f].guide \in plan.guides \cup {None}
       /\ plan.factories[f].replaces \in (Built("factories") \ {f}) \cup {None}
  /\ plan.marks \subseteq UNION {DOMAIN plan[coll] :
                              coll \in {"factories", "groups", "routes", "claims"}}

\* No command of the user's alters the built layer or takes anything from it,
\* deletions of planned factories, ports and groups and all their cascades
\* included; what a claim holds becomes planned by an edit, but stays.
Baseline(pl) ==
  [factories |-> {<<f, pl.factories[f].at>> :
                    f \in {x \in DOMAIN pl.factories : pl.factories[x].built}},
   groups |-> {<<g, pl.groups[g].recipe, pl.groups[g].count>> :
                 g \in {x \in DOMAIN pl.groups : pl.groups[x].built}},
   ports |-> {p \in DOMAIN pl.ports : pl.ports[p].built},
   edges |-> {<<e, pl.edges[e]>> : e \in {x \in DOMAIN pl.edges : pl.edges[x].built}}]

BuiltStands ==
  [][imports' = imports =>
       /\ Baseline(plan') = Baseline(plan)
       /\ Built("claims") \subseteq DOMAIN plan'.claims]_vars

\* A sync takes a drawn route only with one of its factories: a port the game
\* no longer feeds stays as the anchor of its route.
RoutesSurviveSync ==
  [][imports' # imports =>
       \A r \in DOMAIN plan.routes \ DOMAIN plan'.routes :
         LET f(end) == IF end \in DOMAIN plan.ports THEN plan.ports[end].factory ELSE end
         IN  \E i \in 1..2 : f(plan.routes[r].ends[i]) \notin DOMAIN plan'.factories]_vars

\* The built layer never doubles: one built port for an item and direction of a
\* factory, one built belt between two ends for an item, however often a flow
\* dries up, comes back or changes direction.
NoTwins ==
  /\ \A p, q \in Built("ports") :
       /\ plan.ports[p].factory = plan.ports[q].factory
       /\ plan.ports[p].item = plan.ports[q].item
       /\ plan.ports[p].dir = plan.ports[q].dir
       => p = q
  /\ \A d, e \in Built("edges") : plan.edges[d] = plan.edges[e] => d = e

\* The machines reached from start through junctions alone: some belt leads to
\* them out of every set of junctions that has start and that leads to no other.
Reached(pl, start, near, far) ==
  LET ends(S)   == {JunctionEnd(j) : j \in S}
      beyond(S) == {pl.edges[e][far] : e \in {x \in DOMAIN pl.edges : pl.edges[x][near] \in ends(S)}}
      all       == DOMAIN pl.junctions
      closed    == {S \in SUBSET all : start \in ends(S) /\ beyond(S) \cap ends(all) \subseteq ends(S)}
  IN  {g \in DOMAIN pl.groups : start \in ends(all) /\ \A S \in closed : GroupEnd(g) \in beyond(S)}

\* Expanding a bank: each belt that fed it feeds every one of its machines, and
\* each belt that drained it drains every one, through junctions alone.
ExpansionFansOut ==
  [][\A g \in DOMAIN plan.groups \ DOMAIN plan'.groups :
       LET new == DOMAIN plan'.groups \ DOMAIN plan.groups
       IN  new # {} =>
             /\ Cardinality(new) = EffectiveCount(plan.groups[g])
             /\ \A e \in Into(plan, GroupEnd(g)) :
                  Reached(plan', plan'.edges[e].to, "from", "to") = new
             /\ \A e \in OutOf(plan, GroupEnd(g)) :
                  Reached(plan', plan'.edges[e].from, "to", "from") = new]_vars

==============================================================================
