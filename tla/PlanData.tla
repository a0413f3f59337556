------------------------------ MODULE PlanData ------------------------------
(***************************************************************************)
(* The entities of a plan, how they refer to each other, and the cascades  *)
(* that take an entity away with everything that hangs on it.  A plan is a *)
(* record with one partial function from ids to entities for each          *)
(* collection.  Names, rates, tiers, clocks, canvas positions and          *)
(* provenance are left out; so is the order of a factory's lists.          *)
(*                                                                         *)
(* Ids are ULIDs in the code: never issued twice.  Here an id is a tuple   *)
(* that starts with the number of the command that issued it.              *)
(***************************************************************************)
EXTENDS Integers, Sequences, FiniteSets, Functions

CONSTANTS
  Item,    \* what belts, pipes and routes carry
  Fluid,   \* the items that need pipes
  Recipe,  \* what a machine group can run
  Node,    \* resource nodes
  Place    \* map positions, on one axis

ASSUME DataAssumption == Fluid \subseteq Item /\ Place \subseteq Int

None == <<>>  \* no id

\* Junctions with one item: all but the filtering splitters.
JunctionKind == {"splitter", "smart", "merger", "storage", "pipe"}
RouteKind    == {"belt", "truck", "pipe", "power"}

\* Cargo kinds that can be exchanged; pipes and power have other endpoints.
Respeccable == {"belt", "truck"}

Collection == {"factories", "groups", "ports", "junctions", "edges",
               "routes", "switches", "claims"}

EmptyPlan ==
  [factories |-> << >>, groups |-> << >>, ports |-> << >>, junctions |-> << >>,
   edges |-> << >>, routes |-> << >>, switches |-> << >>, claims |-> << >>,
   guides |-> {},   \* style guides
   marks  |-> {}]   \* ids of steps with a build override

------------------------------------------------------------------------------
(* Entities.  The built (◆) layer is written by imports only; junctions,    *)
(* routes and switches are never built.                                     *)

NewFactory(at, built) ==
  [groups |-> {}, ports |-> {}, claims |-> {}, at |-> at,
   guide |-> None, replaces |-> None, built |-> built]

\* mine: the user's planned count for a built group, 0 for none.
NewGroup(f, recipe, count, built) ==
  [factory |-> f, recipe |-> recipe, count |-> count, mine |-> 0, built |-> built]

NewPort(f, dir, item, built) ==
  [factory |-> f, dir |-> dir, item |-> item, route |-> None, built |-> built]

NewJunction(f, kind) == [factory |-> f, kind |-> kind]

NewEdge(f, from, to, item, built) ==
  [factory |-> f, from |-> from, to |-> to, item |-> item, built |-> built]

NewClaim(f, node, built) == [factory |-> f, node |-> node, built |-> built]

EffectiveCount(g) == IF g.mine = 0 THEN g.count ELSE g.mine

\* Ends of a belt: an id with the collection it is looked up in.
GroupEnd(g)    == <<"groups", g>>
PortEnd(p)     == <<"ports", p>>
JunctionEnd(j) == <<"junctions", j>>

EndIn(pl, end, f) ==
  /\ end[2] \in DOMAIN pl[end[1]]
  /\ pl[end[1]][end[2]].factory = f

Into(pl, end)     == {e \in DOMAIN pl.edges : pl.edges[e].to = end}
OutOf(pl, end)    == {e \in DOMAIN pl.edges : pl.edges[e].from = end}
Touching(pl, end) == Into(pl, end) \cup OutOf(pl, end)

\* Twice the midpoint of a route: endpoints of the line, the origin if it
\* has no path.
Midpoint(path) == IF path = <<>> THEN 0 ELSE path[1] + path[Len(path)]

------------------------------------------------------------------------------
(* Partial functions *)

Put(f, k, v) == [x \in DOMAIN f \cup {k} |-> IF x = k THEN v ELSE f[x]]

PutAll(f, g) == [x \in DOMAIN f \cup DOMAIN g |-> IF x \in DOMAIN g THEN g[x] ELSE f[x]]

Drop(f, S) == Restrict(f, DOMAIN f \ S)

Owned(pl, coll, f) == {x \in DOMAIN pl[coll] : pl[coll][x].factory = f}

------------------------------------------------------------------------------
(* Cascades *)

\* A removed route, its switches, the bindings of its ports and its mark.
RemoveRoutes(pl, rs) ==
  LET bound(p) == /\ pl.ports[p].route \in rs \cap DOMAIN pl.routes
                  /\ p \in Range(pl.routes[pl.ports[p].route].ends)
  IN  [pl EXCEPT
        !.ports    = [p \in DOMAIN @ |->
                        IF bound(p) THEN [@[p] EXCEPT !.route = None] ELSE @[p]],
        !.switches = Drop(@, {s \in DOMAIN @ : @[s].route \in rs}),
        !.routes   = Drop(@, rs),
        !.marks    = @ \ rs]

RemoveRoute(pl, r) == RemoveRoutes(pl, {r})

\* Faulty variant: the belts at the group stay.
RemoveGroupOnly(pl, g) ==
  [pl EXCEPT !.factories[pl.groups[g].factory].groups = @ \ {g},
             !.groups = Drop(@, {g}),
             !.marks  = @ \ {g}]

RemoveGroup(pl, g) ==
  [pl EXCEPT !.edges = Drop(@, Touching(pl, GroupEnd(g))),
             !.factories[pl.groups[g].factory].groups = @ \ {g},
             !.groups = Drop(@, {g}),
             !.marks  = @ \ {g}]

\* Ports of f with the routes bound to them and the belts at them.
RemovePorts(pl, f, ps) ==
  LET q == RemoveRoutes(pl, {pl.ports[p].route : p \in ps} \ {None})
  IN  [q EXCEPT
        !.edges = Drop(@, UNION {Touching(pl, PortEnd(p)) : p \in ps}),
        !.factories[f].ports = @ \ ps,
        !.ports = Drop(@, ps)]

RemovePort(pl, p) == RemovePorts(pl, pl.ports[p].factory, {p})

RemoveJunction(pl, j) ==
  [pl EXCEPT !.edges = Drop(@, Touching(pl, JunctionEnd(j))),
             !.junctions = Drop(@, {j})]

RoutesAt(pl, f) ==
  {r \in DOMAIN pl.routes :
     Range(pl.routes[r].ends) \cap (Owned(pl, "ports", f) \cup {f}) # {}}

\* Faulty variant: the factory's junctions stay.
RemoveFactoryShell(pl, f) ==
  LET q == RemoveRoutes(pl, RoutesAt(pl, f))
  IN  [q EXCEPT
        !.edges     = Drop(@, Owned(pl, "edges", f)),
        !.groups    = Drop(@, Owned(pl, "groups", f)),
        !.ports     = Drop(@, Owned(pl, "ports", f)),
        !.claims    = Drop(@, Owned(pl, "claims", f)),
        !.factories = Drop(@, {f}),
        !.marks     = @ \ ({f} \cup Owned(pl, "groups", f) \cup Owned(pl, "claims", f))]

RemoveFactory(pl, f) ==
  LET q == RemoveRoutes(pl, RoutesAt(pl, f))
  IN  [q EXCEPT
        !.edges     = Drop(@, Owned(pl, "edges", f)),
        !.groups    = Drop(@, Owned(pl, "groups", f)),
        !.ports     = Drop(@, Owned(pl, "ports", f)),
        !.claims    = Drop(@, Owned(pl, "claims", f)),
        !.junctions = Drop(@, Owned(pl, "junctions", f)),
        !.factories = Drop(@, {f}),
        !.marks     = @ \ ({f} \cup Owned(pl, "groups", f) \cup Owned(pl, "claims", f))]

==============================================================================
