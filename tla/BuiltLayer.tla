----------------------------- MODULE BuiltLayer -----------------------------
(***************************************************************************)
(* How an import writes the built (◆) layer and how an accepted drift item *)
(* rewrites it.  A save holds machines and no belts, so a factory's belts  *)
(* and boundary ports are derived from what its groups make and take.      *)
(***************************************************************************)
EXTENDS PlanData

CONSTANTS
  Makes,  \* Makes[r][i]: how much of i one machine on r makes
  Takes   \* Takes[r][i]: and how much it takes

ASSUME RecipeAssumption ==
  /\ Makes \in [Recipe -> [Item -> Nat]]
  /\ Takes \in [Recipe -> [Item -> Nat]]

\* What a save has at one site: banks in the order of their keys, miners.
Cluster == [at : Place, groups : Seq([recipe : Recipe, count : Nat]),
            nodes : SUBSET Node]

------------------------------------------------------------------------------
(* Flows of some groups, given as a function from ids to groups *)

Makers(gs, i) == {g \in DOMAIN gs : Makes[gs[g].recipe][i] > 0}
Takers(gs, i) == {g \in DOMAIN gs : Takes[gs[g].recipe][i] > 0}

\* The game's own count, whatever the user plans for the group.
Net(gs, i) ==
  LET made == [g \in DOMAIN gs |->
                 gs[g].count * (Makes[gs[g].recipe][i] - Takes[gs[g].recipe][i])]
  IN  FoldFunction(LAMBDA a, b : a + b, 0, made)

Flowing(gs) == {i \in Item : Net(gs, i) # 0}

Dir(gs, i) == IF Net(gs, i) > 0 THEN "out" ELSE "in"

\* Belts as triples: from, to, item.
InnerBelts(gs) ==
  UNION {{<<GroupEnd(p), GroupEnd(c), i>> : p \in Makers(gs, i), c \in Takers(gs, i)}
         : i \in Item}

\* Every group that serves a boundary port is belted to it; port[i] is the
\* port of item i.
BoundaryBelts(gs, port) ==
  UNION {IF Dir(gs, i) = "out"
           THEN {<<GroupEnd(g), PortEnd(port[i]), i>> : g \in Makers(gs, i)}
           ELSE {<<PortEnd(port[i]), GroupEnd(g), i>> : g \in Takers(gs, i)}
         : i \in DOMAIN port}

BuiltBelts(n, f, belts) ==
  [x \in {<<n, "belt", b>> : b \in belts} |->
     NewEdge(f, x[3][1], x[3][2], x[3][3], TRUE)]

\* The boundary ports of the items in is, whose flows are those of gs.
BuiltPorts(n, f, gs, is) ==
  [x \in {<<n, "port", i>> : i \in is} |-> NewPort(f, Dir(gs, x[3]), x[3], TRUE)]

------------------------------------------------------------------------------
(* write_built_layer, for one cluster *)

WriteBuiltLayer(pl, n, c) ==
  LET f      == <<n>>
      gs     == [x \in {<<n, k>> : k \in DOMAIN c.groups} |->
                   NewGroup(f, c.groups[x[2]].recipe, c.groups[x[2]].count, TRUE)]
      ports  == BuiltPorts(n, f, gs, Flowing(gs))
      belts  == InnerBelts(gs) \cup BoundaryBelts(gs, [i \in Flowing(gs) |-> <<n, "port", i>>])
      claims == [x \in {<<n, "claim", v>> : v \in c.nodes} |-> NewClaim(f, x[3], TRUE)]
  IN  [pl EXCEPT
        !.groups    = PutAll(@, gs),
        !.ports     = PutAll(@, ports),
        !.edges     = PutAll(@, BuiltBelts(n, f, belts)),
        !.claims    = PutAll(@, claims),
        !.factories = Put(@, f, [NewFactory(c.at, TRUE) EXCEPT
                                   !.groups = DOMAIN gs,
                                   !.ports  = DOMAIN ports,
                                   !.claims = DOMAIN claims])]

------------------------------------------------------------------------------
(* resync_built_wiring *)

BuiltGroups(pl, f) ==
  Restrict(pl.groups, {g \in pl.factories[f].groups : pl.groups[g].built})

PortsFor(pl, f, i, dir) ==
  {p \in pl.factories[f].ports : pl.ports[p].item = i /\ pl.ports[p].dir = dir}

BuiltPortsFor(pl, f, i, dir) == {p \in PortsFor(pl, f, i, dir) : pl.ports[p].built}

\* Faulty variant: a dried-up port goes whether or not a route is bound to it.
DriedRouted(pl, f, gs) ==
  {p \in pl.factories[f].ports :
     /\ pl.ports[p].built
     /\ ~(pl.ports[p].item \in Flowing(gs) /\ Dir(gs, pl.ports[p].item) = pl.ports[p].dir)}

\* Built ports nothing flows through any more.  One that anchors a route stays.
Dried(pl, f, gs) ==
  {p \in pl.factories[f].ports :
     /\ pl.ports[p].built
     /\ pl.ports[p].route = None
     /\ ~(pl.ports[p].item \in Flowing(gs) /\ Dir(gs, pl.ports[p].item) = pl.ports[p].dir)}

\* Faulty variant: a port for every flow, whatever ports there are.
UnportedAlways(pl, f, gs) == Flowing(gs)

\* Items that newly cross the boundary and have no port of the user's either.
Unported(pl, f, gs) == {i \in Flowing(gs) : PortsFor(pl, f, i, Dir(gs, i)) = {}}

Belted(pl, b) ==
  \E e \in DOMAIN pl.edges :
    <<pl.edges[e].from, pl.edges[e].to, pl.edges[e].item>> = b

Resync(pl, f, n) ==
  LET gs    == BuiltGroups(pl, f)
      new   == BuiltPorts(n, f, gs, Unported(pl, f, gs))
      kept  == {i \in Flowing(gs) : BuiltPortsFor(pl, f, i, Dir(gs, i)) # {}}
      port  == [i \in kept \cup Unported(pl, f, gs) |->
                  IF i \in kept THEN CHOOSE p \in BuiltPortsFor(pl, f, i, Dir(gs, i)) : TRUE
                  ELSE <<n, "port", i>>]
      belts == {b \in InnerBelts(gs) \cup BoundaryBelts(gs, port) : ~Belted(pl, b)}
      q     == RemovePorts(pl, f, Dried(pl, f, gs))
  IN  [q EXCEPT
        !.ports = PutAll(@, new),
        !.factories[f].ports = @ \cup DOMAIN new,
        !.edges = PutAll(@, BuiltBelts(n, f, belts))]

------------------------------------------------------------------------------
(* apply_sync, one operation each.  A factory that is gone is left alone.  *)

\* The group of the key: any of them, the code takes the first of the list.
Keyed(pl, f, r) == {g \in pl.factories[f].groups : pl.groups[g].recipe = r}

\* A planned count yields to the save's side or to a game that caught up.
Rest(mine, count, takeSave) == IF takeSave \/ mine = count THEN 0 ELSE mine

\* Count 0: demolished in game.
SyncGroup(pl, f, g, count, takeSave, n) ==
  Resync(IF count = 0 THEN RemoveGroup(pl, g)
         ELSE [pl EXCEPT !.groups[g].count = count,
                         !.groups[g].mine = Rest(@, count, takeSave)], f, n)

SyncNewGroup(pl, f, r, count, n) ==
  Resync([pl EXCEPT !.groups = Put(@, <<n>>, NewGroup(f, r, count, TRUE)),
                    !.factories[f].groups = @ \cup {<<n>>}], f, n)

Retune(pl, f, g, r, count, takeSave, n) ==
  Resync([pl EXCEPT !.groups[g].recipe = r,
                    !.groups[g].count = count,
                    !.groups[g].mine = Rest(@, count, takeSave)], f, n)

\* Faulty variant: links to factories that are gone stay.
KeepLinks(pl) == pl

\* dissolve_stale_replaces
DropStaleLinks(pl) ==
  [pl EXCEPT !.factories =
     [f \in DOMAIN @ |-> IF @[f].replaces \in DOMAIN @ \cup {None} THEN @[f]
                         ELSE [@[f] EXCEPT !.replaces = None]]]

==============================================================================
