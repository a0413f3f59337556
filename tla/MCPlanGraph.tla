---------------------------- MODULE MCPlanGraph ----------------------------
(***************************************************************************)
(* PlanGraph in three scenes.  Belts: one refinery of two and more         *)
(* machines, junctions, a fluid and a solid.  Routes: a mine and a         *)
(* smelter, ports, routes, power lines, moved pins, dried up flows.        *)
(* Links: a smelter on a node, guides, replacements, build marks, claims.  *)
(***************************************************************************)
EXTENDS PlanGraph

Rate(item, r) == [i \in Item |-> IF i = item THEN r ELSE 0]

Output == [r \in Recipe |-> CASE r = "mine" -> Rate("ore", 1) [] r = "refine" -> Rate("silica", 1)
                              [] OTHER -> Rate("ore", 0)]
Input  == [r \in Recipe |-> CASE r = "smelt" -> Rate("ore", 1) [] r = "refine" -> Rate("water", 1)
                              [] OTHER -> Rate("ore", 0)]

Site(at, recipe, nodes) == [at |-> at, groups |-> <<[recipe |-> recipe, count |-> 1]>>, nodes |-> nodes]

Capped(f, g, p, j, e, r, s, c, guides, marks) ==
  [factories |-> f, groups |-> g, ports |-> p, junctions |-> j, edges |-> e,
   routes |-> r, switches |-> s, claims |-> c, guides |-> guides,
   marks |-> marks]

Belts ==
  [clusters |-> {Site(0, "refine", {})}, items |-> {"water", "silica"}, recipes |-> {"refine"},
   nodes |-> {}, places |-> {0}, counts |-> {4}, kinds |-> {"splitter"}, lines |-> {}, cuts |-> FALSE,
   room |-> Capped(1, 5, 2, 4, 14, 0, 0, 0, 0, 0), made |-> 5, imports |-> 0]

Routes ==
  [clusters |-> {Site(0, "smelt", {}), Site(2, "mine", {})}, items |-> {"ore"},
   recipes |-> {"mine", "smelt"}, nodes |-> {}, places |-> {0, 2}, counts |-> {2}, kinds |-> {},
   lines |-> {"belt", "power"}, cuts |-> TRUE, room |-> Capped(2, 2, 3, 0, 2, 2, 1, 0, 0, 0), made |-> 4, imports |-> 3]

Links ==
  [clusters |-> {Site(0, "smelt", {"geode"})}, items |-> {"ore"}, recipes |-> {"smelt"},
   nodes |-> {"geode"}, places |-> {0}, counts |-> {2}, kinds |-> {}, lines |-> {"power"}, cuts |-> TRUE,
   room |-> Capped(2, 1, 1, 0, 1, 1, 0, 1, 1, 2), made |-> 4, imports |-> 3]

MCScenes == {Belts, Routes, Links}
=============================================================================
