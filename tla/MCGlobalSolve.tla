--------------------------- MODULE MCGlobalSolve ---------------------------
(***************************************************************************)
(* Cases for GlobalSolve.  Family: every small catalog of three craftable  *)
(* items, two of them with an alternate, their ingredients chosen in every *)
(* way that can close a loop.  The rest are scenes written by hand, each   *)
(* varied in what it leaves open.                                          *)
(***************************************************************************)
EXTENDS GlobalSolve

MCItemOrder == <<"coal", "ore", "plate", "power", "residue", "screw", "waste", "water", "well",
                 "x", "y", "z">>

R(class, makes, takes, per) ==
  [class |-> class, makes |-> makes, takes |-> takes, alt |-> FALSE, made |-> TRUE, per |-> per, mw |-> 0]
Alt(r) == [r EXCEPT !.alt = TRUE]

Node(id, item, purity) == [id |-> id, item |-> item, purity |-> purity]
Ore(n) == [k \in 1..n |-> Node(<<"n", k>>, "ore", 9)]

Base == [book |-> <<>>, resource |-> {"ore", "coal", "water", "well"}, nodes |-> Ore(4),
         goals |-> <<<<"x", 4>>>>, pins |-> <<>>, unlocked |-> {}, alts |-> FALSE,
         spare |-> <<>>, wants |-> <<>>, grid |-> None, claimed |-> {}, budget |-> 4, floor |-> 1,
         surplusFirst |-> TRUE, replaces |-> FALSE]

-----------------------------------------------------------------------------
(* Loops *)

One(S) == [k \in 1..Cardinality(S) |-> <<InOrder(S)[k], 1>>]
XTakes == {{"ore"}, {"y"}, {"z"}, {"y", "z"}}
YTakes == {{"ore"}, {"x"}, {"z"}, {"x", "z"}}
ZTakes == {{"ore"}, {"x"}, {"y"}, {"x", "y"}}

Book(a, b, c, d, e) ==
  <<R("X", <<<<"x", 1>>>>, One(a), 2), Alt(R("XAlt", <<<<"x", 1>>>>, One(b), 4)),
    R("Y", <<<<"y", 1>>>>, One(c), 2), Alt(R("YAlt", <<<<"y", 1>>>>, One(d), 4)),
    R("Z", <<<<"z", 1>>>>, One(e), 2)>>

Family ==
  {[Base EXCEPT !.book = Book(a, b, c, d, e), !.alts = alts,
                !.pins = IF alts THEN <<>> ELSE [i \in {"x"} |-> "X"],
                !.goals = <<<<"y", 2>>, <<"x", 4>>>>] :
     a \in XTakes, b \in XTakes, c \in YTakes, d \in YTakes, e \in ZTakes, alts \in BOOLEAN}

\* y is made from x, and x, if at all, only by a locked alternate.
Locked ==
  {[Base EXCEPT !.book = <<Alt(R("XAlt", <<<<"x", 1>>>>, <<<<t, 1>>>>, 2)), R("Y", <<<<"y", 1>>>>, <<<<"x", 1>>>>, 2)>>,
                !.goals = <<<<g, 4>>>>, !.pins = pins] :
     t \in {"ore", "y"}, g \in {"x", "y"}, pins \in {<<>>, [i \in {"x"} |-> "XAlt"], [i \in {"x"} |-> "Y"]}}

-----------------------------------------------------------------------------
(* Surplus, consumers and power: x takes plates, and screws made of plates. *)

Works == [Base EXCEPT
  !.book = <<R("X", <<<<"x", 1>>>>, <<<<"plate", 1>>, <<"screw", 1>>>>, 2),
             [R("Plate", <<<<"plate", 1>>>>, <<<<"ore", 1>>>>, 3) EXCEPT !.mw = 4],
             R("Screw", <<<<"screw", 2>>>>, <<<<"plate", 2>>>>, 2)>>]

Spare(port, item, rate, planned) == [port |-> port, item |-> item, rate |-> rate, planned |-> planned]

Supplied ==
  {[Works EXCEPT !.spare = <<Spare("p1", "plate", 3, b1), Spare("p2", "plate", r, b2),
                             Spare("p3", item, 2, TRUE)>>,
                 !.wants = wants, !.grid = grid, !.goals = goals, !.surplusFirst = first] :
     b1 \in BOOLEAN, b2 \in BOOLEAN, r \in {1, 5, 9}, item \in {"ore", "x", "screw"}, first \in BOOLEAN,
     wants \in {<<>>, <<[port |-> "w1", item |-> "plate"], [port |-> "w2", item |-> "x"]>>},
     grid \in {None, "gen"}, goals \in {<<<<"x", 4>>>>, <<<<"x", 4>>, <<"plate", 2>>>>}}

Replacing ==
  {ReplacementOf([Works EXCEPT !.spare = <<Spare("p1", "plate", 3, TRUE)>>], outs, pin) :
     outs \in {<<<<"x", 2>>, <<"power", 9>>, <<"x", 2>>>>, <<<<"screw", 4>>, <<"x", 2>>>>},
     pin \in {None, "Screw", "X"}}

-----------------------------------------------------------------------------
(* Claims: x takes two ores; nodes of three purities, some taken. *)

Mined ==
  {[Base EXCEPT
      !.book = <<R("X", <<<<"x", 1>>>>, <<<<"ore", 2>>, <<"coal", 1>>>>, 2)>>,
      !.nodes = <<Node("o1", "ore", 2), Node("c1", "coal", 2), Node("o2", "ore", 4), Node("o3", "ore", 1),
                  Node("o4", "ore", 4), Node("c2", "coal", 1)>>,
      !.goals = goals, !.claimed = claimed, !.budget = budget, !.floor = floor] :
     goals \in {<<<<"x", 2>>>>, <<<<"x", 3>>>>, <<<<"ore", 3>>>>}, claimed \in SUBSET {"o2", "o4", "c1"},
     budget \in 0..5, floor \in {1, 2, 4}}

-----------------------------------------------------------------------------
(* By-products, unclaimable resources, generators *)

Refinery ==
  {[Base EXCEPT
      !.book = <<R("Pump", <<<<"water", 1>>>>, <<>>, 2),
                 R("X", <<<<"x", 2>>, <<"residue", 1>>>>, <<<<"ore", 4>>, <<"water", 2>>>>, 2),
                 R("Y", <<<<"y", 1>>>>, <<<<ing, 1>>, <<"well", 1>>>>, 2)>>,
      !.goals = goals] :
     ing \in {"residue", "ore"},
     goals \in {<<<<"x", 4>>>>, <<<<"y", 2>>>>, <<<<"y", 2>>, <<"x", 4>>>>, <<<<"well", 2>>>>, <<<<"water", 2>>>>,
                <<<<"x", 4>>, <<"residue", 2>>>>, <<<<"waste", 1>>>>}}

Plant ==
  {[Base EXCEPT
      !.book = <<R("Burn", <<<<"power", 4>>, <<"waste", 1>>>>, <<<<"x", 1>>, <<"water", 2>>>>, 1),
                 R("X", <<<<"x", 1>>>>, <<<<"ore", 1>>>>, 2),
                 R("Z", <<<<"z", 1>>>>, <<<<"waste", 1>>>>, 2)>>,
      !.goals = goals, !.pins = pins, !.grid = "gen"] :
     goals \in {<<<<"power", 8>>>>, <<<<"power", 4>>, <<"x", 1>>>>, <<<<"z", 2>>>>},
     pins \in {<<>>, [i \in {"power"} |-> "Burn"]}}

MCCases == Family \cup Locked \cup Supplied \cup Replacing \cup Mined \cup Refinery \cup Plant
=============================================================================
