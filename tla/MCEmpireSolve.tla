---------------------------- MODULE MCEmpireSolve ----------------------------
(***************************************************************************)
(* An empire of three factories: a smelter with two like groups, one of    *)
(* them fed with water too, a press, and a plant with two separate lines,  *)
(* one of which shares a splitter of coal with a generator.  Ingots may go *)
(* to the press, and its slurry back to the smelter, which makes a cycle.  *)
(***************************************************************************)
EXTENDS EmpireSolve

Graph ==  \* belt, from, to, item
  {<<"b1", "ore", "s1", "ore">>, <<"b2", "ore", "s2", "ore">>, <<"b3", "water", "s2", "water">>,
   <<"b4", "s1", "ingot", "ingot">>, <<"b5", "s2", "ingot", "ingot">>,
   <<"b6", "bars", "c1", "ingot">>, <<"b7", "c1", "slurry", "water">>,
   <<"b8", "clay", "d1", "clay">>, <<"b9", "d1", "brick", "brick">>,
   <<"c0b", "coal", "split", "coal">>, <<"c1b", "split", "gen", "coal">>, <<"c2b", "split", "k1", "coal">>, <<"c3b", "k1", "coke", "coke">>}

At(S, f) == [x \in S |-> f]

MCFactory  == {"smelter", "press", "plant"}
MCGroup    == {"s1", "s2", "c1", "d1", "gen", "k1"}
MCInPort   == {"ore", "water", "bars", "clay", "coal"}
MCOutPort  == {"ingot", "slurry", "brick", "coke"}
MCBelt     == {e[1] : e \in Graph}
MCItem     == {e[4] : e \in Graph}
MCSite     == At({"s1", "s2", "ore", "water", "ingot", "b1", "b2", "b3", "b4", "b5"}, "smelter")
              @@ At({"c1", "bars", "slurry", "b6", "b7"}, "press")
              @@ At({"gen", "k1", "coal", "coke", "split", "c0b", "c1b", "c2b", "c3b",
                     "d1", "clay", "brick", "b8", "b9"}, "plant")
Field(b, k) == (CHOOSE e \in Graph : e[1] = b)[k]
MCSrc      == [b \in MCBelt |-> Field(b, 2)]
MCDst      == [b \in MCBelt |-> Field(b, 3)]
MCCargo    == [b \in MCBelt |-> Field(b, 4)]
Rate(S)    == [i \in MCItem |-> IF i \in S THEN 1 ELSE 0]
MCInRate   == [s1 |-> Rate({"ore"}), s2 |-> Rate({"ore", "water"}), c1 |-> Rate({"ingot"}),
               d1 |-> Rate({"clay"}), gen |-> Rate({"coal"}), k1 |-> Rate({"coal"})]
MCOutRate  == [s1 |-> Rate({"ingot"}), s2 |-> Rate({"ingot"}), c1 |-> Rate({"water"}),
               d1 |-> Rate({"brick"}), gen |-> Rate({}), k1 |-> Rate({"coke"})]
MCKin      == [s1 |-> "smelt", s2 |-> "smelt", c1 |-> "press", d1 |-> "fire", gen |-> "burn", k1 |-> "coke"]
MCBeltOrder == <<"b1", "b2", "b3", "b4", "b5", "b6", "b7", "b8", "b9", "c0b", "c1b", "c2b", "c3b">>
MCPortOrder == <<"water", "ore", "bars", "clay", "coal">>
MCFactoryOrder == <<"press", "plant", "smelter">>
MCRouteSrc == [bars |-> "ingot", loop |-> "slurry"]
MCRouteDst == [bars |-> "bars", loop |-> "water"]
MCRouteCap == [bars |-> 3, loop |-> 1]

MCCeilings == {None, 1}

MCInitPlan ==
  [count    |-> [g \in MCGroup |-> IF g = "d1" THEN 2 ELSE 1],
   clock    |-> [g \in MCGroup |-> Whole],
   authored |-> [g \in MCGroup |-> None],
   dcount   |-> [g \in MCGroup |-> None], dclock |-> [g \in MCGroup |-> None],
   rate     |-> [ingot |-> 2, slurry |-> 1, brick |-> 2, coke |-> 1],
   ceil     |-> [p \in MCInPort |-> IF p = "coal" THEN 3 ELSE None],
   cap      |-> [b \in MCBelt |-> 3],
   routes   |-> {"bars"}, carried |-> [bars |-> 1, loop |-> 0]]
==============================================================================
