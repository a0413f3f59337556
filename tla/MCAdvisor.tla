----------------------------- MODULE MCAdvisor -----------------------------
(* Small instances of Advisor: four factories, a plant p generating. *)
EXTENDS Advisor

MCFactoryOrder == <<"a", "b", "c", "p">>

Map(lines, switches, gen, draw, rest) ==
  [lines |-> lines, switches |-> switches, gen |-> gen, draw |-> draw,
   doubled |-> rest[1], short |-> rest[2], full |-> rest[3], drift |-> rest[4]]

Mw(a, b, c, p) == [f \in {"a", "b", "c", "p"} |->
                     CASE f = "a" -> a [] f = "b" -> b [] f = "c" -> c [] f = "p" -> p]
Sw(l, pri) == [line |-> l, priority |-> pri]
Short(f, r) == [factory |-> f, route |-> r]
Quiet == <<<<>>, <<>>, <<>>, <<>>>>

Nothing == Map(<<>>, {}, Mw(0, 0, 0, 0), Mw(0, 0, 0, 0), Quiet)

\* Two starved factories, one of them through a full route; no power yet.
Starved == Map(<<>>, {}, Mw(0, 0, 0, 0), Mw(5, 5, 0, 0),
                 <<<<>>, <<Short("a", "r1"), Short("b", "r2")>>, <<"r1", "r3">>, <<>>>>)

\* A thin grid fed by p, closed to a ring, with c off it in the dark.
Thin == Map(<< <<"a", "b">>, <<"p", "a">>, <<"b", "p">> >>, {Sw(2, 3)},
              Mw(0, 0, 0, 20), Mw(9, 9, 4, 0),
              <<<<>>, <<Short("b", "r2")>>, <<>>, <<"d1">>>>)

\* A tree of lines written from both ends, two switches, all within margin,
\* and a node claimed twice.
Tree == Map(<< <<"a", "p">>, <<"a", "b">>, <<"c", "a">> >>, {Sw(2, 8), Sw(3, 2)},
              Mw(0, 0, 0, 50), Mw(9, 9, 4, 0),
              <<<<"n1", "n2">>, <<>>, <<"r1">>, <<>>>>)

MCScenes == {"starved", "thin", "tree"}

\* Scenes under which ToldOnce fails (see the README): a grid overdrawn, alone
\* and beside another that comes before it.
TwoGrids == Map(<< <<"a", "b">>, <<"c", "p">> >>, {}, Mw(9, 0, 0, 9), Mw(0, 1, 9, 0), Quiet)
OneGrid  == Map(<< <<"c", "p">> >>, {}, Mw(9, 0, 0, 9), Mw(0, 0, 9, 0), Quiet)
MCRenaming == {"two", "one"}

MCScene == [s \in {"blank", "starved", "thin", "tree", "two", "one"} |->
              CASE s = "blank" -> Nothing [] s = "starved" -> Starved [] s = "thin" -> Thin
                [] s = "tree" -> Tree [] s = "two" -> TwoGrids [] s = "one" -> OneGrid]
=============================================================================
