---------------------------- MODULE MCDriftReview ----------------------------
(***************************************************************************)
(* DriftReview on one or two sites and a handful of saves of one game: a   *)
(* smelter bank and a generator that is refuelled, idle, overclocked past  *)
(* the cap, extended and demolished.                                       *)
(***************************************************************************)
EXTENDS DriftReview

Bunch(m, r, n, c) == [machine |-> m, recipe |-> r, count |-> n, clock |-> c]

One(c)     == [s \in Site |-> IF s = "home" THEN c ELSE <<>>]
Both(c, d) == [s \in Site |-> IF s = "home" THEN c ELSE d]

\* Smelters at two sizes and clocks, at most one of them past the cap.
Bank(n, c) == Bunch("smelter", 1, n, c)

Start     == One(<<Bunch("generator", 1, 1, 100), Bank(2, 100)>>)
Refuelled == One(<<Bunch("generator", 2, 2, 100), Bank(2, 300)>>)
Torn      == One(<<Bunch("generator", 2, 1, 100)>>)

HomeBank == One(<<Bank(2, 100)>>)
Moved    == Both(<<>>, <<Bank(1, 100)>>)
Grown    == Both(<<Bank(3, 100)>>, <<Bank(1, 100)>>)

ReviewSaves == {Start, Refuelled, Torn}
SiteSaves   == {HomeBank, Moved, Grown}

------------------------------------------------------------------------------
(* One run takes both sets of saves and bounds each in its own way: a state  *)
(* is looked into further if it is within one of the two.                    *)

AllSaves == ReviewSaves \cup SiteSaves

Nowhere == [s \in Site |-> <<>>]
Saved   == {newest.save} \cup
           UNION {{hist[v].diffs[p].save : p \in DOMAIN hist[v].diffs} : v \in DOMAIN hist}
Groups  == UNION {UNION {Range(hist[v].built[s]) : s \in DOMAIN hist[v].built} : v \in DOMAIN hist}

\* A long review of one diff of a site whose generators change: the user has
\* edited one bank at most, in count, in clock or in both.
InReview ==
  /\ lost = 0 /\ drafted <= 1 /\ Saved \subseteq ReviewSaves \cup {Nowhere}
  /\ \A g \in Groups : ~g.planned /\ g.mineCount # 2
  /\ \A v \in DOMAIN hist : \A s \in DOMAIN hist[v].built :
       Cardinality({g \in Range(hist[v].built[s]) : g.mineCount + g.mineClock > 0}) <= 1

\* Several diffs over two sites that come and go, next to planned groups,
\* while a write of the last-import record may be lost.
InGate ==
  /\ Len(hist) <= 4 /\ Saved \subseteq SiteSaves \cup {Nowhere}
  /\ \A g \in Groups :
       /\ g.mineClock = Unedited /\ g.mineCount # 3
       /\ g.planned => g.machine = "smelter" /\ g.recipe = 1 /\ g.count = 2

Within == InReview \/ InGate
==============================================================================
