---------------------------- MODULE MCPlanSession ----------------------------
(***************************************************************************)
(* PlanSession on small plans.  Three kinds of journal are explored, and    *)
(* every prefix of each: one entry under changing preferences, two entries  *)
(* of which one is wide, and three narrow ones of which one may be damaged. *)
(* The other set of paths holds a factory and the build override of its     *)
(* build step, which carries the factory's id.                              *)
(***************************************************************************)
EXTENDS PlanSession

CONSTANTS f1, v1, v2

DistinctPaths == {<<"factories", f1>>, <<"meta", "name">>}

StepPaths == DistinctPaths \cup {<<"buildOverrides", f1>>}

NamePath == <<"meta", "name">>

Journals == {mem.entries, disk.journal}

Undamaged == \A j \in Journals : \A i \in DOMAIN j : ~j[i].damaged

DefaultPrefs == mem.prefs = NoPref /\ disk.prefs = NoPref

\* One entry of up to two ops, under any preferences.
Tuned ==
  /\ Undamaged
  /\ \A j \in Journals : Len(j) <= 1

\* Two entries, one of up to two ops.
Wide ==
  /\ DefaultPrefs
  /\ Undamaged
  /\ \A j \in Journals :
       /\ Len(j) <= 2
       /\ \E k \in 1..2 : \A i \in DOMAIN j \ {k} : Len(j[i].forward) <= 1

\* Three entries of one op each, one of which may be damaged.
Long ==
  /\ DefaultPrefs
  /\ \A j \in Journals : \A i \in DOMAIN j : Len(j[i].forward) = 1

Explored == Tuned \/ Wide \/ Long
==============================================================================
