-------------------------- MODULE PlanGraph_proofs --------------------------
(***************************************************************************)
(* Proofs about a plan, in three parts.  The wiring: what factories own,   *)
(* what belts join, what junctions carry, and the built layer's place in   *)
(* it.  Then what a plan keeps copies of: routes and the ports bound to    *)
(* them, the pins that lines and switches are drawn at, themes,            *)
(* replacements and build overrides; and what edits may do to the built    *)
(* layer and imports to routes.  And where the belts of an expanded bank   *)
(* lead.  The invariants are predicates on plans, so that a cascade, which *)
(* is an operator on plans, can be followed by another.                    *)
(***************************************************************************)
EXTENDS PlanGraph, FiniteSetTheorems, NaturalsInduction, WellFoundedInduction, TLAPS

------------------------------------------------------------------------------
(* Wiring *)

(* The fields of a plan and of its entities.                               *)
FactoryFields  == {"groups", "ports", "claims", "at", "guide", "replaces", "built"}
GroupFields    == {"factory", "recipe", "count", "mine", "built"}
PortFields     == {"factory", "dir", "item", "route", "built"}
JunctionFields == {"factory", "kind"}
EdgeFields     == {"factory", "from", "to", "item", "built"}
ClaimFields    == {"factory", "node", "built"}
PlanFields     == Collection \cup {"guides", "marks"}

Shape(pl) ==
  /\ DOMAIN pl = PlanFields
  /\ \A f \in DOMAIN pl.factories :
       /\ DOMAIN pl.factories[f] = FactoryFields
       /\ pl.factories[f].built \in BOOLEAN
  /\ \A g \in DOMAIN pl.groups :
       /\ DOMAIN pl.groups[g] = GroupFields
       /\ pl.groups[g].built \in BOOLEAN
  /\ \A p \in DOMAIN pl.ports :
       /\ DOMAIN pl.ports[p] = PortFields
       /\ pl.ports[p].built \in BOOLEAN
  /\ \A j \in DOMAIN pl.junctions :
       /\ DOMAIN pl.junctions[j] = JunctionFields
       /\ pl.junctions[j].kind \in JunctionKind
  /\ \A e \in DOMAIN pl.edges :
       /\ DOMAIN pl.edges[e] = EdgeFields
       /\ pl.edges[e].built \in BOOLEAN
  /\ \A c \in DOMAIN pl.claims :
       /\ DOMAIN pl.claims[c] = ClaimFields
       /\ pl.claims[c].built \in BOOLEAN

(* No command after the m-th has issued an id yet.                         *)
Issued(pl, m) ==
  /\ \A f \in DOMAIN pl.factories : f[1] \in 1..m
  /\ \A g \in DOMAIN pl.groups : g[1] \in 1..m
  /\ \A p \in DOMAIN pl.ports : p[1] \in 1..m
  /\ \A j \in DOMAIN pl.junctions : j[1] \in 1..m
  /\ \A e \in DOMAIN pl.edges : e[1] \in 1..m
  /\ \A c \in DOMAIN pl.claims : c[1] \in 1..m

(* ListsMatch of a plan.                                                   *)
Lists(pl) ==
  /\ \A f \in DOMAIN pl.factories :
       /\ pl.factories[f].groups = {g \in DOMAIN pl.groups : pl.groups[g].factory = f}
       /\ pl.factories[f].ports = {p \in DOMAIN pl.ports : pl.ports[p].factory = f}
       /\ pl.factories[f].claims = {c \in DOMAIN pl.claims : pl.claims[c].factory = f}
  /\ \A g \in DOMAIN pl.groups : pl.groups[g].factory \in DOMAIN pl.factories
  /\ \A p \in DOMAIN pl.ports : pl.ports[p].factory \in DOMAIN pl.factories
  /\ \A c \in DOMAIN pl.claims : pl.claims[c].factory \in DOMAIN pl.factories
  /\ \A j \in DOMAIN pl.junctions : pl.junctions[j].factory \in DOMAIN pl.factories
  /\ \A e \in DOMAIN pl.edges : pl.edges[e].factory \in DOMAIN pl.factories

(* BeltsJoin of a plan.                                                    *)
IsEnd(pl, end, f) ==
  \/ \E g \in DOMAIN pl.groups : end = GroupEnd(g) /\ pl.groups[g].factory = f
  \/ \E p \in DOMAIN pl.ports : end = PortEnd(p) /\ pl.ports[p].factory = f
  \/ \E j \in DOMAIN pl.junctions : end = JunctionEnd(j) /\ pl.junctions[j].factory = f

Joined(pl) ==
  \A e \in DOMAIN pl.edges :
    /\ IsEnd(pl, pl.edges[e].from, pl.edges[e].factory)
    /\ IsEnd(pl, pl.edges[e].to, pl.edges[e].factory)

(* JunctionBudgets at one junction of a plan; what counts is finite.       *)
Budget(pl, j) ==
  LET kind == pl.junctions[j].kind
      into == Into(pl, JunctionEnd(j))
      out  == OutOf(pl, JunctionEnd(j))
  IN  /\ IsFiniteSet(into) /\ IsFiniteSet(out)
      /\ Cardinality(into) <= Inputs[kind]
      /\ Cardinality(out) <= Outputs[kind]
      /\ kind = "pipe" => Cardinality(into \cup out) <= PipePorts
      /\ kind # "smart" => \A d, e \in into \cup out : pl.edges[d].item = pl.edges[e].item
      /\ \A e \in into \cup out : (kind = "pipe") = (pl.edges[e].item \in Fluid)

Budgets(pl) == \A j \in DOMAIN pl.junctions : Budget(pl, j)

(* What the save wrote belongs to a factory it wrote, a belt it wrote joins
   two things it wrote, and no belt of the user's runs back to its start.  *)
IsBuiltEnd(pl, end) ==
  \/ \E g \in DOMAIN pl.groups : end = GroupEnd(g) /\ pl.groups[g].built
  \/ \E p \in DOMAIN pl.ports : end = PortEnd(p) /\ pl.ports[p].built

Layered(pl) ==
  /\ \A g \in DOMAIN pl.groups : pl.groups[g].built => pl.factories[pl.groups[g].factory].built
  /\ \A p \in DOMAIN pl.ports : pl.ports[p].built => pl.factories[pl.ports[p].factory].built
  /\ \A c \in DOMAIN pl.claims : pl.claims[c].built => pl.factories[pl.claims[c].factory].built
  /\ \A e \in DOMAIN pl.edges :
       IF pl.edges[e].built
       THEN /\ pl.factories[pl.edges[e].factory].built
            /\ IsBuiltEnd(pl, pl.edges[e].from) /\ IsBuiltEnd(pl, pl.edges[e].to)
       ELSE pl.edges[e].from # pl.edges[e].to

(* NoTwins of a plan.                                                      *)
Single(pl) ==
  /\ \A p, q \in DOMAIN pl.ports :
       /\ pl.ports[p].built /\ pl.ports[q].built
       /\ pl.ports[p].factory = pl.ports[q].factory
       /\ pl.ports[p].item = pl.ports[q].item
       /\ pl.ports[p].dir = pl.ports[q].dir
       => p = q
  /\ \A d, e \in DOMAIN pl.edges :
       pl.edges[d].built /\ pl.edges[d] = pl.edges[e] => d = e

Wired(pl, m) ==
  Shape(pl) /\ Issued(pl, m) /\ Lists(pl) /\ Joined(pl) /\ Budgets(pl) /\ Layered(pl) /\ Single(pl)

Inv == made \in Nat /\ scene \in Scenes /\ Wired(plan, made)

------------------------------------------------------------------------------
(* Plans that differ by what was taken away, or by what was added          *)

(* q has nothing that pl has not; what stays looks the same, its owner and
   the ends of its belts stay with it, and the lists follow.               *)
SamePort(pl, q, p) ==
  /\ DOMAIN q.ports[p] = DOMAIN pl.ports[p]
  /\ q.ports[p].factory = pl.ports[p].factory
  /\ q.ports[p].dir = pl.ports[p].dir
  /\ q.ports[p].item = pl.ports[p].item
  /\ q.ports[p].built = pl.ports[p].built

LessLists(pl, q) ==
  \A f \in DOMAIN q.factories :
    /\ f \in DOMAIN pl.factories
    /\ q.factories[f].built = pl.factories[f].built
    /\ q.factories[f].groups = pl.factories[f].groups \cap DOMAIN q.groups
    /\ q.factories[f].ports = pl.factories[f].ports \cap DOMAIN q.ports
    /\ q.factories[f].claims = pl.factories[f].claims \cap DOMAIN q.claims

LessParts(pl, q) ==
  /\ \A g \in DOMAIN q.groups :
       /\ g \in DOMAIN pl.groups
       /\ q.groups[g].factory = pl.groups[g].factory
       /\ q.groups[g].built = pl.groups[g].built
       /\ q.groups[g].factory \in DOMAIN q.factories
  /\ \A p \in DOMAIN q.ports :
       /\ p \in DOMAIN pl.ports
       /\ SamePort(pl, q, p)
       /\ q.ports[p].factory \in DOMAIN q.factories
  /\ \A j \in DOMAIN q.junctions :
       /\ j \in DOMAIN pl.junctions
       /\ q.junctions[j] = pl.junctions[j]
       /\ q.junctions[j].factory \in DOMAIN q.factories
  /\ \A c \in DOMAIN q.claims :
       /\ c \in DOMAIN pl.claims
       /\ q.claims[c].factory = pl.claims[c].factory
       /\ q.claims[c].built => pl.claims[c].built
       /\ q.claims[c].factory \in DOMAIN q.factories

LessBelts(pl, q) ==
  \A e \in DOMAIN q.edges :
    /\ e \in DOMAIN pl.edges
    /\ q.edges[e] = pl.edges[e]
    /\ q.edges[e].factory \in DOMAIN q.factories
    /\ \A g \in DOMAIN pl.groups :
         GroupEnd(g) \in {pl.edges[e].from, pl.edges[e].to} => g \in DOMAIN q.groups
    /\ \A p \in DOMAIN pl.ports :
         PortEnd(p) \in {pl.edges[e].from, pl.edges[e].to} => p \in DOMAIN q.ports
    /\ \A j \in DOMAIN pl.junctions :
         JunctionEnd(j) \in {pl.edges[e].from, pl.edges[e].to} => j \in DOMAIN q.junctions

Less(pl, q) == Shape(q) /\ LessLists(pl, q) /\ LessParts(pl, q) /\ LessBelts(pl, q)

(* q has all that pl has, looking the same; what is new is listed by its
   owner, belts join things that are there, and a junction that gains a belt
   has room for it.                                                        *)
MoreKept(pl, q) ==
  /\ \A f \in DOMAIN pl.factories :
       f \in DOMAIN q.factories /\ q.factories[f].built = pl.factories[f].built
  /\ \A g \in DOMAIN pl.groups :
       /\ g \in DOMAIN q.groups
       /\ q.groups[g].factory = pl.groups[g].factory
       /\ q.groups[g].built = pl.groups[g].built
  /\ \A p \in DOMAIN pl.ports : p \in DOMAIN q.ports /\ SamePort(pl, q, p)
  /\ \A j \in DOMAIN pl.junctions : j \in DOMAIN q.junctions /\ q.junctions[j] = pl.junctions[j]
  /\ \A c \in DOMAIN pl.claims : c \in DOMAIN q.claims /\ q.claims[c] = pl.claims[c]
  /\ \A e \in DOMAIN pl.edges : e \in DOMAIN q.edges /\ q.edges[e] = pl.edges[e]

MoreLists(pl, q) ==
  \A f \in DOMAIN q.factories :
    /\ \A g : g \in q.factories[f].groups <=>
                 \/ f \in DOMAIN pl.factories /\ g \in pl.factories[f].groups
                 \/ g \in DOMAIN q.groups \ DOMAIN pl.groups /\ q.groups[g].factory = f
    /\ \A p : p \in q.factories[f].ports <=>
                 \/ f \in DOMAIN pl.factories /\ p \in pl.factories[f].ports
                 \/ p \in DOMAIN q.ports \ DOMAIN pl.ports /\ q.ports[p].factory = f
    /\ \A c : c \in q.factories[f].claims <=>
                 \/ f \in DOMAIN pl.factories /\ c \in pl.factories[f].claims
                 \/ c \in DOMAIN q.claims \ DOMAIN pl.claims /\ q.claims[c].factory = f

MoreParts(pl, q) ==
  /\ \A g \in DOMAIN q.groups \ DOMAIN pl.groups :
       /\ q.groups[g].factory \in DOMAIN q.factories
       /\ q.groups[g].built => q.factories[q.groups[g].factory].built
  /\ \A p \in DOMAIN q.ports \ DOMAIN pl.ports :
       /\ q.ports[p].factory \in DOMAIN q.factories
       /\ q.ports[p].built => q.factories[q.ports[p].factory].built
       /\ q.ports[p].built =>
            \A r \in DOMAIN q.ports :
              /\ q.ports[r].built
              /\ q.ports[r].factory = q.ports[p].factory
              /\ q.ports[r].item = q.ports[p].item
              /\ q.ports[r].dir = q.ports[p].dir
              => r = p
  /\ \A c \in DOMAIN q.claims \ DOMAIN pl.claims :
       /\ q.claims[c].factory \in DOMAIN q.factories
       /\ q.claims[c].built => q.factories[q.claims[c].factory].built
  /\ \A j \in DOMAIN q.junctions \ DOMAIN pl.junctions :
       q.junctions[j].factory \in DOMAIN q.factories

MoreBelts(pl, q) ==
  \A e \in DOMAIN q.edges \ DOMAIN pl.edges :
    /\ q.edges[e].factory \in DOMAIN q.factories
    /\ IsEnd(q, q.edges[e].from, q.edges[e].factory) /\ IsEnd(q, q.edges[e].to, q.edges[e].factory)
    /\ IF q.edges[e].built
       THEN /\ q.factories[q.edges[e].factory].built
            /\ IsBuiltEnd(q, q.edges[e].from) /\ IsBuiltEnd(q, q.edges[e].to)
            /\ \A d \in DOMAIN q.edges : q.edges[d] = q.edges[e] => d = e
       ELSE q.edges[e].from # q.edges[e].to

MoreRoom(pl, q) ==
  \A j \in DOMAIN q.junctions :
    \/ /\ j \in DOMAIN pl.junctions
       /\ \A e \in DOMAIN q.edges \ DOMAIN pl.edges :
            JunctionEnd(j) \notin {q.edges[e].from, q.edges[e].to}
    \/ Budget(q, j)

More(pl, q) ==
  /\ Shape(q)
  /\ MoreKept(pl, q) /\ MoreLists(pl, q) /\ MoreParts(pl, q)
  /\ MoreBelts(pl, q) /\ MoreRoom(pl, q)

(* A junction keeps its budget while no belt comes to it.                  *)
LEMMA BudgetAt ==
  ASSUME NEW pl, NEW q, NEW j, Budget(pl, j),
         pl.junctions[j].kind \in JunctionKind,
         q.junctions[j].kind = pl.junctions[j].kind,
         Into(q, JunctionEnd(j)) \subseteq Into(pl, JunctionEnd(j)),
         OutOf(q, JunctionEnd(j)) \subseteq OutOf(pl, JunctionEnd(j)),
         \A e \in Touching(q, JunctionEnd(j)) : q.edges[e].item = pl.edges[e].item
  PROVE  Budget(q, j)
<1> DEFINE kind == pl.junctions[j].kind
           into == Into(pl, JunctionEnd(j))
           out  == OutOf(pl, JunctionEnd(j))
           in2  == Into(q, JunctionEnd(j))
           out2 == OutOf(q, JunctionEnd(j))
<1>1. IsFiniteSet(into) /\ IsFiniteSet(out)
  BY DEF Budget
<1>2. IsFiniteSet(into \cup out)
  BY <1>1, FS_Union
<1>3. /\ IsFiniteSet(in2) /\ Cardinality(in2) <= Cardinality(into)
      /\ IsFiniteSet(out2) /\ Cardinality(out2) <= Cardinality(out)
      /\ IsFiniteSet(in2 \cup out2) /\ Cardinality(in2 \cup out2) <= Cardinality(into \cup out)
  <2>1. in2 \in SUBSET into /\ out2 \in SUBSET out /\ in2 \cup out2 \in SUBSET (into \cup out)
    OBVIOUS
  <2>2. QED
    BY <1>1, <1>2, <2>1, FS_Subset
<1>4. /\ Cardinality(into) \in Nat /\ Cardinality(out) \in Nat /\ Cardinality(into \cup out) \in Nat
      /\ Cardinality(in2) \in Nat /\ Cardinality(out2) \in Nat /\ Cardinality(in2 \cup out2) \in Nat
  BY <1>1, <1>2, <1>3, FS_CardinalityType
<1>5. Inputs[kind] \in Nat /\ Outputs[kind] \in Nat
  BY DEF JunctionKind, Inputs, Outputs
<1>6. /\ Cardinality(into) <= Inputs[kind] /\ Cardinality(out) <= Outputs[kind]
      /\ kind = "pipe" => Cardinality(into \cup out) <= PipePorts
      /\ kind # "smart" => \A d, e \in into \cup out : pl.edges[d].item = pl.edges[e].item
      /\ \A e \in into \cup out : (kind = "pipe") = (pl.edges[e].item \in Fluid)
  BY DEF Budget
<1>7. \A e \in in2 \cup out2 : e \in into \cup out /\ q.edges[e].item = pl.edges[e].item
  BY DEF Touching
<1>8. Cardinality(in2) <= Inputs[kind] /\ Cardinality(out2) <= Outputs[kind]
  BY <1>3, <1>4, <1>5, <1>6
<1>9. kind = "pipe" => Cardinality(in2 \cup out2) <= PipePorts
  BY <1>3, <1>4, <1>6 DEF PipePorts
<1>10. /\ kind # "smart" => \A d, e \in in2 \cup out2 : q.edges[d].item = q.edges[e].item
       /\ \A e \in in2 \cup out2 : (kind = "pipe") = (q.edges[e].item \in Fluid)
  BY <1>6, <1>7
<1>11. QED
  BY <1>3, <1>8, <1>9, <1>10 DEF Budget

(* Taking away keeps the wiring.                                           *)
LEMMA LessWired ==
  ASSUME NEW pl, NEW q, NEW m, Wired(pl, m), Less(pl, q)
  PROVE  Wired(q, m)
<1> USE DEF Wired
<1>1. Shape(q) /\ Issued(q, m)
  BY DEF Less, LessLists, LessParts, LessBelts, SamePort, Issued
<1>2. Lists(q)
  BY DEF Less, LessLists, LessParts, LessBelts, SamePort, Lists
<1>3. Joined(q)
  BY DEF Less, LessLists, LessParts, LessBelts, SamePort, Joined, IsEnd
<1>4. Budgets(q)
  <2> SUFFICES ASSUME NEW j \in DOMAIN q.junctions
               PROVE  Budget(q, j)
    BY DEF Budgets
  <2>1. j \in DOMAIN pl.junctions /\ q.junctions[j] = pl.junctions[j] /\ Budget(pl, j)
    BY DEF Less, LessLists, LessParts, LessBelts, SamePort, Budgets
  <2>2. \A e \in DOMAIN q.edges : e \in DOMAIN pl.edges /\ q.edges[e] = pl.edges[e]
    BY DEF Less, LessLists, LessParts, LessBelts, SamePort
  <2>3. pl.junctions[j].kind \in JunctionKind
    BY <2>1 DEF Shape
  <2>4. /\ Into(q, JunctionEnd(j)) \subseteq Into(pl, JunctionEnd(j))
        /\ OutOf(q, JunctionEnd(j)) \subseteq OutOf(pl, JunctionEnd(j))
        /\ \A e \in Touching(q, JunctionEnd(j)) : q.edges[e].item = pl.edges[e].item
    BY <2>2 DEF Into, OutOf, Touching
  <2>5. QED
    BY <2>1, <2>3, <2>4, BudgetAt
<1>5. Layered(q)
  <2>1. \A g \in DOMAIN q.groups : q.groups[g].built => q.factories[q.groups[g].factory].built
    BY DEF Less, LessLists, LessParts, LessBelts, SamePort, Layered
  <2>2. \A p \in DOMAIN q.ports : q.ports[p].built => q.factories[q.ports[p].factory].built
    BY DEF Less, LessLists, LessParts, LessBelts, SamePort, Layered
  <2>3. \A c \in DOMAIN q.claims : q.claims[c].built => q.factories[q.claims[c].factory].built
    BY DEF Less, LessLists, LessParts, LessBelts, SamePort, Layered
  <2>4. ASSUME NEW e \in DOMAIN q.edges
        PROVE  IF q.edges[e].built
               THEN /\ q.factories[q.edges[e].factory].built
                    /\ IsBuiltEnd(q, q.edges[e].from) /\ IsBuiltEnd(q, q.edges[e].to)
               ELSE q.edges[e].from # q.edges[e].to
    <3>1. /\ e \in DOMAIN pl.edges /\ q.edges[e] = pl.edges[e]
          /\ q.edges[e].factory \in DOMAIN q.factories
          /\ \A f \in DOMAIN q.factories : q.factories[f].built = pl.factories[f].built
      BY DEF Less, LessLists, LessParts, LessBelts, SamePort
    <3>2. ASSUME NEW end \in {pl.edges[e].from, pl.edges[e].to}, IsBuiltEnd(pl, end)
          PROVE  IsBuiltEnd(q, end)
      BY <3>1, <3>2 DEF Less, LessLists, LessParts, LessBelts, SamePort, IsBuiltEnd
    <3>3. QED
      BY <3>1, <3>2 DEF Layered
  <2>5. QED
    BY <2>1, <2>2, <2>3, <2>4 DEF Layered
<1>6. Single(q)
  BY DEF Less, LessLists, LessParts, LessBelts, SamePort, Single
<1>7. QED
  BY <1>1, <1>2, <1>3, <1>4, <1>5, <1>6

(* Adding to a plan keeps its wiring.                                      *)
LEMMA MoreWired ==
  ASSUME NEW pl, NEW q, NEW m, Wired(pl, m), NEW k, Issued(q, k), More(pl, q)
  PROVE  Wired(q, k)
<1> USE DEF Wired
<1>1. Shape(q)
  BY DEF More, MoreKept, MoreLists, MoreParts, MoreBelts, MoreRoom, SamePort
<1>2. Lists(q)
  BY DEF More, MoreKept, MoreLists, MoreParts, MoreBelts, MoreRoom, SamePort, Lists
<1>3. Joined(q)
  BY DEF More, MoreKept, MoreLists, MoreParts, MoreBelts, MoreRoom, SamePort, Joined, IsEnd
<1>4. Budgets(q)
  <2> SUFFICES ASSUME NEW j \in DOMAIN q.junctions, ~Budget(q, j)
               PROVE  FALSE
    BY DEF Budgets
  <2>1. j \in DOMAIN pl.junctions /\ q.junctions[j] = pl.junctions[j] /\ Budget(pl, j)
    BY DEF More, MoreKept, MoreLists, MoreParts, MoreBelts, MoreRoom, SamePort, Budgets
  <2>2. \A e \in DOMAIN q.edges :
          \/ e \in DOMAIN pl.edges /\ q.edges[e] = pl.edges[e]
          \/ JunctionEnd(j) \notin {q.edges[e].from, q.edges[e].to}
    BY DEF More, MoreKept, MoreLists, MoreParts, MoreBelts, MoreRoom, SamePort
  <2>3. pl.junctions[j].kind \in JunctionKind
    BY <2>1 DEF Shape
  <2>4. /\ Into(q, JunctionEnd(j)) \subseteq Into(pl, JunctionEnd(j))
        /\ OutOf(q, JunctionEnd(j)) \subseteq OutOf(pl, JunctionEnd(j))
        /\ \A e \in Touching(q, JunctionEnd(j)) : q.edges[e].item = pl.edges[e].item
    BY <2>2 DEF Into, OutOf, Touching
  <2>5. QED
    BY <2>1, <2>3, <2>4, BudgetAt
<1>5. Layered(q)
  <2>1. \A g \in DOMAIN q.groups : q.groups[g].built => q.factories[q.groups[g].factory].built
    BY DEF More, MoreKept, MoreLists, MoreParts, MoreBelts, MoreRoom, SamePort, Layered, Lists
  <2>2. \A p \in DOMAIN q.ports : q.ports[p].built => q.factories[q.ports[p].factory].built
    BY DEF More, MoreKept, MoreLists, MoreParts, MoreBelts, MoreRoom, SamePort, Layered, Lists
  <2>3. \A c \in DOMAIN q.claims : q.claims[c].built => q.factories[q.claims[c].factory].built
    BY DEF More, MoreKept, MoreLists, MoreParts, MoreBelts, MoreRoom, SamePort, Layered, Lists
  <2>4. ASSUME NEW e \in DOMAIN q.edges
        PROVE  IF q.edges[e].built
               THEN /\ q.factories[q.edges[e].factory].built
                    /\ IsBuiltEnd(q, q.edges[e].from) /\ IsBuiltEnd(q, q.edges[e].to)
               ELSE q.edges[e].from # q.edges[e].to
    <3>1. CASE e \notin DOMAIN pl.edges
      BY <3>1 DEF More, MoreKept, MoreLists, MoreParts, MoreBelts, MoreRoom, SamePort
    <3>2. CASE e \in DOMAIN pl.edges
      <4>1. /\ q.edges[e] = pl.edges[e]
            /\ pl.edges[e].factory \in DOMAIN pl.factories
            /\ q.factories[pl.edges[e].factory].built = pl.factories[pl.edges[e].factory].built
        BY <3>2 DEF More, MoreKept, MoreLists, MoreParts, MoreBelts, MoreRoom, SamePort, Lists
      <4>2. ASSUME NEW end, IsBuiltEnd(pl, end)
            PROVE  IsBuiltEnd(q, end)
        BY <4>2 DEF More, MoreKept, MoreLists, MoreParts, MoreBelts, MoreRoom, SamePort, IsBuiltEnd
      <4>3. QED
        BY <3>2, <4>1, <4>2 DEF Layered
    <3>3. QED
      BY <3>1, <3>2
  <2>5. QED
    BY <2>1, <2>2, <2>3, <2>4 DEF Layered
<1>6. Single(q)
  BY DEF More, MoreKept, MoreLists, MoreParts, MoreBelts, MoreRoom, SamePort, Single
<1>7. QED
  BY <1>1, <1>2, <1>3, <1>4, <1>5, <1>6

(* Ids issued by a version of the plan stay issued. *)
LEMMA IssuedLater ==
  ASSUME NEW pl, NEW m \in Nat, NEW k \in Nat, m <= k, Issued(pl, m)
  PROVE  Issued(pl, k)
  BY DEF Issued

------------------------------------------------------------------------------
(* Cascades *)

(* Removing routes changes routes, switches, marks and port bindings only. *)
Unrouted(pl, q) ==
  /\ DOMAIN q = DOMAIN pl
  /\ q.factories = pl.factories /\ q.groups = pl.groups
  /\ q.junctions = pl.junctions /\ q.edges = pl.edges /\ q.claims = pl.claims
  /\ q.guides = pl.guides
  /\ DOMAIN q.ports = DOMAIN pl.ports
  /\ \A p \in DOMAIN pl.ports : SamePort(pl, q, p)

(* remove_routes leaves factories, groups, junctions, belts and claims alone. *)
LEMMA RemoveRoutesFields ==
  ASSUME NEW pl, Shape(pl), NEW rs
  PROVE  Unrouted(pl, RemoveRoutes(pl, rs))
<1> DEFINE bound(p) == /\ pl.ports[p].route \in rs \cap DOMAIN pl.routes
                       /\ p \in Range(pl.routes[pl.ports[p].route].ends)
           ports == [p \in DOMAIN pl.ports |->
                       IF bound(p) THEN [pl.ports[p] EXCEPT !.route = None] ELSE pl.ports[p]]
           q == RemoveRoutes(pl, rs)
<1>1. /\ DOMAIN q = DOMAIN pl
      /\ q.factories = pl.factories /\ q.groups = pl.groups
      /\ q.junctions = pl.junctions /\ q.edges = pl.edges /\ q.claims = pl.claims
      /\ q.guides = pl.guides
      /\ q.ports = ports
  BY DEF RemoveRoutes, Shape, PlanFields, Collection
<1>2. ASSUME NEW p \in DOMAIN pl.ports
      PROVE  /\ DOMAIN ports[p] = DOMAIN pl.ports[p]
             /\ ports[p].factory = pl.ports[p].factory
             /\ ports[p].dir = pl.ports[p].dir
             /\ ports[p].item = pl.ports[p].item
             /\ ports[p].built = pl.ports[p].built
  <2>1. DOMAIN pl.ports[p] = PortFields
    BY DEF Shape
  <2> HIDE DEF bound
  <2>2. QED
    BY <2>1 DEF PortFields
<1>3. QED
  BY <1>1, <1>2 DEF Unrouted, SamePort

(* remove_routes only takes away. *)
LEMMA RemoveRoutesLess ==
  ASSUME NEW pl, NEW m, Wired(pl, m), NEW rs
  PROVE  Less(pl, RemoveRoutes(pl, rs))
<1>0. Shape(pl) /\ Lists(pl) /\ Joined(pl) /\ DOMAIN pl = PlanFields
  BY DEF Wired, Shape
<1> DEFINE q == RemoveRoutes(pl, rs)
<1>1. /\ DOMAIN q = DOMAIN pl
      /\ q.factories = pl.factories /\ q.groups = pl.groups
      /\ q.junctions = pl.junctions /\ q.edges = pl.edges /\ q.claims = pl.claims
      /\ DOMAIN q.ports = DOMAIN pl.ports
      /\ \A p \in DOMAIN pl.ports :
           SamePort(pl, q, p)
  BY <1>0, RemoveRoutesFields DEF Unrouted
<1> HIDE DEF q
<1>2. Shape(q)
  BY <1>0, <1>1 DEF Shape, SamePort
<1>3. LessLists(pl, q)
  BY <1>0, <1>1, <1>2 DEF LessLists, Lists
<1>4. LessParts(pl, q)
  BY <1>0, <1>1, <1>2 DEF LessParts, Lists, SamePort
<1>5. LessBelts(pl, q)
  BY <1>0, <1>1, <1>2 DEF LessBelts, Lists
<1>6. QED
  BY <1>3, <1>4, <1>5, <1>0, <1>1, <1>2 DEF Less, q

(* Removing a machine group and its belts only takes away. *)
LEMMA RemoveGroupLess ==
  ASSUME NEW pl, NEW m, Wired(pl, m), NEW g \in DOMAIN pl.groups
  PROVE  Less(pl, RemoveGroup(pl, g))
<1>0. Shape(pl) /\ Lists(pl) /\ Joined(pl) /\ DOMAIN pl = PlanFields
  BY DEF Wired, Shape
<1> DEFINE q == RemoveGroup(pl, g)
           f == pl.groups[g].factory
<1>1. /\ DOMAIN q = DOMAIN pl
      /\ q.edges = Drop(pl.edges, Touching(pl, GroupEnd(g)))
      /\ DOMAIN q.factories = DOMAIN pl.factories
      /\ \A x \in DOMAIN pl.factories : x # f => q.factories[x] = pl.factories[x]
      /\ f \in DOMAIN pl.factories =>
           q.factories[f] = [pl.factories[f] EXCEPT !.groups = pl.factories[f].groups \ {g}]
      /\ q.groups = Drop(pl.groups, {g})
      /\ q.ports = pl.ports /\ q.junctions = pl.junctions /\ q.claims = pl.claims
  BY <1>0 DEF RemoveGroup, PlanFields, Collection
<1> HIDE DEF q
<1>2. /\ DOMAIN q.factories = DOMAIN pl.factories
      /\ \A x \in DOMAIN pl.factories :
           /\ DOMAIN q.factories[x] = DOMAIN pl.factories[x]
           /\ q.factories[x].built = pl.factories[x].built
           /\ q.factories[x].groups = pl.factories[x].groups \ {g}
           /\ q.factories[x].ports = pl.factories[x].ports
           /\ q.factories[x].claims = pl.factories[x].claims
  <2>1. ASSUME NEW x \in DOMAIN pl.factories
        PROVE  pl.factories[x].groups = {h \in DOMAIN pl.groups : pl.groups[h].factory = x}
    BY <1>0 DEF Lists
  <2>2. ASSUME NEW x \in DOMAIN pl.factories
        PROVE  DOMAIN pl.factories[x] = FactoryFields
    BY <1>0 DEF Shape, SamePort
  <2>3. QED
    BY <1>1, <2>1, <2>2 DEF FactoryFields
<1>3. /\ DOMAIN q.edges = DOMAIN pl.edges \ Touching(pl, GroupEnd(g))
      /\ \A e \in DOMAIN q.edges : q.edges[e] = pl.edges[e]
      /\ DOMAIN q.groups = DOMAIN pl.groups \ {g}
      /\ \A x \in DOMAIN q.groups : q.groups[x] = pl.groups[x]
  BY <1>1 DEF Drop, Restrict
<1>4. Shape(q)
  BY ZenonT(60), <1>0, <1>1, <1>2, <1>3 DEF Shape, SamePort
<1>5. \A e \in DOMAIN q.edges : GroupEnd(g) \notin {pl.edges[e].from, pl.edges[e].to}
  BY <1>3 DEF Touching, Into, OutOf
<1>6. \A x \in DOMAIN q.factories :
        q.factories[x].groups = pl.factories[x].groups \cap DOMAIN q.groups
  <2> SUFFICES ASSUME NEW x \in DOMAIN q.factories
               PROVE  q.factories[x].groups = pl.factories[x].groups \cap DOMAIN q.groups
    OBVIOUS
  <2>1. /\ x \in DOMAIN pl.factories
        /\ q.factories[x].groups = pl.factories[x].groups \ {g}
    BY <1>2
  <2>2. pl.factories[x].groups = {h \in DOMAIN pl.groups : pl.groups[h].factory = x}
    BY <1>0, <2>1 DEF Lists
  <2>3. DOMAIN q.groups = DOMAIN pl.groups \ {g}
    BY <1>3
  <2>4. QED
    BY <2>1, <2>2, <2>3
<1>7. LessLists(pl, q)
  BY ZenonT(60), <1>0, <1>1, <1>2, <1>6 DEF LessLists, Lists
<1>8. LessParts(pl, q)
  BY <1>0, <1>1, <1>2, <1>3, <1>4, <1>5, <1>6 DEF LessParts, Lists, SamePort
<1>9. LessBelts(pl, q)
  BY <1>0, <1>1, <1>2, <1>3, <1>4, <1>5, <1>6 DEF LessBelts, Lists
<1>10. QED
  BY <1>7, <1>8, <1>9, <1>0, <1>1, <1>2, <1>3, <1>4, <1>5, <1>6 DEF Less, q

(* Removing a splitter or merger and its belts only takes away. *)
LEMMA RemoveJunctionLess ==
  ASSUME NEW pl, NEW m, Wired(pl, m), NEW j \in DOMAIN pl.junctions
  PROVE  Less(pl, RemoveJunction(pl, j))
<1>0. Shape(pl) /\ Lists(pl) /\ Joined(pl) /\ DOMAIN pl = PlanFields
  BY DEF Wired, Shape
<1> DEFINE q == RemoveJunction(pl, j)
<1>1. /\ DOMAIN q = DOMAIN pl
      /\ q.edges = Drop(pl.edges, Touching(pl, JunctionEnd(j)))
      /\ q.junctions = Drop(pl.junctions, {j})
      /\ q.factories = pl.factories /\ q.groups = pl.groups
      /\ q.ports = pl.ports /\ q.claims = pl.claims
  BY <1>0 DEF RemoveJunction, PlanFields, Collection
<1> HIDE DEF q
<1>2. /\ DOMAIN q.edges = DOMAIN pl.edges \ Touching(pl, JunctionEnd(j))
      /\ \A e \in DOMAIN q.edges : q.edges[e] = pl.edges[e]
      /\ DOMAIN q.junctions = DOMAIN pl.junctions \ {j}
      /\ \A x \in DOMAIN q.junctions : q.junctions[x] = pl.junctions[x]
  BY <1>1 DEF Drop, Restrict
<1>3. Shape(q)
  BY <1>0, <1>1, <1>2 DEF Shape, SamePort
<1>4. \A e \in DOMAIN q.edges : JunctionEnd(j) \notin {pl.edges[e].from, pl.edges[e].to}
  BY <1>2 DEF Touching, Into, OutOf
<1>5. LessLists(pl, q)
  BY <1>0, <1>1, <1>2, <1>3, <1>4 DEF LessLists, Lists
<1>6. LessParts(pl, q)
  BY <1>0, <1>1, <1>2, <1>3, <1>4 DEF LessParts, Lists, SamePort
<1>7. LessBelts(pl, q)
  BY <1>0, <1>1, <1>2, <1>3, <1>4 DEF LessBelts, Lists
<1>8. QED
  BY <1>5, <1>6, <1>7, <1>0, <1>1, <1>2, <1>3, <1>4 DEF Less, q

(* The belts and the routes at some ports.                                 *)
BeltsAt(pl, ps) == UNION {Touching(pl, PortEnd(p)) : p \in ps}
RoutesOf(pl, ps) == {pl.ports[p].route : p \in ps} \ {None}

(* Removing ports changes, besides what removing their routes does, belts,
   ports and their factory's list only.                                    *)
Portless(pl, q, f, ps) ==
  /\ DOMAIN q = DOMAIN pl
  /\ q.groups = pl.groups /\ q.junctions = pl.junctions /\ q.claims = pl.claims
  /\ q.guides = pl.guides
  /\ DOMAIN q.factories = DOMAIN pl.factories
  /\ \A x \in DOMAIN pl.factories : x # f => q.factories[x] = pl.factories[x]
  /\ q.factories[f] = [pl.factories[f] EXCEPT !.ports = @ \ ps]
  /\ DOMAIN q.edges = DOMAIN pl.edges \ BeltsAt(pl, ps)
  /\ \A e \in DOMAIN q.edges : q.edges[e] = pl.edges[e]
  /\ DOMAIN q.ports = DOMAIN pl.ports \ ps
  /\ \A p \in DOMAIN q.ports : SamePort(pl, q, p)

SameRoutes(q, r) ==
  /\ q.routes = r.routes /\ q.switches = r.switches /\ q.marks = r.marks
  /\ \A p \in DOMAIN q.ports : q.ports[p] = r.ports[p]

(* Removing ports takes them off their factory, with their belts and routes. *)
LEMMA RemovePortsFields ==
  ASSUME NEW pl, Shape(pl), NEW f \in DOMAIN pl.factories, NEW ps
  PROVE  /\ Portless(pl, RemovePorts(pl, f, ps), f, ps)
         /\ SameRoutes(RemovePorts(pl, f, ps), RemoveRoutes(pl, RoutesOf(pl, ps)))
<1>0. DOMAIN pl = PlanFields
  BY DEF Shape, SamePort
<1> DEFINE r == RemoveRoutes(pl, RoutesOf(pl, ps))
           q == RemovePorts(pl, f, ps)
<1>1. /\ DOMAIN r = DOMAIN pl
      /\ r.factories = pl.factories /\ r.groups = pl.groups
      /\ r.junctions = pl.junctions /\ r.edges = pl.edges /\ r.claims = pl.claims
      /\ r.guides = pl.guides
      /\ DOMAIN r.ports = DOMAIN pl.ports
      /\ \A p \in DOMAIN pl.ports :
           SamePort(pl, r, p)
  BY <1>0, RemoveRoutesFields DEF Unrouted
<1>2. q = [r EXCEPT !.edges = Drop(@, BeltsAt(pl, ps)),
                    !.factories[f].ports = @ \ ps,
                    !.ports = Drop(@, ps)]
  BY DEF RemovePorts, BeltsAt, RoutesOf
<1>3. /\ DOMAIN q = DOMAIN pl
      /\ q.edges = Drop(r.edges, BeltsAt(pl, ps))
      /\ DOMAIN q.factories = DOMAIN r.factories
      /\ \A x \in DOMAIN r.factories : x # f => q.factories[x] = r.factories[x]
      /\ q.factories[f] = [r.factories[f] EXCEPT !.ports = r.factories[f].ports \ ps]
      /\ q.ports = Drop(r.ports, ps)
      /\ q.groups = r.groups /\ q.junctions = r.junctions /\ q.claims = r.claims
      /\ q.guides = r.guides /\ q.routes = r.routes /\ q.switches = r.switches /\ q.marks = r.marks
  <2> HIDE DEF r, q
  <2>1. DOMAIN r = PlanFields
    BY <1>0, <1>1 DEF Shape, SamePort
  <2>2. QED
    BY <1>1, <1>2, <2>1 DEF PlanFields, Collection
<1> HIDE DEF r, q
<1>4. /\ DOMAIN q.edges = DOMAIN pl.edges \ BeltsAt(pl, ps)
      /\ \A e \in DOMAIN q.edges : q.edges[e] = pl.edges[e]
      /\ DOMAIN q.ports = DOMAIN pl.ports \ ps
      /\ \A x \in DOMAIN q.ports : q.ports[x] = r.ports[x]
  BY <1>1, <1>3 DEF Drop, Restrict
<1>5. QED
  <2>1. Portless(pl, q, f, ps)
    BY <1>1, <1>3, <1>4 DEF Portless, SamePort
  <2>2. SameRoutes(q, r)
    BY <1>3, <1>4 DEF SameRoutes
  <2>3. QED
    BY <2>1, <2>2 DEF q, r

(* Removing ports only takes away. *)
LEMMA RemovePortsLess ==
  ASSUME NEW pl, NEW m, Wired(pl, m), NEW f \in DOMAIN pl.factories,
         NEW ps, ps \subseteq pl.factories[f].ports
  PROVE  Less(pl, RemovePorts(pl, f, ps))
<1>0. Shape(pl) /\ Lists(pl) /\ Joined(pl) /\ DOMAIN pl = PlanFields
  BY DEF Wired, Shape
<1> DEFINE q == RemovePorts(pl, f, ps)
<1>1. Portless(pl, q, f, ps)
  BY <1>0, RemovePortsFields
<1> HIDE DEF q
<1>2. /\ DOMAIN q = DOMAIN pl
      /\ q.groups = pl.groups /\ q.junctions = pl.junctions /\ q.claims = pl.claims
  BY <1>1 DEF Portless
<1>3. /\ DOMAIN q.factories = DOMAIN pl.factories
      /\ \A x \in DOMAIN pl.factories : x # f => q.factories[x] = pl.factories[x]
      /\ q.factories[f] = [pl.factories[f] EXCEPT !.ports = @ \ ps]
  BY <1>1 DEF Portless
<1>5. /\ DOMAIN q.edges = DOMAIN pl.edges \ BeltsAt(pl, ps)
      /\ \A e \in DOMAIN q.edges : q.edges[e] = pl.edges[e]
      /\ DOMAIN q.ports = DOMAIN pl.ports \ ps
      /\ \A p \in DOMAIN q.ports :
           SamePort(pl, q, p)
  BY <1>1 DEF Portless
<1>4. /\ DOMAIN q.factories = DOMAIN pl.factories
      /\ \A x \in DOMAIN pl.factories :
           /\ DOMAIN q.factories[x] = DOMAIN pl.factories[x]
           /\ q.factories[x].built = pl.factories[x].built
           /\ q.factories[x].groups = pl.factories[x].groups
           /\ q.factories[x].ports = pl.factories[x].ports \ ps
           /\ q.factories[x].claims = pl.factories[x].claims
  <2>1. ASSUME NEW x \in DOMAIN pl.factories
        PROVE  pl.factories[x].ports = {p \in DOMAIN pl.ports : pl.ports[p].factory = x}
    BY <1>0 DEF Lists
  <2>2. ASSUME NEW x \in DOMAIN pl.factories
        PROVE  DOMAIN pl.factories[x] = FactoryFields
    BY <1>0 DEF Shape, SamePort
  <2>3. \A x \in DOMAIN pl.factories : x # f => pl.factories[x].ports = pl.factories[x].ports \ ps
    BY <2>1
  <2>4. QED
    BY <1>3, <2>2, <2>3 DEF FactoryFields
<1>6. Shape(q)
  <2>1. \A p \in DOMAIN q.ports : DOMAIN q.ports[p] = PortFields /\ q.ports[p].built \in BOOLEAN
    BY <1>0, <1>5 DEF Shape, SamePort
  <2>2. \A x \in DOMAIN q.factories : DOMAIN q.factories[x] = FactoryFields /\ q.factories[x].built \in BOOLEAN
    BY <1>0, <1>4 DEF Shape, SamePort
  <2>3. \A e \in DOMAIN q.edges : DOMAIN q.edges[e] = EdgeFields /\ q.edges[e].built \in BOOLEAN
    BY <1>0, <1>5 DEF Shape, SamePort
  <2>4. QED
    BY <1>0, <1>2, <1>3, <2>1, <2>2, <2>3 DEF Shape, SamePort
<1>7. \A e \in DOMAIN q.edges : \A p \in ps : PortEnd(p) \notin {pl.edges[e].from, pl.edges[e].to}
  BY <1>5 DEF BeltsAt, Touching, Into, OutOf
<1>8. \A x \in DOMAIN q.factories :
        q.factories[x].ports = pl.factories[x].ports \cap DOMAIN q.ports
  BY <1>0, <1>4, <1>5 DEF Lists
<1>9. LessLists(pl, q)
  BY <1>0, <1>2, <1>3, <1>4, <1>5, <1>6, <1>7, <1>8 DEF LessLists, Lists
<1>10. LessParts(pl, q)
  BY <1>0, <1>2, <1>3, <1>4, <1>5, <1>6, <1>7, <1>8 DEF LessParts, Lists, SamePort
<1>11. LessBelts(pl, q)
  BY <1>0, <1>2, <1>3, <1>4, <1>5, <1>6, <1>7, <1>8 DEF LessBelts, Lists
<1>12. QED
  BY <1>9, <1>10, <1>11, <1>0, <1>2, <1>3, <1>4, <1>5, <1>6, <1>7, <1>8 DEF Less, q

(* The cascade of a deleted factory only takes away. *)
LEMMA RemoveFactoryLess ==
  ASSUME NEW pl, NEW m, Wired(pl, m), NEW f \in DOMAIN pl.factories
  PROVE  Less(pl, RemoveFactory(pl, f))
<1>0. Shape(pl) /\ Lists(pl) /\ Joined(pl) /\ DOMAIN pl = PlanFields
  BY DEF Wired, Shape
<1> DEFINE r == RemoveRoutes(pl, RoutesAt(pl, f))
           q == RemoveFactory(pl, f)
<1>1. /\ DOMAIN r = DOMAIN pl
      /\ r.factories = pl.factories /\ r.groups = pl.groups
      /\ r.junctions = pl.junctions /\ r.edges = pl.edges /\ r.claims = pl.claims
      /\ DOMAIN r.ports = DOMAIN pl.ports
      /\ \A p \in DOMAIN pl.ports :
           SamePort(pl, r, p)
  BY <1>0, RemoveRoutesFields DEF Unrouted
<1>2. /\ DOMAIN q = DOMAIN pl
      /\ q.edges = Drop(r.edges, Owned(pl, "edges", f))
      /\ q.groups = Drop(r.groups, Owned(pl, "groups", f))
      /\ q.ports = Drop(r.ports, Owned(pl, "ports", f))
      /\ q.claims = Drop(r.claims, Owned(pl, "claims", f))
      /\ q.junctions = Drop(r.junctions, Owned(pl, "junctions", f))
      /\ q.factories = Drop(r.factories, {f})
  <2>1. q = [r EXCEPT
              !.edges     = Drop(@, Owned(pl, "edges", f)),
              !.groups    = Drop(@, Owned(pl, "groups", f)),
              !.ports     = Drop(@, Owned(pl, "ports", f)),
              !.claims    = Drop(@, Owned(pl, "claims", f)),
              !.junctions = Drop(@, Owned(pl, "junctions", f)),
              !.factories = Drop(@, {f}),
              !.marks     = @ \ ({f} \cup Owned(pl, "groups", f) \cup Owned(pl, "claims", f))]
    BY DEF RemoveFactory
  <2> HIDE DEF r, q
  <2>2. DOMAIN r = PlanFields
    BY <1>0, <1>1 DEF Shape, SamePort
  <2>3. QED
    BY <1>1, <2>1, <2>2 DEF PlanFields, Collection
<1> HIDE DEF r, q
<1>3. /\ DOMAIN q.factories = DOMAIN pl.factories \ {f}
      /\ \A x \in DOMAIN q.factories : q.factories[x] = pl.factories[x]
      /\ DOMAIN q.groups = {x \in DOMAIN pl.groups : pl.groups[x].factory # f}
      /\ \A x \in DOMAIN q.groups : q.groups[x] = pl.groups[x]
      /\ DOMAIN q.ports = {x \in DOMAIN pl.ports : pl.ports[x].factory # f}
      /\ \A x \in DOMAIN q.ports : q.ports[x] = r.ports[x]
      /\ DOMAIN q.claims = {x \in DOMAIN pl.claims : pl.claims[x].factory # f}
      /\ \A x \in DOMAIN q.claims : q.claims[x] = pl.claims[x]
      /\ DOMAIN q.junctions = {x \in DOMAIN pl.junctions : pl.junctions[x].factory # f}
      /\ \A x \in DOMAIN q.junctions : q.junctions[x] = pl.junctions[x]
      /\ DOMAIN q.edges = {x \in DOMAIN pl.edges : pl.edges[x].factory # f}
      /\ \A x \in DOMAIN q.edges : q.edges[x] = pl.edges[x]
  BY SMTT(30), <1>1, <1>2 DEF Owned, Drop, Restrict
<1>4. Shape(q)
  <2>1. \A p \in DOMAIN q.ports : DOMAIN q.ports[p] = PortFields /\ q.ports[p].built \in BOOLEAN
    BY <1>0, <1>1, <1>3 DEF Shape, SamePort
  <2>2. \A x \in DOMAIN q.factories : DOMAIN q.factories[x] = FactoryFields /\ q.factories[x].built \in BOOLEAN
    BY <1>0, <1>3 DEF Shape, SamePort
  <2>3. \A e \in DOMAIN q.edges : DOMAIN q.edges[e] = EdgeFields /\ q.edges[e].built \in BOOLEAN
    BY <1>0, <1>3 DEF Shape, SamePort
  <2>4. \A g \in DOMAIN q.groups : DOMAIN q.groups[g] = GroupFields /\ q.groups[g].built \in BOOLEAN
    BY <1>0, <1>3 DEF Shape, SamePort
  <2>5. \A c \in DOMAIN q.claims : DOMAIN q.claims[c] = ClaimFields /\ q.claims[c].built \in BOOLEAN
    BY <1>0, <1>3 DEF Shape, SamePort
  <2>6. \A j \in DOMAIN q.junctions :
          DOMAIN q.junctions[j] = JunctionFields /\ q.junctions[j].kind \in JunctionKind
    BY <1>0, <1>3 DEF Shape, SamePort
  <2>7. DOMAIN q = PlanFields
    BY <1>0, <1>1, <1>2
  <2>8. QED
    BY <2>1, <2>2, <2>3, <2>4, <2>5, <2>6, <2>7 DEF Shape, SamePort
<1>5. \A x \in DOMAIN q.factories :
        /\ q.factories[x].groups = pl.factories[x].groups \cap DOMAIN q.groups
        /\ q.factories[x].ports = pl.factories[x].ports \cap DOMAIN q.ports
        /\ q.factories[x].claims = pl.factories[x].claims \cap DOMAIN q.claims
  BY <1>0, <1>3 DEF Lists
<1>6. ASSUME NEW e \in DOMAIN q.edges
      PROVE  /\ \A g \in DOMAIN pl.groups :
                  GroupEnd(g) \in {pl.edges[e].from, pl.edges[e].to} => g \in DOMAIN q.groups
             /\ \A p \in DOMAIN pl.ports :
                  PortEnd(p) \in {pl.edges[e].from, pl.edges[e].to} => p \in DOMAIN q.ports
             /\ \A j \in DOMAIN pl.junctions :
                  JunctionEnd(j) \in {pl.edges[e].from, pl.edges[e].to} => j \in DOMAIN q.junctions
  <2>1. e \in DOMAIN pl.edges /\ pl.edges[e].factory # f
    BY <1>3
  <2>2. /\ IsEnd(pl, pl.edges[e].from, pl.edges[e].factory)
        /\ IsEnd(pl, pl.edges[e].to, pl.edges[e].factory)
    BY <1>0, <2>1 DEF Joined
  <2>3. QED
    BY SMTT(30), <1>3, <2>1, <2>2 DEF IsEnd, GroupEnd, PortEnd, JunctionEnd
<1>7. LessLists(pl, q)
  BY <1>0, <1>1, <1>3, <1>4, <1>5, <1>6 DEF LessLists, Lists
<1>8. LessParts(pl, q)
  BY <1>0, <1>1, <1>3, <1>4, <1>5, <1>6 DEF LessParts, Lists, SamePort
<1>9. LessBelts(pl, q)
  BY <1>0, <1>1, <1>3, <1>4, <1>5, <1>6 DEF LessBelts, Lists
<1>10. QED
  BY <1>7, <1>8, <1>9, <1>0, <1>1, <1>3, <1>4, <1>5, <1>6 DEF Less, q

------------------------------------------------------------------------------
(* The built layer *)

(* A belt that is derived from some groups and their ports joins two of
   them.                                                                   *)
Derived(gs, port, x) ==
  (\E g \in DOMAIN gs : x = GroupEnd(g)) \/ (\E i \in DOMAIN port : x = PortEnd(port[i]))

IsDerivedBelt(gs, port, b) ==
  \E x, y, i : b = <<x, y, i>> /\ Derived(gs, port, x) /\ Derived(gs, port, y)

(* Every belt derived for a built factory joins two of its groups, or a group and a port. *)
LEMMA BeltsAreDerived ==
  ASSUME NEW gs, NEW port, NEW b \in InnerBelts(gs) \cup BoundaryBelts(gs, port)
  PROVE  IsDerivedBelt(gs, port, b)
<1>1. CASE b \in InnerBelts(gs)
  <2>1. PICK i \in Item : \E p \in Makers(gs, i), c \in Takers(gs, i) :
                            b = <<GroupEnd(p), GroupEnd(c), i>>
    BY <1>1 DEF InnerBelts
  <2>2. PICK p \in Makers(gs, i), c \in Takers(gs, i) : b = <<GroupEnd(p), GroupEnd(c), i>>
    BY <2>1
  <2>3. p \in DOMAIN gs /\ c \in DOMAIN gs
    BY DEF Makers, Takers
  <2>4. QED
    BY <2>2, <2>3 DEF IsDerivedBelt, Derived
<1>2. CASE b \in BoundaryBelts(gs, port)
  <2>1. PICK i \in DOMAIN port :
          \/ \E g \in Makers(gs, i) : b = <<GroupEnd(g), PortEnd(port[i]), i>>
          \/ \E g \in Takers(gs, i) : b = <<PortEnd(port[i]), GroupEnd(g), i>>
    BY <1>2 DEF BoundaryBelts
  <2>2. \A g : g \in Makers(gs, i) \/ g \in Takers(gs, i) => g \in DOMAIN gs
    BY DEF Makers, Takers
  <2>3. QED
    BY <2>1, <2>2 DEF IsDerivedBelt, Derived
<1>3. QED
  BY <1>1, <1>2

(* Its belt is <<k, "belt", b>>.                                           *)
IsBuiltBelt(k, f, belts, es, e) ==
  /\ e = <<k, "belt", e[3]>> /\ e[1] = k /\ e[3] \in belts
  /\ DOMAIN es[e] = EdgeFields
  /\ es[e].factory = f /\ es[e].built = TRUE
  /\ es[e].from = e[3][1] /\ es[e].to = e[3][2] /\ es[e].item = e[3][3]

(* The built belts written into the plan are the derived ones, inside the factory. *)
LEMMA BuiltBeltsAre ==
  ASSUME NEW k, NEW f, NEW belts, NEW e \in DOMAIN BuiltBelts(k, f, belts)
  PROVE  IsBuiltBelt(k, f, belts, BuiltBelts(k, f, belts), e)
<1>1. PICK b \in belts : e = <<k, "belt", b>>
  BY DEF BuiltBelts
<1>2. e[3] = b /\ e[1] = k
  BY <1>1
<1>3. BuiltBelts(k, f, belts)[e] = NewEdge(f, e[3][1], e[3][2], e[3][3], TRUE)
  BY DEF BuiltBelts
<1>4. QED
  BY <1>1, <1>2, <1>3 DEF IsBuiltBelt, NewEdge, EdgeFields

IsBuiltPort(k, f, gs, is, ps, p) ==
  /\ p = <<k, "port", p[3]>> /\ p[1] = k /\ p[3] \in is
  /\ DOMAIN ps[p] = PortFields
  /\ ps[p].factory = f /\ ps[p].built = TRUE /\ ps[p].route = None
  /\ ps[p].item = p[3] /\ ps[p].dir = Dir(gs, p[3])

(* The built ports written into the plan are one per boundary item of the factory. *)
LEMMA BuiltPortsAre ==
  ASSUME NEW k, NEW f, NEW gs, NEW is
  PROVE  /\ \A p \in DOMAIN BuiltPorts(k, f, gs, is) :
              IsBuiltPort(k, f, gs, is, BuiltPorts(k, f, gs, is), p)
         /\ \A i \in is : <<k, "port", i>> \in DOMAIN BuiltPorts(k, f, gs, is)
<1>1. ASSUME NEW p \in DOMAIN BuiltPorts(k, f, gs, is)
      PROVE  IsBuiltPort(k, f, gs, is, BuiltPorts(k, f, gs, is), p)
  <2>1. PICK i \in is : p = <<k, "port", i>>
    BY DEF BuiltPorts
  <2>2. p[3] = i /\ p[1] = k
    BY <2>1
  <2>3. BuiltPorts(k, f, gs, is)[p] = NewPort(f, Dir(gs, p[3]), p[3], TRUE)
    BY DEF BuiltPorts
  <2>4. QED
    BY <2>1, <2>2, <2>3 DEF IsBuiltPort, NewPort, PortFields
<1>2. \A i \in is : <<k, "port", i>> \in DOMAIN BuiltPorts(k, f, gs, is)
  BY DEF BuiltPorts
<1>3. QED
  BY <1>1, <1>2

(* What a resync puts on top of a plan: ports and belts of one factory.    *)
Wrote(r, q, f, new, more) ==
  /\ DOMAIN q = DOMAIN r
  /\ q.groups = r.groups /\ q.junctions = r.junctions /\ q.claims = r.claims
  /\ q.guides = r.guides /\ q.routes = r.routes /\ q.switches = r.switches /\ q.marks = r.marks
  /\ DOMAIN q.factories = DOMAIN r.factories
  /\ \A x \in DOMAIN r.factories : x # f => q.factories[x] = r.factories[x]
  /\ q.factories[f] = [r.factories[f] EXCEPT !.ports = @ \cup DOMAIN new]
  /\ DOMAIN q.ports = DOMAIN r.ports \cup DOMAIN new
  /\ \A p \in DOMAIN new : q.ports[p] = new[p]
  /\ \A p \in DOMAIN r.ports \ DOMAIN new : q.ports[p] = r.ports[p]
  /\ DOMAIN q.edges = DOMAIN r.edges \cup DOMAIN more
  /\ \A e \in DOMAIN more : q.edges[e] = more[e]
  /\ \A e \in DOMAIN r.edges \ DOMAIN more : q.edges[e] = r.edges[e]

(* Writing new ports and belts into one factory changes nothing else. *)
LEMMA WroteIs ==
  ASSUME NEW r, Shape(r), NEW f \in DOMAIN r.factories, NEW new, NEW more
  PROVE  Wrote(r, [r EXCEPT
                    !.ports = PutAll(@, new),
                    !.factories[f].ports = @ \cup DOMAIN new,
                    !.edges = PutAll(@, more)], f, new, more)
<1> DEFINE q == [r EXCEPT
                  !.ports = PutAll(@, new),
                  !.factories[f].ports = @ \cup DOMAIN new,
                  !.edges = PutAll(@, more)]
<1>1. DOMAIN r = PlanFields
  BY DEF Shape
<1>2. /\ DOMAIN q = DOMAIN r
      /\ q.groups = r.groups /\ q.junctions = r.junctions /\ q.claims = r.claims
      /\ q.guides = r.guides /\ q.routes = r.routes /\ q.switches = r.switches /\ q.marks = r.marks
      /\ DOMAIN q.factories = DOMAIN r.factories
      /\ \A x \in DOMAIN r.factories : x # f => q.factories[x] = r.factories[x]
      /\ q.factories[f] = [r.factories[f] EXCEPT !.ports = r.factories[f].ports \cup DOMAIN new]
      /\ q.ports = PutAll(r.ports, new)
      /\ q.edges = PutAll(r.edges, more)
  BY <1>1 DEF PlanFields, Collection
<1> HIDE DEF q
<1>3. Wrote(r, q, f, new, more)
  BY <1>2 DEF Wrote, PutAll
<1>4. QED
  BY <1>3 DEF q

(* What is derived for a built factory fits its plan: the groups and ports it
   is derived from are the factory's and built, no port doubles one and no
   belt one.                                                               *)
Fitting(r, k, f, gs, is, port, belts) ==
  /\ f \in DOMAIN r.factories /\ r.factories[f].built
  /\ \A p \in DOMAIN r.ports : p[1] # k
  /\ \A e \in DOMAIN r.edges : e[1] # k
  /\ \A g \in DOMAIN gs : g \in DOMAIN r.groups /\ r.groups[g].factory = f /\ r.groups[g].built
  /\ \A i \in DOMAIN port :
       \/ port[i] \in DOMAIN r.ports /\ r.ports[port[i]].factory = f /\ r.ports[port[i]].built
       \/ i \in is /\ port[i] = <<k, "port", i>>
  /\ \A i \in is : \A p \in DOMAIN r.ports :
       ~(r.ports[p].factory = f /\ r.ports[p].built /\ r.ports[p].item = i
           /\ r.ports[p].dir = Dir(gs, i))
  /\ \A b \in belts : IsDerivedBelt(gs, port, b) /\ ~Belted(r, b)

(* Derived ports and belts fit the plan of a factory of the built layer.   *)
LEMMA WroteMore ==
  ASSUME NEW r, NEW k \in Nat \ {0}, Wired(r, k), NEW q,
         NEW f, NEW gs, NEW is, NEW port, NEW belts,
         Wrote(r, q, f, BuiltPorts(k, f, gs, is), BuiltBelts(k, f, belts)),
         Fitting(r, k, f, gs, is, port, belts)
  PROVE  Wired(q, k)
<1>f. /\ f \in DOMAIN r.factories /\ r.factories[f].built
      /\ \A p \in DOMAIN r.ports : p[1] # k
      /\ \A e \in DOMAIN r.edges : e[1] # k
      /\ \A g \in DOMAIN gs : g \in DOMAIN r.groups /\ r.groups[g].factory = f /\ r.groups[g].built
      /\ \A i \in DOMAIN port :
           \/ port[i] \in DOMAIN r.ports /\ r.ports[port[i]].factory = f /\ r.ports[port[i]].built
           \/ i \in is /\ port[i] = <<k, "port", i>>
      /\ \A i \in is : \A p \in DOMAIN r.ports :
           ~(r.ports[p].factory = f /\ r.ports[p].built /\ r.ports[p].item = i
               /\ r.ports[p].dir = Dir(gs, i))
      /\ \A b \in belts : IsDerivedBelt(gs, port, b) /\ ~Belted(r, b)
  BY DEF Fitting
<1> USE <1>f
<1> DEFINE new == BuiltPorts(k, f, gs, is)
           more == BuiltBelts(k, f, belts)
<1>0. Shape(r) /\ Lists(r) /\ Issued(r, k) /\ DOMAIN r = PlanFields
  BY DEF Wired, Shape
<1>1. \A p \in DOMAIN new : IsBuiltPort(k, f, gs, is, new, p)
  BY BuiltPortsAre
<1>2. \A e \in DOMAIN more : IsBuiltBelt(k, f, belts, more, e)
  BY BuiltBeltsAre
<1>3. \A i \in is : <<k, "port", i>> \in DOMAIN new
  BY BuiltPortsAre
<1> HIDE DEF new, more
<1>4. Wrote(r, q, f, new, more)
  BY DEF new, more
<1>5. /\ DOMAIN new \cap DOMAIN r.ports = {}
      /\ DOMAIN more \cap DOMAIN r.edges = {}
  BY <1>1, <1>2 DEF IsBuiltPort, IsBuiltBelt
<1>6. /\ DOMAIN q.ports = DOMAIN r.ports \cup DOMAIN new
      /\ \A p \in DOMAIN new : q.ports[p] = new[p]
      /\ \A p \in DOMAIN r.ports : q.ports[p] = r.ports[p]
      /\ DOMAIN q.edges = DOMAIN r.edges \cup DOMAIN more
      /\ \A e \in DOMAIN more : q.edges[e] = more[e]
      /\ \A e \in DOMAIN r.edges : q.edges[e] = r.edges[e]
  BY <1>4, <1>5 DEF Wrote
<1>7. /\ DOMAIN q = PlanFields
      /\ q.groups = r.groups /\ q.junctions = r.junctions /\ q.claims = r.claims
      /\ DOMAIN q.factories = DOMAIN r.factories
      /\ \A x \in DOMAIN r.factories : x # f => q.factories[x] = r.factories[x]
      /\ q.factories[f] = [r.factories[f] EXCEPT !.ports = @ \cup DOMAIN new]
  BY <1>0, <1>4 DEF Wrote
<1>8. \A x \in DOMAIN r.factories :
        /\ DOMAIN q.factories[x] = DOMAIN r.factories[x]
        /\ q.factories[x].built = r.factories[x].built
        /\ q.factories[x].groups = r.factories[x].groups
        /\ q.factories[x].claims = r.factories[x].claims
        /\ x # f => q.factories[x].ports = r.factories[x].ports
        /\ x = f => q.factories[x].ports = r.factories[x].ports \cup DOMAIN new
  <2>1. \A x \in DOMAIN r.factories : DOMAIN r.factories[x] = FactoryFields
    BY <1>0 DEF Shape
  <2>2. QED
    BY <1>7, <2>1 DEF FactoryFields
<1>9. Shape(q)
  <2>1. \A p \in DOMAIN q.ports : DOMAIN q.ports[p] = PortFields /\ q.ports[p].built \in BOOLEAN
    <3>1. \A p \in DOMAIN r.ports : DOMAIN r.ports[p] = PortFields /\ r.ports[p].built \in BOOLEAN
      BY <1>0 DEF Shape
    <3>2. \A p \in DOMAIN new : DOMAIN new[p] = PortFields /\ new[p].built = TRUE
      BY <1>1 DEF IsBuiltPort
    <3>3. QED
      BY <1>6, <3>1, <3>2
  <2>2. \A e \in DOMAIN q.edges : DOMAIN q.edges[e] = EdgeFields /\ q.edges[e].built \in BOOLEAN
    <3>1. \A e \in DOMAIN r.edges : DOMAIN r.edges[e] = EdgeFields /\ r.edges[e].built \in BOOLEAN
      BY <1>0 DEF Shape
    <3>2. \A e \in DOMAIN more : DOMAIN more[e] = EdgeFields /\ more[e].built = TRUE
      BY <1>2 DEF IsBuiltBelt
    <3>3. QED
      BY <1>6, <3>1, <3>2
  <2>3. \A x \in DOMAIN q.factories : DOMAIN q.factories[x] = FactoryFields /\ q.factories[x].built \in BOOLEAN
    BY <1>0, <1>7, <1>8 DEF Shape
  <2>4. QED
    BY <1>0, <1>7, <2>1, <2>2, <2>3 DEF Shape
<1>10. Issued(q, k)
  BY <1>0, <1>1, <1>2, <1>6, <1>7 DEF Issued, IsBuiltPort, IsBuiltBelt
<1>11. MoreKept(r, q)
  BY <1>6, <1>7, <1>8 DEF MoreKept, SamePort
<1>12. MoreLists(r, q)
  <2>1. \A p \in DOMAIN new : q.ports[p].factory = f
    BY <1>1, <1>6 DEF IsBuiltPort
  <2>2. DOMAIN q.ports \ DOMAIN r.ports = DOMAIN new
    BY <1>5, <1>6
  <2>3. QED
    BY <1>7, <1>8, <2>1, <2>2 DEF MoreLists
<1>13. MoreParts(r, q)
  <2>1. ASSUME NEW p \in DOMAIN q.ports \ DOMAIN r.ports
        PROVE  /\ q.ports[p].factory \in DOMAIN q.factories
               /\ q.ports[p].built => q.factories[q.ports[p].factory].built
               /\ q.ports[p].built =>
                    \A s \in DOMAIN q.ports :
                      /\ q.ports[s].built
                      /\ q.ports[s].factory = q.ports[p].factory
                      /\ q.ports[s].item = q.ports[p].item
                      /\ q.ports[s].dir = q.ports[p].dir
                      => s = p
    <3>1. /\ p = <<k, "port", p[3]>> /\ p[3] \in is
          /\ q.ports[p].factory = f /\ q.ports[p].item = p[3] /\ q.ports[p].dir = Dir(gs, p[3])
      BY <1>1, <1>6 DEF IsBuiltPort
    <3>2. q.factories[f].built /\ f \in DOMAIN q.factories
      BY <1>7, <1>8
    <3>3. ASSUME NEW s \in DOMAIN q.ports, q.ports[s].built, q.ports[s].factory = f,
                 q.ports[s].item = p[3], q.ports[s].dir = Dir(gs, p[3])
          PROVE  s = p
      <4>1. CASE s \in DOMAIN r.ports
        BY <1>6, <3>1, <3>3, <4>1
      <4>2. CASE s \in DOMAIN new
        <5>1. s = <<k, "port", s[3]>> /\ q.ports[s].item = s[3]
          BY <1>1, <1>6, <4>2 DEF IsBuiltPort
        <5>2. QED
          BY <3>1, <3>3, <5>1
      <4>3. QED
        BY <1>6, <4>1, <4>2
    <3>4. QED
      BY <3>1, <3>2, <3>3
  <2>2. QED
    BY <1>7, <2>1 DEF MoreParts
<1>14. ASSUME NEW x, Derived(gs, port, x)
       PROVE  IsEnd(q, x, f) /\ IsBuiltEnd(q, x)
  <2>1. CASE \E g \in DOMAIN gs : x = GroupEnd(g)
    BY <1>7, <2>1 DEF IsEnd, IsBuiltEnd
  <2>2. CASE \E i \in DOMAIN port : x = PortEnd(port[i])
    <3>1. PICK i \in DOMAIN port : x = PortEnd(port[i])
      BY <2>2
    <3>2. port[i] \in DOMAIN q.ports /\ q.ports[port[i]].factory = f /\ q.ports[port[i]].built
      BY <1>1, <1>3, <1>6 DEF IsBuiltPort
    <3>3. QED
      BY <3>1, <3>2 DEF IsEnd, IsBuiltEnd
  <2>3. QED
    BY <1>14, <2>1, <2>2 DEF Derived
<1>15. ASSUME NEW e \in DOMAIN q.edges \ DOMAIN r.edges
       PROVE  /\ q.edges[e].factory = f /\ q.edges[e].built
              /\ Derived(gs, port, q.edges[e].from) /\ Derived(gs, port, q.edges[e].to)
              /\ e = <<k, "belt", <<q.edges[e].from, q.edges[e].to, q.edges[e].item>>>>
              /\ <<q.edges[e].from, q.edges[e].to, q.edges[e].item>> \in belts
  <2>1. e \in DOMAIN more /\ q.edges[e] = more[e] /\ IsBuiltBelt(k, f, belts, more, e)
    BY <1>2, <1>6
  <2>2. IsDerivedBelt(gs, port, e[3])
    BY <2>1 DEF IsBuiltBelt
  <2>3. PICK x, y, i : e[3] = <<x, y, i>> /\ Derived(gs, port, x) /\ Derived(gs, port, y)
    BY <2>2 DEF IsDerivedBelt
  <2>4. q.edges[e].from = x /\ q.edges[e].to = y /\ q.edges[e].item = i
    BY <2>1, <2>3 DEF IsBuiltBelt
  <2>5. QED
    BY <2>1, <2>3, <2>4 DEF IsBuiltBelt
<1>16. MoreBelts(r, q)
  <2>1. ASSUME NEW e \in DOMAIN q.edges \ DOMAIN r.edges, NEW d \in DOMAIN q.edges,
               q.edges[d] = q.edges[e]
        PROVE  d = e
    <3>1. CASE d \in DOMAIN r.edges
      <4>1. ~Belted(r, <<q.edges[e].from, q.edges[e].to, q.edges[e].item>>)
        BY <1>15
      <4>2. r.edges[d] = q.edges[e]
        BY <1>6, <2>1, <3>1
      <4>3. QED
        BY <3>1, <4>1, <4>2 DEF Belted
    <3>2. CASE d \notin DOMAIN r.edges
      <4>1. d = <<k, "belt", <<q.edges[d].from, q.edges[d].to, q.edges[d].item>>>>
        BY <1>15, <3>2
      <4>2. e = <<k, "belt", <<q.edges[e].from, q.edges[e].to, q.edges[e].item>>>>
        BY <1>15
      <4>3. QED
        BY <2>1, <4>1, <4>2
    <3>3. QED
      BY <3>1, <3>2
  <2>2. q.factories[f].built /\ f \in DOMAIN q.factories
    BY <1>7, <1>8
  <2>3. QED
    BY ZenonT(60), <1>14, <1>15, <2>1, <2>2 DEF MoreBelts
<1>17. MoreRoom(r, q)
  <2>1. \A x, j : Derived(gs, port, x) => x # JunctionEnd(j)
    BY DEF Derived, GroupEnd, PortEnd, JunctionEnd
  <2>2. QED
    <3>1. \A e \in DOMAIN q.edges \ DOMAIN r.edges :
            Derived(gs, port, q.edges[e].from) /\ Derived(gs, port, q.edges[e].to)
      BY <1>15
    <3>2. \A e \in DOMAIN q.edges \ DOMAIN r.edges : \A j :
            JunctionEnd(j) # q.edges[e].from /\ JunctionEnd(j) # q.edges[e].to
      BY <2>1, <3>1
    <3>3. QED
      BY <1>7, <3>2 DEF MoreRoom
<1>18. QED
  BY <1>9, <1>10, <1>11, <1>12, <1>13, <1>16, <1>17, MoreWired DEF More

(* A resync of a built factory, by the k-th command, keeps the wiring.     *)
LEMMA ResyncWired ==
  ASSUME NEW pl, NEW k \in Nat \ {0}, Wired(pl, k),
         NEW f \in DOMAIN pl.factories, pl.factories[f].built,
         \A p \in DOMAIN pl.ports : p[1] # k,
         \A e \in DOMAIN pl.edges : e[1] # k
  PROVE  Wired(Resync(pl, f, k), k)
<1> DEFINE gs    == BuiltGroups(pl, f)
           is    == Unported(pl, f, gs)
           kept  == {i \in Flowing(gs) : BuiltPortsFor(pl, f, i, Dir(gs, i)) # {}}
           port  == [i \in kept \cup is |->
                       IF i \in kept THEN CHOOSE p \in BuiltPortsFor(pl, f, i, Dir(gs, i)) : TRUE
                       ELSE <<k, "port", i>>]
           belts == {b \in InnerBelts(gs) \cup BoundaryBelts(gs, port) : ~Belted(pl, b)}
           dried == Dried(pl, f, gs)
           r     == RemovePorts(pl, f, dried)
           q     == Resync(pl, f, k)
<1>1. q = [r EXCEPT
            !.ports = PutAll(@, BuiltPorts(k, f, gs, is)),
            !.factories[f].ports = @ \cup DOMAIN BuiltPorts(k, f, gs, is),
            !.edges = PutAll(@, BuiltBelts(k, f, belts))]
  BY DEF Resync
<1>2. Shape(pl) /\ Lists(pl)
  BY DEF Wired
<1>3. dried \subseteq pl.factories[f].ports
  BY DEF Dried
<1>4. Wired(r, k)
  BY <1>3, RemovePortsLess, LessWired
<1>5. Portless(pl, r, f, dried)
  BY <1>2, RemovePortsFields
<1>6. \A g \in DOMAIN gs : g \in DOMAIN pl.groups /\ pl.groups[g].factory = f /\ pl.groups[g].built
  BY <1>2 DEF BuiltGroups, Restrict, Lists
<1>7. ASSUME NEW i \in DOMAIN port
      PROVE  \/ port[i] \in DOMAIN pl.ports \ dried /\ pl.ports[port[i]].factory = f /\ pl.ports[port[i]].built
             \/ i \in is /\ port[i] = <<k, "port", i>>
  <2>1. CASE i \in kept
    <3>1. port[i] \in BuiltPortsFor(pl, f, i, Dir(gs, i))
      BY <2>1
    <3>2. i \in Flowing(gs)
      BY <2>1
    <3> HIDE DEF gs, port
    <3>3. /\ port[i] \in pl.factories[f].ports
          /\ pl.ports[port[i]].item = i /\ pl.ports[port[i]].dir = Dir(gs, i)
          /\ pl.ports[port[i]].built
      BY <3>1 DEF BuiltPortsFor, PortsFor
    <3>4. port[i] \notin dried
      BY <3>2, <3>3 DEF Dried
    <3>5. QED
      BY <1>2, <3>3, <3>4 DEF Lists
  <2>2. CASE i \notin kept
    BY <2>2
  <2>3. QED
    BY <2>1, <2>2
<1>8. ASSUME NEW i \in is, NEW p \in DOMAIN pl.ports, pl.ports[p].factory = f,
             pl.ports[p].item = i, pl.ports[p].dir = Dir(gs, i)
      PROVE  FALSE
  <2>1. p \in pl.factories[f].ports
    BY <1>2, <1>8 DEF Lists
  <2>2. PortsFor(pl, f, i, Dir(gs, i)) = {}
    BY DEF Unported
  <2> HIDE DEF gs
  <2>3. QED
    BY <1>8, <2>1, <2>2 DEF PortsFor
<1>9. \A b \in belts : IsDerivedBelt(gs, port, b) /\ ~Belted(pl, b)
  <2> HIDE DEF gs, port
  <2>1. QED
    BY BeltsAreDerived
<1> HIDE DEF gs, is, port, belts, dried, r, q, kept
<1>10. /\ f \in DOMAIN r.factories /\ r.factories[f].built
       /\ r.groups = pl.groups
       /\ DOMAIN r.ports = DOMAIN pl.ports \ dried
       /\ \A p \in DOMAIN r.ports : SamePort(pl, r, p)
       /\ \A e \in DOMAIN r.edges : e \in DOMAIN pl.edges /\ r.edges[e] = pl.edges[e]
  <2>1. DOMAIN pl.factories[f] = FactoryFields
    BY <1>2 DEF Shape
  <2>2. QED
    BY <1>5, <2>1 DEF Portless, FactoryFields
<1>11. Wrote(r, q, f, BuiltPorts(k, f, gs, is), BuiltBelts(k, f, belts))
  <2>1. Shape(r)
    BY <1>4 DEF Wired
  <2>2. QED
    BY <1>1, <1>10, <2>1, WroteIs
<1>12. /\ \A p \in DOMAIN r.ports : p[1] # k
       /\ \A e \in DOMAIN r.edges : e[1] # k
  BY <1>10
<1>13. \A g \in DOMAIN gs : g \in DOMAIN r.groups /\ r.groups[g].factory = f /\ r.groups[g].built
  BY <1>6, <1>10
<1>14. \A i \in DOMAIN port :
         \/ port[i] \in DOMAIN r.ports /\ r.ports[port[i]].factory = f /\ r.ports[port[i]].built
         \/ i \in is /\ port[i] = <<k, "port", i>>
  BY <1>7, <1>10 DEF SamePort
<1>15. \A i \in is : \A p \in DOMAIN r.ports :
         ~(r.ports[p].factory = f /\ r.ports[p].built /\ r.ports[p].item = i /\ r.ports[p].dir = Dir(gs, i))
  BY <1>8, <1>10 DEF SamePort
<1>16. \A b \in belts : IsDerivedBelt(gs, port, b) /\ ~Belted(r, b)
  BY <1>9, <1>10 DEF Belted
<1>17. Fitting(r, k, f, gs, is, port, belts)
  BY <1>10, <1>12, <1>13, <1>14, <1>15, <1>16 DEF Fitting
<1>18. QED
  BY <1>4, <1>11, <1>17, WroteMore DEF q

(* A site of a save, written as a new factory by the next command, keeps the
   wiring.                                                                 *)
LEMMA WriteBuiltWired ==
  ASSUME NEW pl, NEW m \in Nat, Wired(pl, m), NEW c
  PROVE  Wired(WriteBuiltLayer(pl, m + 1, c), m + 1)
<1> DEFINE k      == m + 1
           f      == <<k>>
           gs     == [x \in {<<k, i>> : i \in DOMAIN c.groups} |->
                        NewGroup(f, c.groups[x[2]].recipe, c.groups[x[2]].count, TRUE)]
           is     == Flowing(gs)
           port   == [i \in is |-> <<k, "port", i>>]
           belts  == InnerBelts(gs) \cup BoundaryBelts(gs, port)
           new    == BuiltPorts(k, f, gs, is)
           more   == BuiltBelts(k, f, belts)
           claims == [x \in {<<k, "claim", v>> : v \in c.nodes} |-> NewClaim(f, x[3], TRUE)]
           one    == [NewFactory(c.at, TRUE) EXCEPT
                        !.groups = DOMAIN gs, !.ports = DOMAIN new, !.claims = DOMAIN claims]
           q      == WriteBuiltLayer(pl, k, c)
<1>0. Shape(pl) /\ Lists(pl) /\ Issued(pl, m) /\ DOMAIN pl = PlanFields
  BY DEF Wired, Shape
<1>1. /\ DOMAIN q = DOMAIN pl
      /\ q.groups = PutAll(pl.groups, gs)
      /\ q.ports = PutAll(pl.ports, new)
      /\ q.edges = PutAll(pl.edges, more)
      /\ q.claims = PutAll(pl.claims, claims)
      /\ q.factories = Put(pl.factories, f, one)
      /\ q.junctions = pl.junctions
  BY <1>0 DEF WriteBuiltLayer, PlanFields, Collection
<1>2. \A x \in DOMAIN gs : /\ x[1] = k
                           /\ DOMAIN gs[x] = GroupFields
                           /\ gs[x].factory = f /\ gs[x].built = TRUE
  BY DEF NewGroup, GroupFields
<1>3. \A x \in DOMAIN claims : /\ x[1] = k
                               /\ DOMAIN claims[x] = ClaimFields
                               /\ claims[x].factory = f /\ claims[x].built = TRUE
  BY DEF NewClaim, ClaimFields
<1>4. \A p \in DOMAIN new : IsBuiltPort(k, f, gs, is, new, p)
  BY BuiltPortsAre
<1>5. \A i \in is : <<k, "port", i>> \in DOMAIN new
  BY BuiltPortsAre
<1>6. \A e \in DOMAIN more : IsBuiltBelt(k, f, belts, more, e)
  BY BuiltBeltsAre
<1>7. \A b \in belts : IsDerivedBelt(gs, port, b)
  <2> HIDE DEF gs, port
  <2>1. QED
    BY BeltsAreDerived
<1>8. /\ DOMAIN one = FactoryFields /\ one.built = TRUE
      /\ one.groups = DOMAIN gs /\ one.ports = DOMAIN new /\ one.claims = DOMAIN claims
  BY DEF NewFactory, FactoryFields
<1>9. DOMAIN port = is /\ \A i \in is : port[i] = <<k, "port", i>>
  OBVIOUS
<1>10. f[1] = k /\ k \in Nat /\ k \notin 1..m /\ k \in 1..k /\ m <= k
  OBVIOUS
<1> HIDE DEF k, f, gs, is, port, belts, new, more, claims, one, q
<1>11. /\ f \notin DOMAIN pl.factories
       /\ DOMAIN gs \cap DOMAIN pl.groups = {}
       /\ DOMAIN claims \cap DOMAIN pl.claims = {}
       /\ DOMAIN new \cap DOMAIN pl.ports = {}
       /\ DOMAIN more \cap DOMAIN pl.edges = {}
  BY <1>0, <1>2, <1>3, <1>4, <1>6, <1>10 DEF Issued, IsBuiltPort, IsBuiltBelt
<1>12. /\ DOMAIN q.groups = DOMAIN pl.groups \cup DOMAIN gs
       /\ \A x \in DOMAIN gs : q.groups[x] = gs[x]
       /\ \A x \in DOMAIN pl.groups : q.groups[x] = pl.groups[x]
       /\ DOMAIN q.ports = DOMAIN pl.ports \cup DOMAIN new
       /\ \A x \in DOMAIN new : q.ports[x] = new[x]
       /\ \A x \in DOMAIN pl.ports : q.ports[x] = pl.ports[x]
       /\ DOMAIN q.edges = DOMAIN pl.edges \cup DOMAIN more
       /\ \A x \in DOMAIN more : q.edges[x] = more[x]
       /\ \A x \in DOMAIN pl.edges : q.edges[x] = pl.edges[x]
       /\ DOMAIN q.claims = DOMAIN pl.claims \cup DOMAIN claims
       /\ \A x \in DOMAIN claims : q.claims[x] = claims[x]
       /\ \A x \in DOMAIN pl.claims : q.claims[x] = pl.claims[x]
       /\ DOMAIN q.factories = DOMAIN pl.factories \cup {f}
       /\ q.factories[f] = one
       /\ \A x \in DOMAIN pl.factories : q.factories[x] = pl.factories[x]
  BY <1>1, <1>11 DEF PutAll, Put
<1>13. Shape(q)
  <2>1. \A p \in DOMAIN q.ports : DOMAIN q.ports[p] = PortFields /\ q.ports[p].built \in BOOLEAN
    BY ZenonT(60), <1>0, <1>4, <1>12 DEF Shape, IsBuiltPort
  <2>2. \A x \in DOMAIN q.factories : DOMAIN q.factories[x] = FactoryFields /\ q.factories[x].built \in BOOLEAN
    BY ZenonT(60), <1>0, <1>8, <1>12 DEF Shape
  <2>3. \A e \in DOMAIN q.edges : DOMAIN q.edges[e] = EdgeFields /\ q.edges[e].built \in BOOLEAN
    BY ZenonT(60), <1>0, <1>6, <1>12 DEF Shape, IsBuiltBelt
  <2>4. \A g \in DOMAIN q.groups : DOMAIN q.groups[g] = GroupFields /\ q.groups[g].built \in BOOLEAN
    BY ZenonT(60), <1>0, <1>2, <1>12 DEF Shape
  <2>5. \A x \in DOMAIN q.claims : DOMAIN q.claims[x] = ClaimFields /\ q.claims[x].built \in BOOLEAN
    BY ZenonT(60), <1>0, <1>3, <1>12 DEF Shape
  <2>6. QED
    BY <1>0, <1>1, <2>1, <2>2, <2>3, <2>4, <2>5 DEF Shape
<1>14. Issued(q, k)
  <2>1. Issued(pl, k)
    BY <1>0, <1>10, IssuedLater
  <2>2. QED
    BY <1>1, <1>2, <1>3, <1>4, <1>6, <1>10, <1>12, <2>1 DEF Issued, IsBuiltPort, IsBuiltBelt
<1>15. MoreKept(pl, q)
  BY <1>1, <1>12 DEF MoreKept, SamePort
<1>16. MoreLists(pl, q)
  <2>1. \A p \in DOMAIN new : q.ports[p].factory = f
    BY <1>4, <1>12 DEF IsBuiltPort
  <2>2. /\ DOMAIN q.ports \ DOMAIN pl.ports = DOMAIN new
        /\ DOMAIN q.groups \ DOMAIN pl.groups = DOMAIN gs
        /\ DOMAIN q.claims \ DOMAIN pl.claims = DOMAIN claims
    BY <1>11, <1>12
  <2>3. /\ \A x \in DOMAIN gs : q.groups[x].factory = f
        /\ \A x \in DOMAIN claims : q.claims[x].factory = f
    BY <1>2, <1>3, <1>12
  <2>4. ASSUME NEW x \in DOMAIN q.factories
        PROVE  /\ x = f => /\ q.factories[x].groups = DOMAIN gs
                           /\ q.factories[x].ports = DOMAIN new
                           /\ q.factories[x].claims = DOMAIN claims
               /\ x # f => x \in DOMAIN pl.factories /\ q.factories[x] = pl.factories[x]
    BY <1>8, <1>12
  <2>5. QED
    BY <1>11, <2>1, <2>2, <2>3, <2>4 DEF MoreLists
<1>17. f \in DOMAIN q.factories /\ q.factories[f].built
  BY <1>8, <1>12
<1>18. MoreParts(pl, q)
  <2>1. \A g \in DOMAIN q.groups \ DOMAIN pl.groups : q.groups[g].factory = f
    BY <1>2, <1>12
  <2>2. \A x \in DOMAIN q.claims \ DOMAIN pl.claims : q.claims[x].factory = f
    BY <1>3, <1>12
  <2>3. ASSUME NEW p \in DOMAIN q.ports \ DOMAIN pl.ports
        PROVE  /\ q.ports[p].factory = f /\ q.ports[p].item = p[3]
               /\ p = <<k, "port", p[3]>>
    BY <1>4, <1>12 DEF IsBuiltPort
  <2>4. \A p \in DOMAIN pl.ports : q.ports[p].factory # f
    BY <1>0, <1>11, <1>12 DEF Lists
  <2>5. ASSUME NEW p \in DOMAIN q.ports \ DOMAIN pl.ports, NEW s \in DOMAIN q.ports,
               q.ports[s].factory = q.ports[p].factory, q.ports[s].item = q.ports[p].item
        PROVE  s = p
    <3>1. s \notin DOMAIN pl.ports
      BY <2>3, <2>4, <2>5
    <3>2. QED
      BY <2>3, <2>5, <3>1
  <2>6. QED
    BY <1>1, <1>17, <2>1, <2>2, <2>3, <2>5 DEF MoreParts
<1>19. ASSUME NEW x, Derived(gs, port, x)
       PROVE  IsEnd(q, x, f) /\ IsBuiltEnd(q, x)
  <2>1. CASE \E g \in DOMAIN gs : x = GroupEnd(g)
    BY <1>2, <1>12, <2>1 DEF IsEnd, IsBuiltEnd
  <2>2. CASE \E i \in DOMAIN port : x = PortEnd(port[i])
    <3>1. PICK i \in DOMAIN port : x = PortEnd(port[i])
      BY <2>2
    <3>2. port[i] \in DOMAIN new
      BY <1>5, <1>9
    <3>3. port[i] \in DOMAIN q.ports /\ q.ports[port[i]].factory = f /\ q.ports[port[i]].built
      BY <1>4, <1>12, <3>2 DEF IsBuiltPort
    <3>4. QED
      BY <3>1, <3>3 DEF IsEnd, IsBuiltEnd
  <2>3. QED
    BY <1>19, <2>1, <2>2 DEF Derived
<1>20. ASSUME NEW e \in DOMAIN q.edges \ DOMAIN pl.edges
       PROVE  /\ q.edges[e].factory = f /\ q.edges[e].built
              /\ Derived(gs, port, q.edges[e].from) /\ Derived(gs, port, q.edges[e].to)
              /\ e = <<k, "belt", <<q.edges[e].from, q.edges[e].to, q.edges[e].item>>>>
  <2>1. e \in DOMAIN more /\ q.edges[e] = more[e] /\ IsBuiltBelt(k, f, belts, more, e)
    BY <1>6, <1>12
  <2>2. IsDerivedBelt(gs, port, e[3])
    BY <1>7, <2>1 DEF IsBuiltBelt
  <2>3. PICK x, y, i : e[3] = <<x, y, i>> /\ Derived(gs, port, x) /\ Derived(gs, port, y)
    BY <2>2 DEF IsDerivedBelt
  <2>4. q.edges[e].from = x /\ q.edges[e].to = y /\ q.edges[e].item = i
    BY <2>1, <2>3 DEF IsBuiltBelt
  <2>5. QED
    BY <2>1, <2>3, <2>4 DEF IsBuiltBelt
<1>21. MoreBelts(pl, q)
  <2>1. \A e \in DOMAIN pl.edges : q.edges[e].factory # f
    BY <1>0, <1>11, <1>12 DEF Lists
  <2>2. ASSUME NEW e \in DOMAIN q.edges \ DOMAIN pl.edges, NEW d \in DOMAIN q.edges,
               q.edges[d] = q.edges[e]
        PROVE  d = e
    <3>1. d \notin DOMAIN pl.edges
      BY <1>20, <2>1, <2>2
    <3>2. d = <<k, "belt", <<q.edges[d].from, q.edges[d].to, q.edges[d].item>>>>
      BY <1>20, <3>1
    <3>3. e = <<k, "belt", <<q.edges[e].from, q.edges[e].to, q.edges[e].item>>>>
      BY <1>20
    <3>4. QED
      BY <2>2, <3>2, <3>3
  <2>3. QED
    BY <1>17, <1>19, <1>20, <2>2 DEF MoreBelts
<1>22. MoreRoom(pl, q)
  <2>1. \A x, j : Derived(gs, port, x) => x # JunctionEnd(j)
    BY DEF Derived, GroupEnd, PortEnd, JunctionEnd
  <2>2. \A e \in DOMAIN q.edges \ DOMAIN pl.edges : \A j :
          JunctionEnd(j) # q.edges[e].from /\ JunctionEnd(j) # q.edges[e].to
    BY <1>20, <2>1
  <2>3. QED
    BY <1>1, <2>2 DEF MoreRoom
<1>23. QED
  BY <1>13, <1>14, <1>15, <1>16, <1>18, <1>21, <1>22, MoreWired DEF More, k, q

------------------------------------------------------------------------------
(* Commands that leave the wiring as it is *)

(* What the wiring is made of is the same in both plans.                   *)
SameFactories(pl, q) ==
  /\ DOMAIN q.factories = DOMAIN pl.factories
  /\ \A f \in DOMAIN pl.factories :
       /\ DOMAIN q.factories[f] = DOMAIN pl.factories[f]
       /\ q.factories[f].groups = pl.factories[f].groups
       /\ q.factories[f].ports = pl.factories[f].ports
       /\ q.factories[f].claims = pl.factories[f].claims
       /\ q.factories[f].built = pl.factories[f].built

SameGroups(pl, q) ==
  /\ DOMAIN q.groups = DOMAIN pl.groups
  /\ \A g \in DOMAIN pl.groups :
       /\ DOMAIN q.groups[g] = DOMAIN pl.groups[g]
       /\ q.groups[g].factory = pl.groups[g].factory
       /\ q.groups[g].built = pl.groups[g].built

SamePorts(pl, q) ==
  DOMAIN q.ports = DOMAIN pl.ports /\ \A p \in DOMAIN pl.ports : SamePort(pl, q, p)

SameClaims(pl, q) ==
  /\ DOMAIN q.claims = DOMAIN pl.claims
  /\ \A c \in DOMAIN pl.claims :
       /\ DOMAIN q.claims[c] = DOMAIN pl.claims[c]
       /\ q.claims[c].factory = pl.claims[c].factory
       /\ q.claims[c].built \in {pl.claims[c].built, FALSE}

Same(pl, q) ==
  /\ DOMAIN q = DOMAIN pl
  /\ SameFactories(pl, q) /\ SameGroups(pl, q) /\ SamePorts(pl, q) /\ SameClaims(pl, q)
  /\ q.junctions = pl.junctions /\ q.edges = pl.edges

(* A change of nothing that the wiring is made of keeps it.                *)
LEMMA SameWired ==
  ASSUME NEW pl, NEW q, NEW m, Wired(pl, m), Same(pl, q)
  PROVE  Wired(q, m)
<1>0. Shape(pl) /\ Lists(pl) /\ DOMAIN pl = PlanFields
  BY DEF Wired, Shape
<1>1. Shape(q)
  <2>1. \A f \in DOMAIN q.factories : DOMAIN q.factories[f] = FactoryFields /\ q.factories[f].built \in BOOLEAN
    BY <1>0 DEF Same, SameFactories, Shape
  <2>2. \A g \in DOMAIN q.groups : DOMAIN q.groups[g] = GroupFields /\ q.groups[g].built \in BOOLEAN
    BY <1>0 DEF Same, SameGroups, Shape
  <2>3. \A p \in DOMAIN q.ports : DOMAIN q.ports[p] = PortFields /\ q.ports[p].built \in BOOLEAN
    BY <1>0 DEF Same, SamePorts, SamePort, Shape
  <2>4. \A c \in DOMAIN q.claims : DOMAIN q.claims[c] = ClaimFields /\ q.claims[c].built \in BOOLEAN
    BY <1>0 DEF Same, SameClaims, Shape
  <2>5. QED
    BY <1>0, <2>1, <2>2, <2>3, <2>4 DEF Same, Shape
<1>2. LessLists(pl, q)
  <2>1. \A f \in DOMAIN pl.factories :
          /\ pl.factories[f].groups = pl.factories[f].groups \cap DOMAIN pl.groups
          /\ pl.factories[f].ports = pl.factories[f].ports \cap DOMAIN pl.ports
          /\ pl.factories[f].claims = pl.factories[f].claims \cap DOMAIN pl.claims
    BY <1>0 DEF Lists
  <2>2. QED
    BY <2>1 DEF Same, SameFactories, SameGroups, SamePorts, SameClaims, LessLists
<1>3. LessParts(pl, q)
  <2>1. \A g \in DOMAIN q.groups :
          /\ g \in DOMAIN pl.groups
          /\ q.groups[g].factory = pl.groups[g].factory
          /\ q.groups[g].built = pl.groups[g].built
          /\ q.groups[g].factory \in DOMAIN q.factories
    BY <1>0 DEF Same, SameFactories, SameGroups, Lists
  <2>2. \A p \in DOMAIN q.ports :
          /\ p \in DOMAIN pl.ports
          /\ SamePort(pl, q, p)
          /\ q.ports[p].factory \in DOMAIN q.factories
    BY <1>0 DEF Same, SameFactories, SamePorts, SamePort, Lists
  <2>3. \A j \in DOMAIN q.junctions :
          /\ j \in DOMAIN pl.junctions
          /\ q.junctions[j] = pl.junctions[j]
          /\ q.junctions[j].factory \in DOMAIN q.factories
    BY <1>0 DEF Same, SameFactories, Lists
  <2>4. \A c \in DOMAIN q.claims :
          /\ c \in DOMAIN pl.claims
          /\ q.claims[c].factory = pl.claims[c].factory
          /\ q.claims[c].built => pl.claims[c].built
          /\ q.claims[c].factory \in DOMAIN q.factories
    BY <1>0 DEF Same, SameFactories, SameClaims, Lists
  <2>5. QED
    BY <2>1, <2>2, <2>3, <2>4 DEF LessParts
<1>4. LessBelts(pl, q)
  BY <1>0 DEF Same, SameFactories, SameGroups, SamePorts, LessBelts, Lists
<1>5. QED
  BY <1>1, <1>2, <1>3, <1>4, LessWired DEF Less

(* A collection that is not touched is the same.                           *)
LEMMA SameParts ==
  ASSUME NEW pl, NEW q
  PROVE  /\ q.factories = pl.factories => SameFactories(pl, q)
         /\ q.groups = pl.groups => SameGroups(pl, q)
         /\ q.ports = pl.ports => SamePorts(pl, q)
         /\ q.claims = pl.claims => SameClaims(pl, q)
  BY DEF SameFactories, SameGroups, SamePorts, SamePort, SameClaims

(* Links that nothing stands for go without touching the wiring.           *)
LEMMA DropStaleLinksSame ==
  ASSUME NEW pl, Shape(pl)
  PROVE  Same(pl, DropStaleLinks(pl))
<1> DEFINE q == DropStaleLinks(pl)
<1>1. /\ DOMAIN q = DOMAIN pl
      /\ q.groups = pl.groups /\ q.ports = pl.ports /\ q.claims = pl.claims
      /\ q.junctions = pl.junctions /\ q.edges = pl.edges
      /\ q.factories = [f \in DOMAIN pl.factories |->
                          IF pl.factories[f].replaces \in DOMAIN pl.factories \cup {None}
                          THEN pl.factories[f]
                          ELSE [pl.factories[f] EXCEPT !.replaces = None]]
  BY DEF DropStaleLinks, Shape, PlanFields, Collection
<1> HIDE DEF q
<1>2. DOMAIN q.factories = DOMAIN pl.factories
  BY <1>1
<1>3. ASSUME NEW f \in DOMAIN pl.factories
      PROVE  /\ DOMAIN q.factories[f] = DOMAIN pl.factories[f]
             /\ q.factories[f].groups = pl.factories[f].groups
             /\ q.factories[f].ports = pl.factories[f].ports
             /\ q.factories[f].claims = pl.factories[f].claims
             /\ q.factories[f].built = pl.factories[f].built
  <2>1. DOMAIN pl.factories[f] = FactoryFields
    BY DEF Shape
  <2>2. \/ q.factories[f] = pl.factories[f]
        \/ q.factories[f] = [pl.factories[f] EXCEPT !.replaces = None]
    BY <1>1
  <2>3. QED
    BY <2>1, <2>2 DEF FactoryFields
<1>4. SameFactories(pl, q)
  BY <1>2, <1>3 DEF SameFactories
<1>5. QED
  BY <1>1, <1>4, SameParts DEF Same, q

(* One group looks different, but it is still its factory's.               *)
LEMMA GroupSetSame ==
  ASSUME NEW pl, Shape(pl), NEW g \in DOMAIN pl.groups, NEW one,
         DOMAIN one = GroupFields,
         one.factory = pl.groups[g].factory, one.built = pl.groups[g].built,
         NEW q, q = [pl EXCEPT !.groups = [pl.groups EXCEPT ![g] = one]]
  PROVE  Same(pl, q)
<1>1. /\ DOMAIN q = DOMAIN pl
      /\ q.factories = pl.factories /\ q.ports = pl.ports /\ q.claims = pl.claims
      /\ q.junctions = pl.junctions /\ q.edges = pl.edges
      /\ q.groups = [pl.groups EXCEPT ![g] = one]
  BY DEF Shape, PlanFields, Collection
<1>2. DOMAIN q.groups = DOMAIN pl.groups
  BY <1>1
<1>3. \A h \in DOMAIN pl.groups : (h = g => q.groups[h] = one) /\ (h # g => q.groups[h] = pl.groups[h])
  BY <1>1
<1>4. SameGroups(pl, q)
  BY <1>2, <1>3 DEF SameGroups, Shape
<1>5. QED
  BY <1>1, <1>4, SameParts DEF Same

(* A wired plan stays wired when more ids are issued. *)
LEMMA WiredLater ==
  ASSUME NEW pl, NEW m \in Nat, Wired(pl, m)
  PROVE  Wired(pl, m + 1)
<1>1. Issued(pl, m + 1)
  BY IssuedLater DEF Wired
<1>2. QED
  BY <1>1 DEF Wired

(* A new group, listed by its factory, joins a plan.                       *)
LEMMA GroupPutMore ==
  ASSUME NEW pl, NEW m, Wired(pl, m), NEW f \in DOMAIN pl.factories,
         NEW g, g \notin DOMAIN pl.groups, NEW one,
         DOMAIN one = GroupFields, one.factory = f,
         one.built \in BOOLEAN, one.built => pl.factories[f].built,
         NEW q, q = [pl EXCEPT !.groups = Put(pl.groups, g, one),
                               !.factories[f].groups = @ \cup {g}]
  PROVE  More(pl, q)
<1>0. Shape(pl) /\ Lists(pl) /\ DOMAIN pl = PlanFields
  BY DEF Wired, Shape
<1>1. /\ DOMAIN q = DOMAIN pl
      /\ q.groups = Put(pl.groups, g, one)
      /\ q.ports = pl.ports /\ q.claims = pl.claims
      /\ q.junctions = pl.junctions /\ q.edges = pl.edges
      /\ DOMAIN q.factories = DOMAIN pl.factories
      /\ \A x \in DOMAIN pl.factories : x # f => q.factories[x] = pl.factories[x]
      /\ q.factories[f] = [pl.factories[f] EXCEPT !.groups = pl.factories[f].groups \cup {g}]
  BY <1>0 DEF PlanFields, Collection
<1>2. /\ DOMAIN q.groups = DOMAIN pl.groups \cup {g}
      /\ q.groups[g] = one
      /\ \A x \in DOMAIN pl.groups : q.groups[x] = pl.groups[x]
  BY <1>1 DEF Put
<1>3. \A x \in DOMAIN pl.factories :
        /\ DOMAIN q.factories[x] = DOMAIN pl.factories[x]
        /\ q.factories[x].built = pl.factories[x].built
        /\ q.factories[x].ports = pl.factories[x].ports
        /\ q.factories[x].claims = pl.factories[x].claims
        /\ x # f => q.factories[x].groups = pl.factories[x].groups
        /\ x = f => q.factories[x].groups = pl.factories[x].groups \cup {g}
  <2>1. \A x \in DOMAIN pl.factories : DOMAIN pl.factories[x] = FactoryFields
    BY <1>0 DEF Shape
  <2>2. QED
    BY <1>1, <2>1 DEF FactoryFields
<1>4. Shape(q)
  <2>1. \A x \in DOMAIN q.factories : DOMAIN q.factories[x] = FactoryFields /\ q.factories[x].built \in BOOLEAN
    BY <1>0, <1>1, <1>3 DEF Shape
  <2>2. \A x \in DOMAIN q.groups : DOMAIN q.groups[x] = GroupFields /\ q.groups[x].built \in BOOLEAN
    BY <1>0, <1>2 DEF Shape
  <2>3. QED
    BY <1>0, <1>1, <2>1, <2>2 DEF Shape
<1>5. MoreKept(pl, q)
  BY <1>1, <1>2, <1>3 DEF MoreKept, SamePort
<1>6. MoreLists(pl, q)
  BY <1>1, <1>2, <1>3 DEF MoreLists
<1>7. MoreParts(pl, q)
  BY <1>1, <1>2, <1>3 DEF MoreParts
<1>8. MoreBelts(pl, q)
  BY <1>1 DEF MoreBelts
<1>9. MoreRoom(pl, q)
  BY <1>1 DEF MoreRoom
<1>10. QED
  BY <1>4, <1>5, <1>6, <1>7, <1>8, <1>9 DEF More

(* An accepted count keeps the wiring, whether the group stays or goes.    *)
LEMMA SyncGroupWired ==
  ASSUME NEW pl, NEW m \in Nat, Wired(pl, m),
         NEW f \in DOMAIN pl.factories, pl.factories[f].built,
         NEW g \in DOMAIN pl.groups, NEW count, NEW takeSave
  PROVE  Wired(SyncGroup(pl, f, g, count, takeSave, m + 1), m + 1)
<1> DEFINE k == m + 1
           one == [pl.groups[g] EXCEPT !.count = count,
                                       !.mine = Rest(pl.groups[g].mine, count, takeSave)]
<1>0. Shape(pl) /\ Issued(pl, m) /\ DOMAIN pl = PlanFields /\ Wired(pl, k) /\ k \in Nat \ {0}
  BY WiredLater DEF Wired, Shape
<1>1. /\ \A p \in DOMAIN pl.ports : p[1] # k
      /\ \A e \in DOMAIN pl.edges : e[1] # k
  BY <1>0 DEF Issued
<1>2. CASE count = 0
  <2> DEFINE q == RemoveGroup(pl, g)
  <2>1. /\ q.ports = pl.ports
        /\ q.edges = Drop(pl.edges, Touching(pl, GroupEnd(g)))
        /\ DOMAIN q.factories = DOMAIN pl.factories
    BY <1>0 DEF RemoveGroup, PlanFields, Collection
  <2>2. Less(pl, q)
    BY RemoveGroupLess
  <2>3. Wired(q, k)
    BY <1>0, <2>2, LessWired
  <2>4. SyncGroup(pl, f, g, count, takeSave, k) = Resync(q, f, k)
    BY <1>2 DEF SyncGroup
  <2> HIDE DEF q, k
  <2>5. f \in DOMAIN q.factories /\ q.factories[f].built
    BY <2>1, <2>2 DEF Less, LessLists
  <2>6. \A e \in DOMAIN q.edges : e[1] # k
    BY <1>1, <2>1 DEF Drop, Restrict
  <2>7. Wired(Resync(q, f, k), k)
    BY <1>0, <1>1, <2>1, <2>3, <2>5, <2>6, ResyncWired
  <2>8. QED
    BY <2>4, <2>7 DEF k
<1>3. CASE count # 0
  <2> DEFINE q == [pl EXCEPT !.groups[g].count = count,
                             !.groups[g].mine = Rest(@, count, takeSave)]
  <2>1. q = [pl EXCEPT !.groups = [pl.groups EXCEPT ![g] = one]]
    BY <1>0 DEF Shape, PlanFields, Collection, GroupFields
  <2>2. DOMAIN one = GroupFields /\ one.factory = pl.groups[g].factory /\ one.built = pl.groups[g].built
    BY <1>0 DEF Shape, GroupFields
  <2>3. SyncGroup(pl, f, g, count, takeSave, k) = Resync(q, f, k)
    BY <1>3 DEF SyncGroup
  <2> HIDE DEF q, k, one
  <2>4. Same(pl, q)
    BY <1>0, <2>1, <2>2, GroupSetSame
  <2>5. Wired(q, k)
    BY <1>0, <2>4, SameWired
  <2>6. /\ f \in DOMAIN q.factories /\ q.factories[f].built
        /\ DOMAIN q.ports = DOMAIN pl.ports /\ q.edges = pl.edges
    BY <2>4 DEF Same, SameFactories, SamePorts
  <2>7. Wired(Resync(q, f, k), k)
    BY <1>0, <1>1, <2>5, <2>6, ResyncWired
  <2>8. QED
    BY <2>3, <2>7 DEF k
<1>4. QED
  BY <1>2, <1>3

(* So does an accepted recipe,                                             *)
LEMMA RetuneWired ==
  ASSUME NEW pl, NEW m \in Nat, Wired(pl, m),
         NEW f \in DOMAIN pl.factories, pl.factories[f].built,
         NEW g \in DOMAIN pl.groups, NEW r, NEW count, NEW takeSave
  PROVE  Wired(Retune(pl, f, g, r, count, takeSave, m + 1), m + 1)
<1> DEFINE k == m + 1
           one == [pl.groups[g] EXCEPT !.recipe = r, !.count = count,
                                       !.mine = Rest(pl.groups[g].mine, count, takeSave)]
           q == [pl EXCEPT !.groups[g].recipe = r,
                           !.groups[g].count = count,
                           !.groups[g].mine = Rest(@, count, takeSave)]
<1>0. Shape(pl) /\ Issued(pl, m) /\ DOMAIN pl = PlanFields /\ Wired(pl, k) /\ k \in Nat \ {0}
  BY WiredLater DEF Wired, Shape
<1>1. /\ \A p \in DOMAIN pl.ports : p[1] # k
      /\ \A e \in DOMAIN pl.edges : e[1] # k
  BY <1>0 DEF Issued
<1>2. q = [pl EXCEPT !.groups = [pl.groups EXCEPT ![g] = one]]
  BY <1>0 DEF Shape, PlanFields, Collection, GroupFields
<1>3. DOMAIN one = GroupFields /\ one.factory = pl.groups[g].factory /\ one.built = pl.groups[g].built
  BY <1>0 DEF Shape, GroupFields
<1>4. Retune(pl, f, g, r, count, takeSave, k) = Resync(q, f, k)
  BY DEF Retune
<1> HIDE DEF q, k, one
<1>5. Same(pl, q)
  BY <1>0, <1>2, <1>3, GroupSetSame
<1>6. Wired(q, k)
  BY <1>0, <1>5, SameWired
<1>7. /\ f \in DOMAIN q.factories /\ q.factories[f].built
      /\ DOMAIN q.ports = DOMAIN pl.ports /\ q.edges = pl.edges
  BY <1>5 DEF Same, SameFactories, SamePorts
<1>8. Wired(Resync(q, f, k), k)
  BY <1>0, <1>1, <1>6, <1>7, ResyncWired
<1>9. QED
  BY <1>4, <1>8 DEF k

(* and so does a new bank.                                                 *)
LEMMA SyncNewGroupWired ==
  ASSUME NEW pl, NEW m \in Nat, Wired(pl, m),
         NEW f \in DOMAIN pl.factories, pl.factories[f].built = TRUE,
         NEW r, NEW count
  PROVE  Wired(SyncNewGroup(pl, f, r, count, m + 1), m + 1)
<1> DEFINE k == m + 1
           one == NewGroup(f, r, count, TRUE)
           q == [pl EXCEPT !.groups = Put(@, <<k>>, one),
                           !.factories[f].groups = @ \cup {<<k>>}]
<1>0. Shape(pl) /\ Issued(pl, m) /\ DOMAIN pl = PlanFields /\ k \in Nat \ {0}
  BY DEF Wired, Shape
<1>1. /\ \A p \in DOMAIN pl.ports : p[1] # k
      /\ \A e \in DOMAIN pl.edges : e[1] # k
      /\ <<k>> \notin DOMAIN pl.groups
  BY <1>0 DEF Issued
<1>2. q = [pl EXCEPT !.groups = Put(pl.groups, <<k>>, one),
                     !.factories[f].groups = @ \cup {<<k>>}]
  BY <1>0 DEF PlanFields, Collection
<1>3. DOMAIN one = GroupFields /\ one.factory = f /\ one.built = TRUE
  BY DEF NewGroup, GroupFields
<1>4. SyncNewGroup(pl, f, r, count, k) = Resync(q, f, k)
  BY DEF SyncNewGroup
<1>5. <<k>>[1] = k /\ k \in 1..k
  BY <1>0
<1>i. Issued(pl, k)
  BY <1>0, IssuedLater
<1>p. /\ q.ports = pl.ports /\ q.edges = pl.edges /\ q.junctions = pl.junctions
      /\ q.claims = pl.claims /\ DOMAIN q.factories = DOMAIN pl.factories
      /\ DOMAIN q.groups = DOMAIN pl.groups \cup {<<k>>}
  BY <1>0 DEF PlanFields, Collection, Put
<1> HIDE DEF q, k, one
<1>6. More(pl, q)
  BY <1>1, <1>2, <1>3, GroupPutMore
<1>7. Issued(q, k)
  BY <1>5, <1>i, <1>p DEF Issued
<1>8. Wired(q, k)
  BY <1>6, <1>7, MoreWired
<1>9. f \in DOMAIN q.factories /\ q.factories[f].built
  BY <1>6 DEF More, MoreKept
<1>10. Wired(Resync(q, f, k), k)
  BY <1>0, <1>1, <1>8, <1>9, <1>p, ResyncWired
<1>11. QED
  BY <1>4, <1>10 DEF k

(* One factory looks different, but it owns what it owned.                 *)
LEMMA FactorySetSame ==
  ASSUME NEW pl, Shape(pl), NEW f \in DOMAIN pl.factories, NEW one,
         DOMAIN one = FactoryFields,
         one.groups = pl.factories[f].groups, one.ports = pl.factories[f].ports,
         one.claims = pl.factories[f].claims, one.built = pl.factories[f].built,
         NEW q, q.factories = [pl.factories EXCEPT ![f] = one]
  PROVE  SameFactories(pl, q)
<1>1. DOMAIN q.factories = DOMAIN pl.factories
  OBVIOUS
<1>2. \A x \in DOMAIN pl.factories :
        (x = f => q.factories[x] = one) /\ (x # f => q.factories[x] = pl.factories[x])
  OBVIOUS
<1>3. QED
  BY <1>1, <1>2 DEF SameFactories, Shape

(* The commands that touch nothing the wiring is made of.                  *)
LEMMA MoveFactoryPinSame ==
  ASSUME Inv, NEW f, NEW at, MoveFactoryPin(f, at)
  PROVE  Same(plan, plan') /\ made' = made
<1>0. Shape(plan) /\ DOMAIN plan = PlanFields /\ f \in DOMAIN plan.factories /\ made' = made
  BY DEF Inv, Wired, Shape, MoveFactoryPin, Planned, Edit
<1> DEFINE one == [plan.factories[f] EXCEPT !.at = at]
           q == plan'
<1>1. /\ DOMAIN q = DOMAIN plan
      /\ q.groups = plan.groups /\ q.ports = plan.ports /\ q.claims = plan.claims
      /\ q.junctions = plan.junctions /\ q.edges = plan.edges
      /\ q.factories = [plan.factories EXCEPT ![f] = one]
  BY <1>0 DEF MoveFactoryPin, Edit, Moved, PlanFields, Collection
<1>2. /\ DOMAIN one = FactoryFields
      /\ one.groups = plan.factories[f].groups /\ one.ports = plan.factories[f].ports
      /\ one.claims = plan.factories[f].claims /\ one.built = plan.factories[f].built
  BY <1>0 DEF Shape, FactoryFields
<1> HIDE DEF one, q
<1>3. SameFactories(plan, q)
  BY <1>0, <1>1, <1>2, FactorySetSame
<1>4. QED
  BY <1>0, <1>1, <1>3, SameParts DEF Same, q

(* Linking a factory to the built one it replaces moves no wiring. *)
LEMMA SetFactoryReplacesSame ==
  ASSUME Inv, NEW f, NEW old, SetFactoryReplaces(f, old)
  PROVE  Same(plan, plan') /\ made' = made
<1>0. Shape(plan) /\ DOMAIN plan = PlanFields /\ f \in DOMAIN plan.factories /\ made' = made
  BY DEF Inv, Wired, Shape, SetFactoryReplaces, Edit
<1> DEFINE one == [plan.factories[f] EXCEPT !.replaces = old]
           q == plan'
<1>1. /\ DOMAIN q = DOMAIN plan
      /\ q.groups = plan.groups /\ q.ports = plan.ports /\ q.claims = plan.claims
      /\ q.junctions = plan.junctions /\ q.edges = plan.edges
      /\ q.factories = [plan.factories EXCEPT ![f] = one]
  BY <1>0 DEF SetFactoryReplaces, Edit, PlanFields, Collection
<1>2. /\ DOMAIN one = FactoryFields
      /\ one.groups = plan.factories[f].groups /\ one.ports = plan.factories[f].ports
      /\ one.claims = plan.factories[f].claims /\ one.built = plan.factories[f].built
  BY <1>0 DEF Shape, FactoryFields
<1> HIDE DEF one, q
<1>3. SameFactories(plan, q)
  BY <1>0, <1>1, <1>2, FactorySetSame
<1>4. QED
  BY <1>0, <1>1, <1>3, SameParts DEF Same, q

(* Choosing a factory's style guide moves no wiring. *)
LEMMA SetFactoryThemeSame ==
  ASSUME Inv, NEW f, NEW s, SetFactoryTheme(f, s)
  PROVE  Same(plan, plan') /\ made' = made
<1>0. Shape(plan) /\ DOMAIN plan = PlanFields /\ f \in DOMAIN plan.factories /\ made' = made
  BY DEF Inv, Wired, Shape, SetFactoryTheme, Edit
<1> DEFINE one == [plan.factories[f] EXCEPT !.guide = s]
           q == plan'
<1>1. /\ DOMAIN q = DOMAIN plan
      /\ q.groups = plan.groups /\ q.ports = plan.ports /\ q.claims = plan.claims
      /\ q.junctions = plan.junctions /\ q.edges = plan.edges
      /\ q.factories = [plan.factories EXCEPT ![f] = one]
  BY <1>0 DEF SetFactoryTheme, Edit, PlanFields, Collection
<1>2. /\ DOMAIN one = FactoryFields
      /\ one.groups = plan.factories[f].groups /\ one.ports = plan.factories[f].ports
      /\ one.claims = plan.factories[f].claims /\ one.built = plan.factories[f].built
  BY <1>0 DEF Shape, FactoryFields
<1> HIDE DEF one, q
<1>3. SameFactories(plan, q)
  BY <1>0, <1>1, <1>2, FactorySetSame
<1>4. QED
  BY <1>0, <1>1, <1>3, SameParts DEF Same, q

(* Deleting a style guide moves no wiring. *)
LEMMA DeleteStyleGuideSame ==
  ASSUME Inv, NEW s, DeleteStyleGuide(s)
  PROVE  Same(plan, plan') /\ made' = made
<1>0. Shape(plan) /\ DOMAIN plan = PlanFields /\ made' = made
  BY DEF Inv, Wired, Shape, DeleteStyleGuide, Edit
<1> DEFINE q == plan'
<1>1. /\ DOMAIN q = DOMAIN plan
      /\ q.groups = plan.groups /\ q.ports = plan.ports /\ q.claims = plan.claims
      /\ q.junctions = plan.junctions /\ q.edges = plan.edges
      /\ q.factories = [f \in DOMAIN plan.factories |->
                          IF plan.factories[f].guide = s THEN [plan.factories[f] EXCEPT !.guide = None]
                          ELSE plan.factories[f]]
  BY <1>0 DEF DeleteStyleGuide, Edit, PlanFields, Collection
<1> HIDE DEF q
<1>2. DOMAIN q.factories = DOMAIN plan.factories
  BY <1>1
<1>3. ASSUME NEW f \in DOMAIN plan.factories
      PROVE  /\ DOMAIN q.factories[f] = DOMAIN plan.factories[f]
             /\ q.factories[f].groups = plan.factories[f].groups
             /\ q.factories[f].ports = plan.factories[f].ports
             /\ q.factories[f].claims = plan.factories[f].claims
             /\ q.factories[f].built = plan.factories[f].built
  <2>1. DOMAIN plan.factories[f] = FactoryFields
    BY <1>0 DEF Shape
  <2>2. \/ q.factories[f] = plan.factories[f]
        \/ q.factories[f] = [plan.factories[f] EXCEPT !.guide = None]
    BY <1>1
  <2>3. QED
    BY <2>1, <2>2 DEF FactoryFields
<1>4. SameFactories(plan, q)
  BY <1>2, <1>3 DEF SameFactories
<1>5. QED
  BY <1>0, <1>1, <1>4, SameParts DEF Same, q

(* Changing a group's recipe moves no wiring. *)
LEMMA SetGroupRecipeSame ==
  ASSUME Inv, NEW g, NEW recipe, SetGroupRecipe(g, recipe)
  PROVE  Same(plan, plan') /\ made' = made
<1>0. Shape(plan) /\ DOMAIN plan = PlanFields /\ g \in DOMAIN plan.groups /\ made' = made
  BY DEF Inv, Wired, Shape, SetGroupRecipe, Planned, Edit
<1> DEFINE one == [plan.groups[g] EXCEPT !.recipe = recipe]
           q == plan'
<1>1. q = [plan EXCEPT !.groups = [plan.groups EXCEPT ![g] = one]]
  BY <1>0 DEF SetGroupRecipe, Edit, PlanFields, Collection
<1>2. /\ DOMAIN one = GroupFields
      /\ one.factory = plan.groups[g].factory /\ one.built = plan.groups[g].built
  BY <1>0 DEF Shape, GroupFields
<1> HIDE DEF one, q
<1>3. QED
  BY <1>0, <1>1, <1>2, GroupSetSame DEF q

(* Changing a group's count moves no wiring. *)
LEMMA SetGroupCountSame ==
  ASSUME Inv, NEW g, NEW count, SetGroupCount(g, count)
  PROVE  Same(plan, plan') /\ made' = made
<1>0. Shape(plan) /\ DOMAIN plan = PlanFields /\ g \in DOMAIN plan.groups /\ made' = made
  BY DEF Inv, Wired, Shape, SetGroupCount, Edit
<1> DEFINE one == IF ~plan.groups[g].built THEN [plan.groups[g] EXCEPT !.count = count]
                  ELSE [plan.groups[g] EXCEPT
                          !.mine = IF count = plan.groups[g].count THEN 0 ELSE count]
           q == plan'
<1>1. q = [plan EXCEPT !.groups = [plan.groups EXCEPT ![g] = one]]
  BY <1>0 DEF SetGroupCount, Edit, PlanFields, Collection
<1>2. /\ DOMAIN one = GroupFields
      /\ one.factory = plan.groups[g].factory /\ one.built = plan.groups[g].built
  BY <1>0 DEF Shape, GroupFields
<1> HIDE DEF one, q
<1>3. QED
  BY <1>0, <1>1, <1>2, GroupSetSame DEF q

(* Tuning a claimed node moves no wiring. *)
LEMMA SetClaimSame ==
  ASSUME Inv, NEW c, SetClaim(c)
  PROVE  Same(plan, plan') /\ made' = made
<1>0. Shape(plan) /\ DOMAIN plan = PlanFields /\ c \in DOMAIN plan.claims /\ made' = made
  BY DEF Inv, Wired, Shape, SetClaim, Edit
<1> DEFINE one == [plan.claims[c] EXCEPT !.built = FALSE]
           q == plan'
<1>1. /\ DOMAIN q = DOMAIN plan
      /\ q.groups = plan.groups /\ q.ports = plan.ports /\ q.factories = plan.factories
      /\ q.junctions = plan.junctions /\ q.edges = plan.edges
      /\ q.claims = [plan.claims EXCEPT ![c] = one]
  BY <1>0 DEF SetClaim, Edit, PlanFields, Collection
<1>2. /\ DOMAIN one = ClaimFields
      /\ one.factory = plan.claims[c].factory /\ one.built = FALSE
  BY <1>0 DEF Shape, ClaimFields
<1> HIDE DEF one, q
<1>3. DOMAIN q.claims = DOMAIN plan.claims
  BY <1>1
<1>4. \A x \in DOMAIN plan.claims : (x = c => q.claims[x] = one) /\ (x # c => q.claims[x] = plan.claims[x])
  BY <1>1
<1>5. SameClaims(plan, q)
  BY <1>0, <1>2, <1>3, <1>4 DEF SameClaims, Shape
<1>6. QED
  BY <1>0, <1>1, <1>5, SameParts DEF Same, q

(* A new cargo route moves no wiring. *)
LEMMA AddCargoRouteSame ==
  ASSUME Inv, NEW kind, NEW from, NEW to, AddCargoRoute(kind, from, to)
  PROVE  Same(plan, plan') /\ made' = made + 1
<1>0. /\ Shape(plan) /\ DOMAIN plan = PlanFields /\ made' = made + 1
      /\ from \in DOMAIN plan.ports /\ to \in DOMAIN plan.ports
  BY DEF Inv, Wired, Shape, AddCargoRoute, Create, Issue, n
<1> DEFINE q == plan'
<1>1. /\ DOMAIN q = DOMAIN plan
      /\ q.groups = plan.groups /\ q.claims = plan.claims /\ q.factories = plan.factories
      /\ q.junctions = plan.junctions /\ q.edges = plan.edges
      /\ q.ports = [plan.ports EXCEPT ![from].route = New, ![to].route = New]
  BY <1>0 DEF AddCargoRoute, Create, Issue, PlanFields, Collection
<1> HIDE DEF q
<1>2. DOMAIN q.ports = DOMAIN plan.ports
  BY <1>1
<1>3. ASSUME NEW p \in DOMAIN plan.ports
      PROVE  SamePort(plan, q, p)
  <2>1. DOMAIN plan.ports[p] = PortFields
    BY <1>0 DEF Shape
  <2>2. q.ports[p] = plan.ports[p] \/ q.ports[p] = [plan.ports[p] EXCEPT !.route = New]
    <3>1. CASE from = to
      BY <1>0, <1>1, <2>1, <3>1 DEF PortFields
    <3>2. CASE from # to
      BY <1>0, <1>1, <2>1, <3>2 DEF PortFields
    <3>3. QED
      BY <3>1, <3>2
  <2>3. QED
    BY <2>1, <2>2 DEF PortFields, SamePort
<1>4. SamePorts(plan, q)
  BY <1>2, <1>3 DEF SamePorts
<1>5. QED
  BY <1>0, <1>1, <1>4, SameParts DEF Same, q

(* Style guides, power lines, route kinds, switches and marks are no part of
   the wiring.                                                             *)
LEMMA UnwiredSame ==
  ASSUME Inv, NEW q, DOMAIN q = DOMAIN plan,
         q.factories = plan.factories, q.groups = plan.groups, q.ports = plan.ports,
         q.claims = plan.claims, q.junctions = plan.junctions, q.edges = plan.edges
  PROVE  Same(plan, q)
  BY SameParts DEF Same

(* The commands on guides, routes, switches and build marks move no wiring. *)
LEMMA UnwiredSteps ==
  ASSUME Inv
  PROVE  /\ CreateStyleGuide => Same(plan, plan') /\ made' = made + 1
         /\ \A from, to : AddPowerLine(from, to) => Same(plan, plan') /\ made' = made + 1
         /\ \A r, kind : SetRouteSpec(r, kind) => Same(plan, plan') /\ made' = made
         /\ \A r : AddPrioritySwitch(r) => Same(plan, plan') /\ made' = made + 1
         /\ \A s : DeleteSwitch(s) => Same(plan, plan') /\ made' = made
         /\ \A x, kept : SetBuildDone(x, kept) => Same(plan, plan') /\ made' = made
<1>0. DOMAIN plan = PlanFields
  BY DEF Inv, Wired, Shape
<1> DEFINE Unwired(q) ==
             /\ DOMAIN q = DOMAIN plan
             /\ q.factories = plan.factories /\ q.groups = plan.groups /\ q.ports = plan.ports
             /\ q.claims = plan.claims /\ q.junctions = plan.junctions /\ q.edges = plan.edges
<1>1. CreateStyleGuide => Unwired(plan') /\ made' = made + 1
  BY <1>0 DEF CreateStyleGuide, Create, Issue, n, PlanFields, Collection
<1>2. ASSUME NEW from, NEW to, AddPowerLine(from, to)
      PROVE  Unwired(plan') /\ made' = made + 1
  BY <1>0, <1>2 DEF AddPowerLine, Create, Issue, n, PlanFields, Collection
<1>3. ASSUME NEW r, NEW kind, SetRouteSpec(r, kind)
      PROVE  Unwired(plan') /\ made' = made
  BY <1>0, <1>3 DEF SetRouteSpec, Edit, PlanFields, Collection
<1>4. ASSUME NEW r, AddPrioritySwitch(r)
      PROVE  Unwired(plan') /\ made' = made + 1
  BY <1>0, <1>4 DEF AddPrioritySwitch, Create, Issue, n, PlanFields, Collection
<1>5. ASSUME NEW s, DeleteSwitch(s)
      PROVE  Unwired(plan') /\ made' = made
  BY <1>0, <1>5 DEF DeleteSwitch, Edit, PlanFields, Collection
<1>6. ASSUME NEW x, NEW kept, SetBuildDone(x, kept)
      PROVE  Unwired(plan') /\ made' = made
  BY <1>0, <1>6 DEF SetBuildDone, Edit, PlanFields, Collection
<1>7. Unwired(plan') => Same(plan, plan')
  BY UnwiredSame
<1> HIDE DEF Unwired
<1>8. QED
  BY <1>1, <1>2, <1>3, <1>4, <1>5, <1>6, <1>7

------------------------------------------------------------------------------
(* Commands that take away *)

(* Deleting a belt only takes away. *)
LEMMA DeleteEdgeLess ==
  ASSUME Inv, NEW e, DeleteEdge(e)
  PROVE  Less(plan, plan') /\ made' = made
<1>0. Shape(plan) /\ Lists(plan) /\ DOMAIN plan = PlanFields /\ made' = made
  BY DEF Inv, Wired, Shape, DeleteEdge, Edit
<1> DEFINE q == plan'
<1>1. /\ DOMAIN q = DOMAIN plan
      /\ q.factories = plan.factories /\ q.groups = plan.groups /\ q.ports = plan.ports
      /\ q.claims = plan.claims /\ q.junctions = plan.junctions
      /\ q.edges = Drop(plan.edges, {e})
  BY <1>0 DEF DeleteEdge, Edit, PlanFields, Collection
<1> HIDE DEF q
<1>2. DOMAIN q.edges \subseteq DOMAIN plan.edges /\ \A x \in DOMAIN q.edges : q.edges[x] = plan.edges[x]
  BY <1>1 DEF Drop, Restrict
<1>3. Shape(q)
  BY <1>0, <1>1, <1>2 DEF Shape
<1>4. LessLists(plan, q)
  BY <1>0, <1>1 DEF LessLists, Lists
<1>5. LessParts(plan, q)
  BY <1>0, <1>1 DEF LessParts, SamePort, Lists
<1>6. LessBelts(plan, q)
  BY <1>0, <1>1, <1>2 DEF LessBelts, Lists
<1>7. QED
  BY <1>0, <1>3, <1>4, <1>5, <1>6 DEF Less, q

(* Releasing a node only takes away. *)
LEMMA ReleaseNodeLess ==
  ASSUME Inv, NEW c, ReleaseNode(c)
  PROVE  Less(plan, plan') /\ made' = made
<1>0. /\ Shape(plan) /\ Lists(plan) /\ DOMAIN plan = PlanFields /\ made' = made
      /\ c \in DOMAIN plan.claims
  BY DEF Inv, Wired, Shape, ReleaseNode, Planned, Edit
<1> DEFINE q == plan'
           f == plan.claims[c].factory
<1>1. /\ DOMAIN q = DOMAIN plan
      /\ q.groups = plan.groups /\ q.ports = plan.ports /\ q.edges = plan.edges
      /\ q.junctions = plan.junctions
      /\ q.claims = Drop(plan.claims, {c})
      /\ DOMAIN q.factories = DOMAIN plan.factories
      /\ \A x \in DOMAIN plan.factories : x # f => q.factories[x] = plan.factories[x]
      /\ f \in DOMAIN plan.factories =>
           q.factories[f] = [plan.factories[f] EXCEPT !.claims = plan.factories[f].claims \ {c}]
  BY <1>0 DEF ReleaseNode, Edit, PlanFields, Collection
<1> HIDE DEF q
<1>2. DOMAIN q.claims = DOMAIN plan.claims \ {c} /\ \A x \in DOMAIN q.claims : q.claims[x] = plan.claims[x]
  BY <1>1 DEF Drop, Restrict
<1>3. \A x \in DOMAIN plan.factories :
        /\ DOMAIN q.factories[x] = DOMAIN plan.factories[x]
        /\ q.factories[x].built = plan.factories[x].built
        /\ q.factories[x].groups = plan.factories[x].groups
        /\ q.factories[x].ports = plan.factories[x].ports
        /\ q.factories[x].claims = plan.factories[x].claims \ {c}
  <2>1. \A x \in DOMAIN plan.factories : DOMAIN plan.factories[x] = FactoryFields
    BY <1>0 DEF Shape
  <2>2. \A x \in DOMAIN plan.factories : x # f => plan.factories[x].claims = plan.factories[x].claims \ {c}
    BY <1>0 DEF Lists
  <2>3. QED
    BY <1>1, <2>1, <2>2 DEF FactoryFields
<1>4. Shape(q)
  BY <1>0, <1>1, <1>2, <1>3 DEF Shape
<1>5. \A x \in DOMAIN q.factories :
        /\ q.factories[x].groups = plan.factories[x].groups \cap DOMAIN q.groups
        /\ q.factories[x].ports = plan.factories[x].ports \cap DOMAIN q.ports
        /\ q.factories[x].claims = plan.factories[x].claims \cap DOMAIN q.claims
  <2>1. \A x \in DOMAIN plan.factories :
          /\ plan.factories[x].groups \subseteq DOMAIN plan.groups
          /\ plan.factories[x].ports \subseteq DOMAIN plan.ports
          /\ plan.factories[x].claims \subseteq DOMAIN plan.claims
    BY <1>0 DEF Lists
  <2>2. QED
    BY ZenonT(60), <1>1, <1>2, <1>3, <2>1
<1>6. LessLists(plan, q)
  BY <1>1, <1>3, <1>5 DEF LessLists
<1>7. LessParts(plan, q)
  BY <1>0, <1>1, <1>2, <1>3 DEF LessParts, SamePort, Lists
<1>8. LessBelts(plan, q)
  BY <1>0, <1>1, <1>3 DEF LessBelts, Lists
<1>9. QED
  BY <1>0, <1>4, <1>6, <1>7, <1>8 DEF Less, q

(* The commands that delete only take away. *)
LEMMA DeleteSteps ==
  ASSUME Inv
  PROVE  /\ \A f : DeleteFactory(f) => Less(plan, plan') /\ made' = made
         /\ \A g : DeleteGroup(g) => Less(plan, plan') /\ made' = made
         /\ \A p : DeletePort(p) => Less(plan, plan') /\ made' = made
         /\ \A j : DeleteJunction(j) => Less(plan, plan') /\ made' = made
         /\ \A r : DeleteRoute(r) => Less(plan, plan') /\ made' = made
<1>0. Wired(plan, made) /\ Lists(plan)
  BY DEF Inv, Wired
<1>1. ASSUME NEW f, DeleteFactory(f)
      PROVE  Less(plan, plan') /\ made' = made
  <2>1. f \in DOMAIN plan.factories /\ plan' = RemoveFactory(plan, f) /\ made' = made
    BY <1>1 DEF DeleteFactory, Planned, Edit
  <2>2. QED
    BY <1>0, <2>1, RemoveFactoryLess
<1>2. ASSUME NEW g, DeleteGroup(g)
      PROVE  Less(plan, plan') /\ made' = made
  <2>1. g \in DOMAIN plan.groups /\ plan' = RemoveGroup(plan, g) /\ made' = made
    BY <1>2 DEF DeleteGroup, Planned, Edit
  <2>2. QED
    BY <1>0, <2>1, RemoveGroupLess
<1>3. ASSUME NEW p, DeletePort(p)
      PROVE  Less(plan, plan') /\ made' = made
  <2> DEFINE f == plan.ports[p].factory
  <2>1. p \in DOMAIN plan.ports /\ plan' = RemovePorts(plan, f, {p}) /\ made' = made
    BY <1>3 DEF DeletePort, Planned, Edit, RemovePort
  <2>2. f \in DOMAIN plan.factories /\ {p} \subseteq plan.factories[f].ports
    BY <1>0, <2>1 DEF Lists
  <2>3. QED
    BY <1>0, <2>1, <2>2, RemovePortsLess
<1>4. ASSUME NEW j, DeleteJunction(j)
      PROVE  Less(plan, plan') /\ made' = made
  <2>1. j \in DOMAIN plan.junctions /\ plan' = RemoveJunction(plan, j) /\ made' = made
    BY <1>4 DEF DeleteJunction, Edit
  <2>2. QED
    BY <1>0, <2>1, RemoveJunctionLess
<1>5. ASSUME NEW r, DeleteRoute(r)
      PROVE  Less(plan, plan') /\ made' = made
  <2>1. plan' = RemoveRoutes(plan, {r}) /\ made' = made
    BY <1>5 DEF DeleteRoute, Edit, RemoveRoute
  <2>2. QED
    BY <1>0, <2>1, RemoveRoutesLess
<1>6. QED
  BY <1>1, <1>2, <1>3, <1>4, <1>5

------------------------------------------------------------------------------
(* Commands that add *)

(* A command that issues ids issues them under its own number.             *)
LEMMA NewIsFresh ==
  ASSUME Inv
  PROVE  /\ made \in Nat /\ n = made + 1 /\ n \in Nat \ {0} /\ New[1] = n
         /\ n \notin 1..made /\ n \in 1..n
         /\ Issued(plan, n)
         /\ New \notin DOMAIN plan.factories /\ New \notin DOMAIN plan.groups
         /\ New \notin DOMAIN plan.ports /\ New \notin DOMAIN plan.junctions
         /\ New \notin DOMAIN plan.edges /\ New \notin DOMAIN plan.claims
<1>1. made \in Nat /\ Issued(plan, made)
  BY DEF Inv, Wired
<1>2. n = made + 1 /\ n \in Nat \ {0} /\ New[1] = n /\ n \notin 1..made /\ n \in 1..n /\ made <= n
  BY <1>1 DEF n, New
<1>3. Issued(plan, n)
  BY <1>1, <1>2, IssuedLater
<1>4. QED
  BY <1>1, <1>2, <1>3 DEF Issued

(* A new factory adds to a wired plan. *)
LEMMA CreateFactoryMore ==
  ASSUME Inv, NEW at, CreateFactory(at)
  PROVE  More(plan, plan') /\ Issued(plan', n) /\ made' = n
<1>0. Shape(plan) /\ Lists(plan) /\ DOMAIN plan = PlanFields /\ made' = n
  BY DEF Inv, Wired, Shape, CreateFactory, Create, Issue
<1> DEFINE q == plan'
           one == NewFactory(at, FALSE)
<1>1. /\ DOMAIN q = DOMAIN plan
      /\ q.groups = plan.groups /\ q.ports = plan.ports /\ q.edges = plan.edges
      /\ q.claims = plan.claims /\ q.junctions = plan.junctions
      /\ q.factories = Put(plan.factories, New, one)
  BY <1>0 DEF CreateFactory, Create, Issue, PlanFields, Collection
<1>2. /\ DOMAIN one = FactoryFields /\ one.built = FALSE
      /\ one.groups = {} /\ one.ports = {} /\ one.claims = {}
  BY DEF NewFactory, FactoryFields
<1> HIDE DEF q, one
<1>3. /\ DOMAIN q.factories = DOMAIN plan.factories \cup {New}
      /\ q.factories[New] = one
      /\ \A x \in DOMAIN plan.factories : q.factories[x] = plan.factories[x]
  BY <1>1, NewIsFresh DEF Put
<1>4. Shape(q)
  <2>1. \A x \in DOMAIN q.factories : DOMAIN q.factories[x] = FactoryFields /\ q.factories[x].built \in BOOLEAN
    BY <1>0, <1>2, <1>3 DEF Shape
  <2>2. QED
    BY <1>0, <1>1, <2>1 DEF Shape
<1>5. Issued(q, n)
  BY <1>1, <1>3, NewIsFresh DEF Issued
<1>6. MoreKept(plan, q)
  BY <1>1, <1>3 DEF MoreKept, SamePort
<1>7. MoreLists(plan, q)
  BY <1>1, <1>2, <1>3, NewIsFresh DEF MoreLists
<1>8. MoreParts(plan, q) /\ MoreBelts(plan, q) /\ MoreRoom(plan, q)
  BY <1>1 DEF MoreParts, MoreBelts, MoreRoom
<1>9. QED
  BY <1>0, <1>4, <1>5, <1>6, <1>7, <1>8 DEF More, q

(* A new machine group adds to a wired plan. *)
LEMMA AddGroupMore ==
  ASSUME Inv, NEW f, NEW recipe, NEW count, AddGroup(f, recipe, count)
  PROVE  More(plan, plan') /\ Issued(plan', n) /\ made' = n
<1>0. /\ Wired(plan, made) /\ DOMAIN plan = PlanFields /\ made' = n
      /\ f \in DOMAIN plan.factories
  BY DEF Inv, Wired, Shape, AddGroup, Create, Issue
<1> DEFINE q == plan'
           one == NewGroup(f, recipe, count, FALSE)
<1>1. q = [plan EXCEPT !.groups = Put(plan.groups, New, one),
                       !.factories[f].groups = @ \cup {New}]
  BY <1>0 DEF AddGroup, Create, Issue, PlanFields, Collection
<1>2. DOMAIN one = GroupFields /\ one.factory = f /\ one.built = FALSE
  BY DEF NewGroup, GroupFields
<1>3. /\ DOMAIN q.groups = DOMAIN plan.groups \cup {New}
      /\ DOMAIN q.factories = DOMAIN plan.factories /\ q.ports = plan.ports
      /\ q.edges = plan.edges /\ q.claims = plan.claims /\ q.junctions = plan.junctions
  BY <1>0, <1>1 DEF PlanFields, Collection, Put
<1> HIDE DEF q, one
<1>4. More(plan, q)
  BY <1>0, <1>1, <1>2, NewIsFresh, GroupPutMore
<1>5. Issued(q, n)
  BY <1>3, NewIsFresh DEF Issued
<1>6. QED
  BY <1>0, <1>4, <1>5 DEF q

(* A new port adds to a wired plan. *)
LEMMA AddPortMore ==
  ASSUME Inv, NEW f, NEW dir, NEW item, AddPort(f, dir, item)
  PROVE  More(plan, plan') /\ Issued(plan', n) /\ made' = n
<1>0. /\ Shape(plan) /\ Lists(plan) /\ DOMAIN plan = PlanFields /\ made' = n
      /\ f \in DOMAIN plan.factories
  BY DEF Inv, Wired, Shape, AddPort, Create, Issue
<1> DEFINE q == plan'
           one == NewPort(f, dir, item, FALSE)
<1>1. /\ DOMAIN q = DOMAIN plan
      /\ q.groups = plan.groups /\ q.claims = plan.claims
      /\ q.junctions = plan.junctions /\ q.edges = plan.edges
      /\ q.ports = Put(plan.ports, New, one)
      /\ DOMAIN q.factories = DOMAIN plan.factories
      /\ \A x \in DOMAIN plan.factories : x # f => q.factories[x] = plan.factories[x]
      /\ q.factories[f] = [plan.factories[f] EXCEPT !.ports = plan.factories[f].ports \cup {New}]
  BY <1>0 DEF AddPort, Create, Issue, PlanFields, Collection
<1>2. DOMAIN one = PortFields /\ one.factory = f /\ one.built = FALSE
  BY DEF NewPort, PortFields
<1> HIDE DEF q, one
<1>3. /\ DOMAIN q.ports = DOMAIN plan.ports \cup {New}
      /\ q.ports[New] = one
      /\ \A x \in DOMAIN plan.ports : q.ports[x] = plan.ports[x]
  BY <1>1, NewIsFresh DEF Put
<1>4. \A x \in DOMAIN plan.factories :
        /\ DOMAIN q.factories[x] = DOMAIN plan.factories[x]
        /\ q.factories[x].built = plan.factories[x].built
        /\ q.factories[x].groups = plan.factories[x].groups
        /\ q.factories[x].claims = plan.factories[x].claims
        /\ x # f => q.factories[x].ports = plan.factories[x].ports
        /\ x = f => q.factories[x].ports = plan.factories[x].ports \cup {New}
  <2>1. \A x \in DOMAIN plan.factories : DOMAIN plan.factories[x] = FactoryFields
    BY <1>0 DEF Shape
  <2>2. QED
    BY <1>1, <2>1 DEF FactoryFields
<1>5. Shape(q)
  <2>1. \A x \in DOMAIN q.factories : DOMAIN q.factories[x] = FactoryFields /\ q.factories[x].built \in BOOLEAN
    BY <1>0, <1>1, <1>4 DEF Shape
  <2>2. \A x \in DOMAIN q.ports : DOMAIN q.ports[x] = PortFields /\ q.ports[x].built \in BOOLEAN
    BY <1>0, <1>2, <1>3 DEF Shape
  <2>3. QED
    BY <1>0, <1>1, <2>1, <2>2 DEF Shape
<1>6. Issued(q, n)
  BY <1>1, <1>3, NewIsFresh DEF Issued
<1>7. MoreKept(plan, q)
  BY <1>1, <1>3, <1>4 DEF MoreKept, SamePort
<1>8. MoreLists(plan, q)
  BY <1>1, <1>2, <1>3, <1>4, NewIsFresh DEF MoreLists
<1>9. MoreParts(plan, q) /\ MoreBelts(plan, q) /\ MoreRoom(plan, q)
  BY <1>0, <1>1, <1>2, <1>3 DEF MoreParts, MoreBelts, MoreRoom
<1>10. QED
  BY <1>0, <1>5, <1>6, <1>7, <1>8, <1>9 DEF More, q

(* A claimed node adds to a wired plan. *)
LEMMA ClaimNodeMore ==
  ASSUME Inv, NEW f, NEW node, ClaimNode(f, node)
  PROVE  More(plan, plan') /\ Issued(plan', n) /\ made' = n
<1>0. /\ Shape(plan) /\ Lists(plan) /\ DOMAIN plan = PlanFields /\ made' = n
      /\ f \in DOMAIN plan.factories
  BY DEF Inv, Wired, Shape, ClaimNode, Create, Issue
<1> DEFINE q == plan'
           one == NewClaim(f, node, FALSE)
<1>1. /\ DOMAIN q = DOMAIN plan
      /\ q.groups = plan.groups /\ q.ports = plan.ports
      /\ q.junctions = plan.junctions /\ q.edges = plan.edges
      /\ q.claims = Put(plan.claims, New, one)
      /\ DOMAIN q.factories = DOMAIN plan.factories
      /\ \A x \in DOMAIN plan.factories : x # f => q.factories[x] = plan.factories[x]
      /\ q.factories[f] = [plan.factories[f] EXCEPT !.claims = plan.factories[f].claims \cup {New}]
  BY <1>0 DEF ClaimNode, Create, Issue, PlanFields, Collection
<1>2. DOMAIN one = ClaimFields /\ one.factory = f /\ one.built = FALSE
  BY DEF NewClaim, ClaimFields
<1> HIDE DEF q, one
<1>3. /\ DOMAIN q.claims = DOMAIN plan.claims \cup {New}
      /\ q.claims[New] = one
      /\ \A x \in DOMAIN plan.claims : q.claims[x] = plan.claims[x]
  BY <1>1, NewIsFresh DEF Put
<1>4. \A x \in DOMAIN plan.factories :
        /\ DOMAIN q.factories[x] = DOMAIN plan.factories[x]
        /\ q.factories[x].built = plan.factories[x].built
        /\ q.factories[x].groups = plan.factories[x].groups
        /\ q.factories[x].ports = plan.factories[x].ports
        /\ x # f => q.factories[x].claims = plan.factories[x].claims
        /\ x = f => q.factories[x].claims = plan.factories[x].claims \cup {New}
  <2>1. \A x \in DOMAIN plan.factories : DOMAIN plan.factories[x] = FactoryFields
    BY <1>0 DEF Shape
  <2>2. QED
    BY <1>1, <2>1 DEF FactoryFields
<1>5. Shape(q)
  <2>1. \A x \in DOMAIN q.factories : DOMAIN q.factories[x] = FactoryFields /\ q.factories[x].built \in BOOLEAN
    BY <1>0, <1>1, <1>4 DEF Shape
  <2>2. \A x \in DOMAIN q.claims : DOMAIN q.claims[x] = ClaimFields /\ q.claims[x].built \in BOOLEAN
    BY <1>0, <1>2, <1>3 DEF Shape
  <2>3. QED
    BY <1>0, <1>1, <2>1, <2>2 DEF Shape
<1>6. Issued(q, n)
  BY <1>1, <1>3, NewIsFresh DEF Issued
<1>7. MoreKept(plan, q)
  BY <1>1, <1>3, <1>4 DEF MoreKept, SamePort
<1>8. MoreLists(plan, q)
  BY <1>1, <1>2, <1>3, <1>4, NewIsFresh DEF MoreLists
<1>9. MoreParts(plan, q) /\ MoreBelts(plan, q) /\ MoreRoom(plan, q)
  BY <1>0, <1>1, <1>2, <1>3 DEF MoreParts, MoreBelts, MoreRoom
<1>10. QED
  BY <1>0, <1>5, <1>6, <1>7, <1>8, <1>9 DEF More, q

(* A new junction has no belts: no belt goes to a thing that is not there. *)
LEMMA Untouched ==
  ASSUME NEW pl, Joined(pl), NEW j, j \notin DOMAIN pl.junctions
  PROVE  \A e \in DOMAIN pl.edges : JunctionEnd(j) \notin {pl.edges[e].from, pl.edges[e].to}
  BY DEF Joined, IsEnd, GroupEnd, PortEnd, JunctionEnd

(* A splitter or merger no belt touches is within its budget of belts. *)
LEMMA EmptyBudget ==
  ASSUME NEW pl, NEW j, pl.junctions[j].kind \in JunctionKind,
         \A e \in DOMAIN pl.edges : JunctionEnd(j) \notin {pl.edges[e].from, pl.edges[e].to}
  PROVE  Budget(pl, j)
<1>1. Into(pl, JunctionEnd(j)) = {} /\ OutOf(pl, JunctionEnd(j)) = {}
  BY DEF Into, OutOf
<1>2. IsFiniteSet({}) /\ Cardinality({}) = 0
  BY FS_EmptySet
<1>3. QED
  BY <1>1, <1>2 DEF Budget, JunctionKind, Inputs, Outputs, PipePorts

(* A new splitter or merger adds to a wired plan. *)
LEMMA AddJunctionMore ==
  ASSUME Inv, NEW f, NEW kind, kind \in JunctionKind, AddJunction(f, kind)
  PROVE  More(plan, plan') /\ Issued(plan', n) /\ made' = n
<1>0. /\ Shape(plan) /\ Lists(plan) /\ Joined(plan) /\ DOMAIN plan = PlanFields /\ made' = n
      /\ f \in DOMAIN plan.factories
  BY DEF Inv, Wired, Shape, AddJunction, Create, Issue
<1> DEFINE q == plan'
           one == NewJunction(f, kind)
<1>1. /\ DOMAIN q = DOMAIN plan
      /\ q.factories = plan.factories /\ q.groups = plan.groups /\ q.ports = plan.ports
      /\ q.claims = plan.claims /\ q.edges = plan.edges
      /\ q.junctions = Put(plan.junctions, New, one)
  BY <1>0 DEF AddJunction, Create, Issue, PlanFields, Collection
<1>2. DOMAIN one = JunctionFields /\ one.factory = f /\ one.kind = kind
  BY DEF NewJunction, JunctionFields
<1> HIDE DEF q, one
<1>3. /\ DOMAIN q.junctions = DOMAIN plan.junctions \cup {New}
      /\ q.junctions[New] = one
      /\ \A x \in DOMAIN plan.junctions : q.junctions[x] = plan.junctions[x]
  BY <1>1, NewIsFresh DEF Put
<1>4. Shape(q)
  <2>1. \A x \in DOMAIN q.junctions :
          DOMAIN q.junctions[x] = JunctionFields /\ q.junctions[x].kind \in JunctionKind
    BY <1>0, <1>2, <1>3 DEF Shape
  <2>2. QED
    BY <1>0, <1>1, <2>1 DEF Shape
<1>5. Issued(q, n)
  BY <1>1, <1>3, NewIsFresh DEF Issued
<1>6. MoreKept(plan, q) /\ MoreLists(plan, q) /\ MoreBelts(plan, q)
  BY <1>1, <1>3 DEF MoreKept, SamePort, MoreLists, MoreBelts
<1>7. MoreParts(plan, q)
  BY <1>0, <1>1, <1>2, <1>3 DEF MoreParts
<1>8. Budget(q, New)
  <2>1. \A e \in DOMAIN q.edges : JunctionEnd(New) \notin {q.edges[e].from, q.edges[e].to}
    BY <1>0, <1>1, NewIsFresh, Untouched
  <2>2. QED
    BY <1>2, <1>3, <2>1, EmptyBudget
<1>9. MoreRoom(plan, q)
  BY <1>1, <1>3, <1>8 DEF MoreRoom
<1>10. QED
  BY <1>0, <1>4, <1>5, <1>6, <1>7, <1>9 DEF More, q

(* A belt is added only where its ends have a port for it.                 *)
LEMMA BudgetWithBelt ==
  ASSUME NEW pl, NEW q, NEW j, NEW e, e \notin DOMAIN pl.edges,
         Budget(pl, j), pl.junctions[j].kind \in JunctionKind,
         q.junctions[j] = pl.junctions[j],
         DOMAIN q.edges = DOMAIN pl.edges \cup {e},
         \A x \in DOMAIN pl.edges : q.edges[x] = pl.edges[x],
         NEW used, NEW cap, cap \in {Inputs, Outputs},
         cap = Inputs => /\ q.edges[e].to = JunctionEnd(j) /\ q.edges[e].from # JunctionEnd(j)
                         /\ used = Into(pl, JunctionEnd(j)),
         cap = Outputs => /\ q.edges[e].from = JunctionEnd(j) /\ q.edges[e].to # JunctionEnd(j)
                          /\ used = OutOf(pl, JunctionEnd(j)),
         (pl.junctions[j].kind = "pipe") = (q.edges[e].item \in Fluid),
         Cardinality(used) < cap[pl.junctions[j].kind],
         pl.junctions[j].kind = "pipe" => Cardinality(Touching(pl, JunctionEnd(j))) < PipePorts,
         pl.junctions[j].kind # "smart" =>
           \A x \in Touching(pl, JunctionEnd(j)) : pl.edges[x].item = q.edges[e].item
  PROVE  Budget(q, j)
<1> DEFINE kind == pl.junctions[j].kind
           into == Into(pl, JunctionEnd(j))
           out  == OutOf(pl, JunctionEnd(j))
           in2  == Into(q, JunctionEnd(j))
           out2 == OutOf(q, JunctionEnd(j))
<1>1. Inputs # Outputs
  <2>1. Inputs["storage"] = 1 /\ Inputs["splitter"] = 1 /\ Outputs["splitter"] = 3
    BY DEF Inputs, Outputs
  <2>2. QED
    BY <2>1
<1>2. /\ IsFiniteSet(into) /\ IsFiniteSet(out)
      /\ Cardinality(into) <= Inputs[kind] /\ Cardinality(out) <= Outputs[kind]
      /\ kind # "smart" => \A d, x \in into \cup out : pl.edges[d].item = pl.edges[x].item
      /\ \A x \in into \cup out : (kind = "pipe") = (pl.edges[x].item \in Fluid)
  BY DEF Budget
<1>3. e \notin into /\ e \notin out /\ Touching(pl, JunctionEnd(j)) = into \cup out
  BY DEF Into, OutOf, Touching
<1>4. /\ cap = Inputs => in2 = into \cup {e} /\ out2 = out
      /\ cap = Outputs => in2 = into /\ out2 = out \cup {e}
  BY DEF Into, OutOf
<1>5. in2 \cup out2 = (into \cup out) \cup {e}
  BY <1>4
<1>6. /\ IsFiniteSet(into \cup out)
      /\ Cardinality(into) \in Nat /\ Cardinality(out) \in Nat /\ Cardinality(into \cup out) \in Nat
  BY <1>2, FS_Union, FS_CardinalityType
<1>7. /\ IsFiniteSet(into \cup {e}) /\ Cardinality(into \cup {e}) = Cardinality(into) + 1
      /\ IsFiniteSet(out \cup {e}) /\ Cardinality(out \cup {e}) = Cardinality(out) + 1
      /\ IsFiniteSet((into \cup out) \cup {e})
      /\ Cardinality((into \cup out) \cup {e}) = Cardinality(into \cup out) + 1
  BY <1>2, <1>3, <1>6, FS_AddElement
<1>8. Inputs[kind] \in Nat /\ Outputs[kind] \in Nat
  BY DEF JunctionKind, Inputs, Outputs
<1> HIDE DEF into, out, in2, out2, kind
<1>9. IsFiniteSet(in2) /\ IsFiniteSet(out2) /\ Cardinality(in2) <= Inputs[kind] /\ Cardinality(out2) <= Outputs[kind]
  <2>1. CASE cap = Inputs
    <3>1. Cardinality(into) < Inputs[kind]
      BY <1>1, <2>1 DEF into, kind
    <3>2. in2 = into \cup {e} /\ out2 = out
      BY <1>4, <2>1
    <3>3. IsFiniteSet(in2) /\ IsFiniteSet(out2) /\ Cardinality(in2) = Cardinality(into) + 1
      BY <1>2, <1>7, <3>2
    <3>4. Cardinality(in2) <= Inputs[kind]
      BY <1>6, <1>8, <3>1, <3>3
    <3>5. QED
      BY <1>2, <3>2, <3>3, <3>4
  <2>2. CASE cap = Outputs
    <3>1. Cardinality(out) < Outputs[kind]
      BY <1>1, <2>2 DEF out, kind
    <3>2. in2 = into /\ out2 = out \cup {e}
      BY <1>4, <2>2
    <3>3. IsFiniteSet(in2) /\ IsFiniteSet(out2) /\ Cardinality(out2) = Cardinality(out) + 1
      BY <1>2, <1>7, <3>2
    <3>4. Cardinality(out2) <= Outputs[kind]
      BY <1>6, <1>8, <3>1, <3>3
    <3>5. QED
      BY <1>2, <3>2, <3>3, <3>4
  <2>3. QED
    BY <2>1, <2>2
<1>10. kind = "pipe" => Cardinality(in2 \cup out2) <= PipePorts
  <2>1. kind = "pipe" => Cardinality(into \cup out) < PipePorts
    BY <1>3 DEF kind
  <2>2. QED
    <3>1. Cardinality(in2 \cup out2) = Cardinality(into \cup out) + 1
      BY <1>5, <1>7
    <3>2. QED
      BY <1>6, <2>1, <3>1 DEF PipePorts
<1>11. \A x \in in2 \cup out2 : x = e \/ (x \in into \cup out /\ q.edges[x] = pl.edges[x])
  BY <1>5 DEF into, out, Into, OutOf
<1>12. kind # "smart" => \A d, x \in in2 \cup out2 : q.edges[d].item = q.edges[x].item
  <2>1. kind # "smart" => \A x \in into \cup out : pl.edges[x].item = q.edges[e].item
    BY <1>3 DEF kind
  <2>2. QED
    BY <1>11, <2>1
<1>13. \A x \in in2 \cup out2 : (kind = "pipe") = (q.edges[x].item \in Fluid)
  BY <1>2, <1>11 DEF kind
<1>14. QED
  BY <1>9, <1>10, <1>12, <1>13 DEF Budget, in2, out2, kind

(* A new belt that passes add_edge's checks adds to a wired plan. *)
LEMMA AddEdgeMore ==
  ASSUME Inv, NEW f, f \in DOMAIN plan.factories, NEW from \in End(plan), NEW to \in End(plan),
         NEW item, AddEdge(f, from, to, item)
  PROVE  More(plan, plan') /\ Issued(plan', n) /\ made' = n
<1>0. /\ Shape(plan) /\ Lists(plan) /\ Joined(plan) /\ Budgets(plan) /\ DOMAIN plan = PlanFields
      /\ made' = n /\ from # to
  BY DEF Inv, Wired, Shape, AddEdge, Create, Issue
<1> DEFINE q == plan'
           one == NewEdge(f, from, to, item, FALSE)
<1>1. /\ DOMAIN q = DOMAIN plan
      /\ q.factories = plan.factories /\ q.groups = plan.groups /\ q.ports = plan.ports
      /\ q.claims = plan.claims /\ q.junctions = plan.junctions
      /\ q.edges = Put(plan.edges, New, one)
  BY <1>0 DEF AddEdge, Create, Issue, PlanFields, Collection
<1>2. /\ DOMAIN one = EdgeFields /\ one.factory = f /\ one.built = FALSE
      /\ one.from = from /\ one.to = to /\ one.item = item
  BY DEF NewEdge, EdgeFields
<1>e. ASSUME NEW end \in End(plan), EndIn(plan, end, f)
      PROVE  IsEnd(plan, end, f)
  <2>1. PICK coll \in {"groups", "ports", "junctions"} : end \in {<<coll, x>> : x \in DOMAIN plan[coll]}
    BY DEF End
  <2>2. PICK x \in DOMAIN plan[coll] : end = <<coll, x>>
    BY <2>1
  <2>3. end[1] = coll /\ end[2] = x /\ plan[coll][x].factory = f
    BY <1>e, <2>2 DEF EndIn
  <2>4. CASE coll = "groups"
    BY <2>2, <2>3, <2>4 DEF IsEnd, GroupEnd
  <2>5. CASE coll = "ports"
    BY <2>2, <2>3, <2>5 DEF IsEnd, PortEnd
  <2>6. CASE coll = "junctions"
    BY <2>2, <2>3, <2>6 DEF IsEnd, JunctionEnd
  <2>7. QED
    BY <2>4, <2>5, <2>6
<1>f. IsEnd(plan, from, f) /\ IsEnd(plan, to, f)
  BY <1>e DEF AddEdge
<1>h. /\ HasRoom(from, item, OutOf(plan, from), Outputs)
      /\ HasRoom(to, item, Into(plan, to), Inputs)
  BY DEF AddEdge
<1> HIDE DEF q, one
<1>3. /\ New \notin DOMAIN plan.edges
      /\ DOMAIN q.edges = DOMAIN plan.edges \cup {New}
      /\ q.edges[New] = one
      /\ \A x \in DOMAIN plan.edges : q.edges[x] = plan.edges[x]
  BY <1>1, NewIsFresh DEF Put
<1>4. Shape(q)
  <2>1. \A x \in DOMAIN q.edges : DOMAIN q.edges[x] = EdgeFields /\ q.edges[x].built \in BOOLEAN
    BY <1>0, <1>2, <1>3 DEF Shape
  <2>2. QED
    BY <1>0, <1>1, <2>1 DEF Shape
<1>5. Issued(q, n)
  BY <1>1, <1>3, NewIsFresh DEF Issued
<1>6. MoreKept(plan, q) /\ MoreLists(plan, q) /\ MoreParts(plan, q)
  BY <1>1, <1>3 DEF MoreKept, SamePort, MoreLists, MoreParts
<1>7. MoreBelts(plan, q)
  <2>1. IsEnd(q, from, f) /\ IsEnd(q, to, f)
    BY <1>1, <1>f DEF IsEnd
  <2>2. QED
    BY <1>0, <1>1, <1>2, <1>3, <2>1 DEF MoreBelts
<1>8. ASSUME NEW j \in DOMAIN plan.junctions, JunctionEnd(j) \in {from, to}
      PROVE  Budget(q, j)
  <2> DEFINE end == JunctionEnd(j)
             kind == plan.junctions[j].kind
  <2>1. /\ Budget(plan, j) /\ kind \in JunctionKind /\ q.junctions[j] = plan.junctions[j]
        /\ end[1] = "junctions" /\ end[2] = j
    BY <1>0, <1>1 DEF Budgets, Shape, JunctionEnd
  <2>2. \A used, cap : HasRoom(end, item, used, cap) =>
          /\ (kind = "pipe") = (item \in Fluid)
          /\ Cardinality(used) < cap[kind]
          /\ kind = "pipe" => Cardinality(Touching(plan, end)) < PipePorts
          /\ kind # "smart" => \A e \in Touching(plan, end) : plan.edges[e].item = item
    BY <2>1 DEF HasRoom
  <2>3. q.edges[New].item = item /\ q.edges[New].from = from /\ q.edges[New].to = to
    BY <1>2, <1>3
  <2>4. Inputs # Outputs
    <3>1. Inputs["splitter"] = 1 /\ Outputs["splitter"] = 3
      BY DEF Inputs, Outputs
    <3>2. QED
      BY <3>1
  <2>5. CASE end = to
    <3>1. /\ (kind = "pipe") = (item \in Fluid)
          /\ Cardinality(Into(plan, end)) < Inputs[kind]
          /\ kind = "pipe" => Cardinality(Touching(plan, end)) < PipePorts
          /\ kind # "smart" => \A e \in Touching(plan, end) : plan.edges[e].item = item
      BY <1>h, <2>2, <2>5
    <3>2. q.edges[New].to = end /\ q.edges[New].from # end
      BY <1>0, <2>3, <2>5
    <3>3. QED
      BY <1>3, <2>1, <2>3, <2>4, <3>1, <3>2, BudgetWithBelt
  <2>6. CASE end = from
    <3>1. /\ (kind = "pipe") = (item \in Fluid)
          /\ Cardinality(OutOf(plan, end)) < Outputs[kind]
          /\ kind = "pipe" => Cardinality(Touching(plan, end)) < PipePorts
          /\ kind # "smart" => \A e \in Touching(plan, end) : plan.edges[e].item = item
      BY <1>h, <2>2, <2>6
    <3>2. q.edges[New].from = end /\ q.edges[New].to # end
      BY <1>0, <2>3, <2>6
    <3>3. QED
      BY <1>3, <2>1, <2>3, <2>4, <3>1, <3>2, BudgetWithBelt
  <2>7. QED
    BY <1>8, <2>5, <2>6
<1>9. MoreRoom(plan, q)
  <2>1. ASSUME NEW j \in DOMAIN q.junctions, JunctionEnd(j) \notin {from, to},
               NEW e \in DOMAIN q.edges \ DOMAIN plan.edges
        PROVE  JunctionEnd(j) \notin {q.edges[e].from, q.edges[e].to}
    BY <1>2, <1>3, <2>1
  <2>2. QED
    BY <1>1, <1>8, <2>1 DEF MoreRoom
<1>10. QED
  BY <1>0, <1>4, <1>5, <1>6, <1>7, <1>9 DEF More, q

------------------------------------------------------------------------------
(* Expanding a bank *)

Joint(k, e) == JunctionEnd(<<n, k, e>>)

Splits(g, e) == plan.edges[e].to = GroupEnd(g)

Belts(g) == Touching(plan, GroupEnd(g))

Joints(g, count)   == {<<n, k, e>> : k \in Chain(count), e \in Belts(g)}
Trunks(g, count)   == {<<n, "trunk", k, e>> : k \in Chain(count) \ {0}, e \in Belts(g)}
Branches(g, count) == {<<n, "branch", i, e>> : i \in 1..count, e \in Belts(g)}

FanFits(g, count, fan) ==
  /\ DOMAIN fan.junctions = Joints(g, count)
  /\ \A k \in Chain(count), e \in Belts(g) :
       fan.junctions[<<n, k, e>>] = NewJunction(plan.groups[g].factory, FanKind(e, Splits(g, e)))
  /\ DOMAIN fan.rewired = Belts(g)
  /\ \A e \in Belts(g) :
       /\ Splits(g, e) => fan.rewired[e] = [plan.edges[e] EXCEPT !.to = Joint(0, e)]
       /\ ~Splits(g, e) => fan.rewired[e] = [plan.edges[e] EXCEPT !.from = Joint(0, e)]
  /\ DOMAIN fan.edges = Trunks(g, count) \cup Branches(g, count)
  /\ \A k \in Chain(count) \ {0}, e \in Belts(g) :
       fan.edges[<<n, "trunk", k, e>>] =
         FanBelt(e, plan.groups[g].factory, Splits(g, e), Joint(k - 1, e), Joint(k, e))
  /\ \A i \in 1..count, e \in Belts(g) :
       fan.edges[<<n, "branch", i, e>>] =
         FanBelt(e, plan.groups[g].factory, Splits(g, e), Joint(Slot(i, count), e),
                 GroupEnd(<<n, i>>))

(* What the fan of a bank is made of.                                      *)
LEMMA FanIs ==
  ASSUME NEW g, NEW count
  PROVE  FanFits(g, count, Fan(g, count))
<1> DEFINE F == Fan(g, count)
           f == plan.groups[g].factory
<1>1. F.junctions = [j \in Joints(g, count) |-> NewJunction(f, FanKind(j[3], Splits(g, j[3])))]
  BY DEF Fan, Joints, Belts, Splits
<1>2. F.rewired = [e \in Belts(g) |->
                     IF Splits(g, e) THEN [plan.edges[e] EXCEPT !.to = Joint(0, e)]
                     ELSE [plan.edges[e] EXCEPT !.from = Joint(0, e)]]
  BY DEF Fan, Belts, Splits, Joint
<1>3. F.edges = [x \in Trunks(g, count) \cup Branches(g, count) |->
                   LET e == x[4]
                   IN  IF x[2] = "trunk"
                         THEN FanBelt(e, f, Splits(g, e), Joint(x[3] - 1, e), Joint(x[3], e))
                         ELSE FanBelt(e, f, Splits(g, e), Joint(Slot(x[3], count), e),
                                      GroupEnd(<<n, x[3]>>))]
  BY DEF Fan, Trunks, Branches, Belts, Splits, Joint
<1> HIDE DEF F
<1>4. /\ DOMAIN F.junctions = Joints(g, count)
      /\ \A k \in Chain(count), e \in Belts(g) :
           F.junctions[<<n, k, e>>] = NewJunction(f, FanKind(e, Splits(g, e)))
  BY <1>1 DEF Joints
<1>5. /\ DOMAIN F.rewired = Belts(g)
      /\ \A e \in Belts(g) :
           /\ Splits(g, e) => F.rewired[e] = [plan.edges[e] EXCEPT !.to = Joint(0, e)]
           /\ ~Splits(g, e) => F.rewired[e] = [plan.edges[e] EXCEPT !.from = Joint(0, e)]
  BY <1>2
<1>6. ASSUME NEW k \in Chain(count) \ {0}, NEW e \in Belts(g)
      PROVE  F.edges[<<n, "trunk", k, e>>] = FanBelt(e, f, Splits(g, e), Joint(k - 1, e), Joint(k, e))
  <2> DEFINE x == <<n, "trunk", k, e>>
  <2>1. x \in Trunks(g, count)
    BY DEF Trunks
  <2>2. x[2] = "trunk" /\ x[3] = k /\ x[4] = e
    OBVIOUS
  <2>3. QED
    BY <1>3, <2>1, <2>2
<1>7. ASSUME NEW i \in 1..count, NEW e \in Belts(g)
      PROVE  F.edges[<<n, "branch", i, e>>] =
               FanBelt(e, f, Splits(g, e), Joint(Slot(i, count), e), GroupEnd(<<n, i>>))
  <2> DEFINE x == <<n, "branch", i, e>>
  <2>1. x \in Branches(g, count)
    BY DEF Branches
  <2>2. x[2] # "trunk" /\ x[3] = i /\ x[4] = e
    OBVIOUS
  <2>3. QED
    BY <1>3, <2>1, <2>2
<1>8. DOMAIN F.edges = Trunks(g, count) \cup Branches(g, count)
  BY <1>3
<1>9. FanFits(g, count, F)
  BY <1>4, <1>5, <1>6, <1>7, <1>8 DEF FanFits
<1>10. QED
  BY <1>9 DEF F

(* One belt of a fan, from or to the item's own end.                       *)
IsFanBelt(b, f, item, splits, rootSide, farSide) ==
  /\ DOMAIN b = EdgeFields
  /\ b.factory = f /\ b.item = item /\ b.built = FALSE
  /\ splits => b.from = rootSide /\ b.to = farSide
  /\ ~splits => b.from = farSide /\ b.to = rootSide

(* The fields of a belt of the fan. *)
LEMMA FanBeltIs ==
  ASSUME NEW e, NEW f, NEW splits \in BOOLEAN, NEW rootSide, NEW farSide
  PROVE  IsFanBelt(FanBelt(e, f, splits, rootSide, farSide), f, plan.edges[e].item, splits,
                   rootSide, farSide)
  BY DEF FanBelt, NewEdge, IsFanBelt, EdgeFields

(* The plan after the expansion, part by part.                             *)
FannedGroups(q, g, count) ==
  /\ DOMAIN q.groups = (DOMAIN plan.groups \ {g}) \cup Machines(count)
  /\ \A x \in DOMAIN plan.groups \ {g} : q.groups[x] = plan.groups[x]
  /\ \A x \in Machines(count) :
       /\ DOMAIN q.groups[x] = GroupFields
       /\ q.groups[x].factory = plan.groups[g].factory /\ q.groups[x].built = FALSE
  /\ DOMAIN q.factories = DOMAIN plan.factories
  /\ \A x \in DOMAIN plan.factories :
       /\ DOMAIN q.factories[x] = DOMAIN plan.factories[x]
       /\ q.factories[x].built = plan.factories[x].built
       /\ q.factories[x].ports = plan.factories[x].ports
       /\ q.factories[x].claims = plan.factories[x].claims
       /\ x # plan.groups[g].factory => q.factories[x].groups = plan.factories[x].groups
       /\ x = plan.groups[g].factory =>
            q.factories[x].groups = (plan.factories[x].groups \ {g}) \cup Machines(count)

FannedJunctions(q, g, count) ==
  /\ DOMAIN q.junctions = DOMAIN plan.junctions \cup Joints(g, count)
  /\ \A j \in DOMAIN plan.junctions : q.junctions[j] = plan.junctions[j]
  /\ \A k \in Chain(count), e \in Belts(g) :
       /\ DOMAIN q.junctions[<<n, k, e>>] = JunctionFields
       /\ q.junctions[<<n, k, e>>].factory = plan.groups[g].factory
       /\ q.junctions[<<n, k, e>>].kind = FanKind(e, Splits(g, e))

FannedBelts(q, g, count) ==
  /\ DOMAIN q.edges = DOMAIN plan.edges \cup Trunks(g, count) \cup Branches(g, count)
  /\ \A e \in DOMAIN plan.edges \ Belts(g) : q.edges[e] = plan.edges[e]
  /\ \A e \in Belts(g) :
       /\ DOMAIN q.edges[e] = EdgeFields
       /\ q.edges[e].factory = plan.edges[e].factory
       /\ q.edges[e].item = plan.edges[e].item
       /\ q.edges[e].built = plan.edges[e].built
       /\ Splits(g, e) => q.edges[e].from = plan.edges[e].from /\ q.edges[e].to = Joint(0, e)
       /\ ~Splits(g, e) => q.edges[e].from = Joint(0, e) /\ q.edges[e].to = plan.edges[e].to
  /\ \A k \in Chain(count) \ {0}, e \in Belts(g) :
       IsFanBelt(q.edges[<<n, "trunk", k, e>>], plan.groups[g].factory, plan.edges[e].item,
                 Splits(g, e), Joint(k - 1, e), Joint(k, e))
  /\ \A i \in 1..count, e \in Belts(g) :
       IsFanBelt(q.edges[<<n, "branch", i, e>>], plan.groups[g].factory, plan.edges[e].item,
                 Splits(g, e), Joint(Slot(i, count), e), GroupEnd(<<n, i>>))

(* An expansion changes the bank's factory, groups, junctions and belts.   *)
LEMMA ExpandedIs ==
  ASSUME Inv, NEW g \in DOMAIN plan.groups
  PROVE  LET q == Expanded(g)  count == EffectiveCount(plan.groups[g])
         IN  /\ DOMAIN q = DOMAIN plan /\ q.ports = plan.ports /\ q.claims = plan.claims
             /\ FannedGroups(q, g, count) /\ FannedJunctions(q, g, count)
             /\ FannedBelts(q, g, count)
<1> DEFINE bank  == plan.groups[g]
           f     == bank.factory
           count == EffectiveCount(bank)
           fan   == Fan(g, count)
           one   == [x \in Machines(count) |-> NewGroup(f, bank.recipe, 1, FALSE)]
           q     == Expanded(g)
<1>0. /\ Shape(plan) /\ Lists(plan) /\ Issued(plan, made) /\ DOMAIN plan = PlanFields
      /\ f \in DOMAIN plan.factories
  BY DEF Inv, Wired, Shape, Lists
<1>1. /\ DOMAIN q = DOMAIN plan /\ q.ports = plan.ports /\ q.claims = plan.claims
      /\ q.groups = PutAll(Drop(plan.groups, {g}), one)
      /\ q.junctions = PutAll(plan.junctions, fan.junctions)
      /\ q.edges = PutAll(plan.edges, PutAll(fan.rewired, fan.edges))
      /\ DOMAIN q.factories = DOMAIN plan.factories
      /\ \A x \in DOMAIN plan.factories : x # f => q.factories[x] = plan.factories[x]
      /\ q.factories[f] =
           [plan.factories[f] EXCEPT !.groups = (plan.factories[f].groups \ {g}) \cup Machines(count)]
  BY <1>0 DEF Expanded, PlanFields, Collection
<1>2. FanFits(g, count, fan)
  BY FanIs
<1>3. /\ DOMAIN one = Machines(count)
      /\ \A x \in Machines(count) :
           DOMAIN one[x] = GroupFields /\ one[x].factory = f /\ one[x].built = FALSE
  BY DEF NewGroup, GroupFields
<1>4. \A x \in Machines(count) : x \notin DOMAIN plan.groups
  BY <1>0, NewIsFresh DEF Machines, Issued
<1>5. \A x \in Joints(g, count) : x \notin DOMAIN plan.junctions
  BY <1>0, NewIsFresh DEF Joints, Issued
<1>6. \A x \in Trunks(g, count) \cup Branches(g, count) : x \notin DOMAIN plan.edges
  BY <1>0, NewIsFresh DEF Trunks, Branches, Issued
<1>7. Belts(g) \subseteq DOMAIN plan.edges
  BY DEF Belts, Touching, Into, OutOf
<1> HIDE DEF fan, one, q, count
<1>8. FannedGroups(q, g, count)
  <2>1. /\ DOMAIN q.groups = (DOMAIN plan.groups \ {g}) \cup Machines(count)
        /\ \A x \in DOMAIN plan.groups \ {g} : q.groups[x] = plan.groups[x]
        /\ \A x \in Machines(count) : q.groups[x] = one[x]
    BY SMTT(30), <1>1, <1>3, <1>4 DEF PutAll, Drop, Restrict
  <2>2. \A x \in DOMAIN plan.factories : DOMAIN plan.factories[x] = FactoryFields
    BY <1>0 DEF Shape
  <2>3. \A x \in DOMAIN plan.factories :
          /\ DOMAIN q.factories[x] = DOMAIN plan.factories[x]
          /\ q.factories[x].built = plan.factories[x].built
          /\ q.factories[x].ports = plan.factories[x].ports
          /\ q.factories[x].claims = plan.factories[x].claims
          /\ x # f => q.factories[x].groups = plan.factories[x].groups
          /\ x = f => q.factories[x].groups = (plan.factories[x].groups \ {g}) \cup Machines(count)
    BY <1>1, <2>2 DEF FactoryFields
  <2>4. QED
    BY <1>1, <1>3, <2>1, <2>3 DEF FannedGroups
<1>9. FannedJunctions(q, g, count)
  <2>1. /\ DOMAIN q.junctions = DOMAIN plan.junctions \cup Joints(g, count)
        /\ \A j \in DOMAIN plan.junctions : q.junctions[j] = plan.junctions[j]
        /\ \A j \in Joints(g, count) : q.junctions[j] = fan.junctions[j]
    BY SMTT(30), <1>1, <1>2, <1>5 DEF PutAll, FanFits
  <2>2. ASSUME NEW k \in Chain(count), NEW e \in Belts(g)
        PROVE  q.junctions[<<n, k, e>>] = NewJunction(f, FanKind(e, Splits(g, e)))
    <3>1. <<n, k, e>> \in Joints(g, count)
      BY DEF Joints
    <3>2. QED
      BY <1>2, <2>1, <3>1 DEF FanFits
  <2>3. ASSUME NEW k \in Chain(count), NEW e \in Belts(g)
        PROVE  /\ DOMAIN q.junctions[<<n, k, e>>] = JunctionFields
               /\ q.junctions[<<n, k, e>>].factory = f
               /\ q.junctions[<<n, k, e>>].kind = FanKind(e, Splits(g, e))
    <3> DEFINE kind == FanKind(e, Splits(g, e))
    <3>1. q.junctions[<<n, k, e>>] = NewJunction(f, kind)
      BY <2>2
    <3> HIDE DEF kind
    <3>2. /\ DOMAIN q.junctions[<<n, k, e>>] = JunctionFields
          /\ q.junctions[<<n, k, e>>].factory = f
          /\ q.junctions[<<n, k, e>>].kind = kind
      BY <3>1 DEF NewJunction, JunctionFields
    <3>3. QED
      BY <3>2 DEF kind
  <2>4. QED
    BY <2>1, <2>3 DEF FannedJunctions
<1>10. FannedBelts(q, g, count)
  <2> DEFINE new == Trunks(g, count) \cup Branches(g, count)
  <2>1. /\ DOMAIN q.edges = DOMAIN plan.edges \cup new
        /\ \A e \in DOMAIN plan.edges \ Belts(g) : q.edges[e] = plan.edges[e]
        /\ \A e \in Belts(g) : q.edges[e] = fan.rewired[e]
        /\ \A x \in new : q.edges[x] = fan.edges[x]
    <3>1. DOMAIN fan.rewired = Belts(g) /\ DOMAIN fan.edges = new
      BY <1>2 DEF FanFits
    <3>2. \A x \in new : x \notin DOMAIN plan.edges
      BY <1>6
    <3> HIDE DEF new
    <3>3. QED
      BY SMTT(30), <1>1, <1>7, <3>1, <3>2 DEF PutAll
  <2>2. ASSUME NEW e \in Belts(g)
        PROVE  /\ DOMAIN q.edges[e] = EdgeFields
               /\ q.edges[e].factory = plan.edges[e].factory
               /\ q.edges[e].item = plan.edges[e].item
               /\ q.edges[e].built = plan.edges[e].built
               /\ Splits(g, e) => q.edges[e].from = plan.edges[e].from /\ q.edges[e].to = Joint(0, e)
               /\ ~Splits(g, e) => q.edges[e].from = Joint(0, e) /\ q.edges[e].to = plan.edges[e].to
    <3>1. DOMAIN plan.edges[e] = EdgeFields
      BY <1>0, <1>7 DEF Shape
    <3>2. /\ Splits(g, e) => q.edges[e] = [plan.edges[e] EXCEPT !.to = Joint(0, e)]
          /\ ~Splits(g, e) => q.edges[e] = [plan.edges[e] EXCEPT !.from = Joint(0, e)]
      BY <1>2, <2>1 DEF FanFits
    <3>3. QED
      BY <3>1, <3>2 DEF EdgeFields
  <2>3. ASSUME NEW k \in Chain(count) \ {0}, NEW e \in Belts(g)
        PROVE  IsFanBelt(q.edges[<<n, "trunk", k, e>>], f, plan.edges[e].item, Splits(g, e),
                         Joint(k - 1, e), Joint(k, e))
    <3>1. <<n, "trunk", k, e>> \in Trunks(g, count)
      BY DEF Trunks
    <3>2. q.edges[<<n, "trunk", k, e>>] = FanBelt(e, f, Splits(g, e), Joint(k - 1, e), Joint(k, e))
      BY <1>2, <2>1, <3>1 DEF FanFits
    <3>3. Splits(g, e) \in BOOLEAN
      BY DEF Splits
    <3>4. QED
      BY <3>2, <3>3, FanBeltIs
  <2>4. ASSUME NEW i \in 1..count, NEW e \in Belts(g)
        PROVE  IsFanBelt(q.edges[<<n, "branch", i, e>>], f, plan.edges[e].item, Splits(g, e),
                         Joint(Slot(i, count), e), GroupEnd(<<n, i>>))
    <3>1. <<n, "branch", i, e>> \in Branches(g, count)
      BY DEF Branches
    <3>2. q.edges[<<n, "branch", i, e>>] =
            FanBelt(e, f, Splits(g, e), Joint(Slot(i, count), e), GroupEnd(<<n, i>>))
      BY <1>2, <2>1, <3>1 DEF FanFits
    <3>3. Splits(g, e) \in BOOLEAN
      BY DEF Splits
    <3>4. QED
      BY <3>2, <3>3, FanBeltIs
  <2>5. QED
    BY <2>1, <2>2, <2>3, <2>4 DEF FannedBelts
<1>11. QED
  BY <1>1, <1>8, <1>9, <1>10 DEF q, count

(* Two machines take a junction each, the last junction takes the rest, and
   that is two or three.                                                   *)
LEMMA SlotFits ==
  ASSUME NEW count \in Nat, count >= 2, NEW i \in 1..count
  PROVE  /\ Slot(i, count) \in Chain(count)
         /\ 0 \in Chain(count)
         /\ Slot(i, count) < (count \div 2) - 1 =>
              i = 2 * Slot(i, count) + 1 \/ i = 2 * Slot(i, count) + 2
         /\ \/ i = 2 * Slot(i, count) + 1
            \/ i = 2 * Slot(i, count) + 2
            \/ i = 2 * Slot(i, count) + 3
<1> DEFINE h == count \div 2
           d == (i - 1) \div 2
<1>1. h \in Nat /\ h >= 1 /\ (count = 2 * h \/ count = 2 * h + 1)
  OBVIOUS
<1>2. d \in Nat /\ (i - 1 = 2 * d \/ i - 1 = 2 * d + 1)
  OBVIOUS
<1>3. Slot(i, count) = IF d <= h - 1 THEN d ELSE h - 1
  BY DEF Slot
<1>4. Chain(count) = 0..h - 1
  BY DEF Chain
<1> HIDE DEF h, d
<1>5. QED
  BY <1>1, <1>2, <1>3, <1>4 DEF h

(* One more element makes a set larger by one at most. *)
LEMMA OneMore ==
  ASSUME NEW S, NEW x, NEW m \in Nat, IsFiniteSet(S), Cardinality(S) <= m
  PROVE  /\ IsFiniteSet(S \cup {x}) /\ Cardinality(S \cup {x}) \in Nat
         /\ Cardinality(S \cup {x}) <= m + 1
<1>1. Cardinality(S) \in Nat
  BY FS_CardinalityType
<1>2. IsFiniteSet(S \cup {x})
  BY FS_AddElement
<1>3. Cardinality(S \cup {x}) \in {Cardinality(S), Cardinality(S) + 1}
  BY FS_AddElement
<1>4. QED
  BY <1>1, <1>2, <1>3

(* Sets of up to four listed elements. *)
LEMMA FewElements ==
  ASSUME NEW a, NEW b, NEW c, NEW d
  PROVE  /\ IsFiniteSet({a}) /\ Cardinality({a}) = 1
         /\ IsFiniteSet({b, c, d}) /\ Cardinality({b, c, d}) \in Nat /\ Cardinality({b, c, d}) <= 3
         /\ IsFiniteSet({a, b, c, d}) /\ Cardinality({a, b, c, d}) \in Nat
         /\ Cardinality({a, b, c, d}) <= 4
<1> DEFINE one   == {b}
           two   == one \cup {c}
           three == two \cup {d}
           four  == three \cup {a}
<1>1. IsFiniteSet({a}) /\ Cardinality({a}) = 1 /\ IsFiniteSet(one) /\ Cardinality(one) <= 1
  <2>1. IsFiniteSet({a}) /\ Cardinality({a}) = 1 /\ IsFiniteSet(one) /\ Cardinality(one) = 1
    BY FS_Singleton, Zenon
  <2> HIDE DEF one
  <2>2. QED
    BY <2>1
<1>2. 1 \in Nat /\ 2 \in Nat /\ 3 \in Nat
  OBVIOUS
<1>3. three = {b, c, d} /\ four = {a, b, c, d}
  OBVIOUS
<1> HIDE DEF one
<1>4. IsFiniteSet(two) /\ Cardinality(two) <= 1 + 1
  BY <1>1, <1>2, OneMore, Zenon
<1> HIDE DEF two
<1>5. IsFiniteSet(three) /\ Cardinality(three) \in Nat /\ Cardinality(three) <= 2 + 1
  <2>1. Cardinality(two) <= 2
    BY <1>4
  <2>2. QED
    BY <1>2, <1>4, <2>1, OneMore, Zenon
<1> HIDE DEF three
<1>6. IsFiniteSet(four) /\ Cardinality(four) \in Nat /\ Cardinality(four) <= 3 + 1
  <2>1. Cardinality(three) <= 3
    BY <1>5
  <2>2. QED
    BY <1>2, <1>5, <2>1, OneMore, Zenon
<1> HIDE DEF four
<1>7. QED
  BY <1>1, <1>3, <1>5, <1>6

(* Each junction of a fan is an end of its own. *)
LEMMA JointsDiffer ==
  ASSUME NEW k, NEW e, NEW j, NEW d, NEW x
  PROVE  /\ Joint(k, e) = Joint(j, d) <=> k = j /\ e = d
         /\ Joint(k, e) # GroupEnd(x)
  BY DEF Joint, JunctionEnd, GroupEnd

(* Only planned belts go to a planned bank, and each has one end there.    *)
LEMMA BankBelts ==
  ASSUME Inv, NEW g \in Planned("groups"), NEW e \in Belts(g)
  PROVE  /\ e \in DOMAIN plan.edges
         /\ plan.edges[e].built = FALSE
         /\ plan.edges[e].factory = plan.groups[g].factory
         /\ Splits(g, e) => plan.edges[e].from # GroupEnd(g)
         /\ ~Splits(g, e) => plan.edges[e].from = GroupEnd(g) /\ plan.edges[e].to # GroupEnd(g)
<1>1. /\ Shape(plan) /\ Joined(plan) /\ Layered(plan)
      /\ g \in DOMAIN plan.groups /\ ~plan.groups[g].built
  BY DEF Inv, Wired, Planned
<1>2. /\ e \in DOMAIN plan.edges
      /\ plan.edges[e].from = GroupEnd(g) \/ plan.edges[e].to = GroupEnd(g)
  BY DEF Belts, Touching, Into, OutOf
<1>3. \A f : IsEnd(plan, GroupEnd(g), f) => plan.groups[g].factory = f
  BY DEF IsEnd, GroupEnd, PortEnd, JunctionEnd
<1>4. plan.edges[e].factory = plan.groups[g].factory
  BY <1>1, <1>2, <1>3 DEF Joined
<1>5. ~IsBuiltEnd(plan, GroupEnd(g))
  BY <1>1 DEF IsBuiltEnd, GroupEnd, PortEnd
<1>6. plan.edges[e].built = FALSE /\ plan.edges[e].from # plan.edges[e].to
  BY <1>1, <1>2, <1>5 DEF Layered, Shape
<1>7. QED
  BY <1>2, <1>4, <1>6 DEF Splits

(* The belts at the k-th junction of a fan.                                *)
Root(k, e) == IF k = 0 THEN e ELSE <<n, "trunk", k, e>>

Far(k, e, count) ==
  {<<n, "branch", 2 * k + 1, e>>, <<n, "branch", 2 * k + 2, e>>,
   IF k < (count \div 2) - 1 THEN <<n, "trunk", k + 1, e>> ELSE <<n, "branch", 2 * k + 3, e>>}

AtJoint(q, g, count, k, e) ==
  /\ Splits(g, e) => /\ Into(q, Joint(k, e)) \subseteq {Root(k, e)}
                     /\ OutOf(q, Joint(k, e)) \subseteq Far(k, e, count)
  /\ ~Splits(g, e) => /\ OutOf(q, Joint(k, e)) \subseteq {Root(k, e)}
                      /\ Into(q, Joint(k, e)) \subseteq Far(k, e, count)
  /\ \A d \in Touching(q, Joint(k, e)) : q.edges[d].item = plan.edges[e].item

(* How the belts of the fan meet each of its junctions. *)
LEMMA FanAt ==
  ASSUME Inv, NEW g \in Planned("groups"), NEW q, NEW count \in Nat, count >= 2,
         FannedBelts(q, g, count), NEW k \in Chain(count), NEW e \in Belts(g)
  PROVE  AtJoint(q, g, count, k, e)
<1>0. Joined(plan) /\ Issued(plan, made) /\ g \in DOMAIN plan.groups
  BY DEF Inv, Wired, Planned
<1>1. \A d \in DOMAIN plan.edges : Joint(k, e) # plan.edges[d].from /\ Joint(k, e) # plan.edges[d].to
  <2>1. <<n, k, e>> \notin DOMAIN plan.junctions
    BY <1>0, NewIsFresh DEF Issued
  <2>2. QED
    BY <1>0, <2>1, Untouched DEF Joint
<1>k. k \in Int
  BY DEF Chain
<1>2. ASSUME NEW d \in DOMAIN q.edges
      PROVE  /\ q.edges[d].from = Joint(k, e) \/ q.edges[d].to = Joint(k, e)
                => q.edges[d].item = plan.edges[e].item
             /\ q.edges[d].to = Joint(k, e) =>
                  /\ Splits(g, e) => d = Root(k, e)
                  /\ ~Splits(g, e) => d \in Far(k, e, count)
             /\ q.edges[d].from = Joint(k, e) =>
                  /\ Splits(g, e) => d \in Far(k, e, count)
                  /\ ~Splits(g, e) => d = Root(k, e)
  <2>1. CASE d \in DOMAIN plan.edges \ Belts(g)
    BY <1>1, <2>1 DEF FannedBelts
  <2>2. CASE d \in Belts(g)
    <3>1. /\ Splits(g, d) => q.edges[d].from = plan.edges[d].from /\ q.edges[d].to = Joint(0, d)
          /\ ~Splits(g, d) => q.edges[d].from = Joint(0, d) /\ q.edges[d].to = plan.edges[d].to
          /\ q.edges[d].item = plan.edges[d].item /\ d \in DOMAIN plan.edges
      BY <2>2, BankBelts DEF FannedBelts
    <3>2. CASE k = 0 /\ e = d
      BY <1>1, <3>1, <3>2 DEF Root
    <3>3. CASE ~(k = 0 /\ e = d)
      <4>1. Joint(k, e) # Joint(0, d)
        BY <3>3, JointsDiffer
      <4>2. QED
        BY <1>1, <3>1, <4>1
    <3>4. QED
      BY <3>2, <3>3
  <2>3. CASE d \in Trunks(g, count)
    <3>1. PICK i \in Chain(count) \ {0}, x \in Belts(g) : d = <<n, "trunk", i, x>>
      BY <2>3 DEF Trunks
    <3>2. IsFanBelt(q.edges[d], plan.groups[g].factory, plan.edges[x].item, Splits(g, x),
                    Joint(i - 1, x), Joint(i, x))
      BY <3>1 DEF FannedBelts
    <3>3. i \in Int /\ i <= (count \div 2) - 1 /\ i # 0
      BY <3>1 DEF Chain
    <3>4. CASE k = i /\ e = x
      <4>1. Joint(k, e) = Joint(i, x) /\ Joint(k, e) # Joint(i - 1, x)
        BY <3>3, <3>4, JointsDiffer
      <4>2. d = Root(k, e)
        BY <3>1, <3>3, <3>4 DEF Root
      <4>3. QED
        BY <3>2, <3>4, <4>1, <4>2 DEF IsFanBelt
    <3>5. CASE k = i - 1 /\ e = x
      <4>1. Joint(k, e) # Joint(i, x) /\ Joint(k, e) = Joint(i - 1, x)
        BY <3>3, <3>5, JointsDiffer
      <4>2. i = k + 1 /\ k < (count \div 2) - 1
        BY <1>k, <3>3, <3>5
      <4>3. d \in Far(k, e, count)
        BY <3>1, <3>5, <4>2 DEF Far
      <4>4. QED
        BY <3>2, <3>5, <4>1, <4>3 DEF IsFanBelt
    <3>6. CASE ~(k = i /\ e = x) /\ ~(k = i - 1 /\ e = x)
      <4>1. Joint(k, e) # Joint(i, x) /\ Joint(k, e) # Joint(i - 1, x)
        BY <3>6, JointsDiffer
      <4>2. QED
        BY <3>2, <4>1 DEF IsFanBelt
    <3>7. QED
      BY <3>4, <3>5, <3>6
  <2>4. CASE d \in Branches(g, count)
    <3>1. PICK i \in 1..count, x \in Belts(g) : d = <<n, "branch", i, x>>
      BY <2>4 DEF Branches
    <3> DEFINE s == Slot(i, count)
    <3>2. IsFanBelt(q.edges[d], plan.groups[g].factory, plan.edges[x].item, Splits(g, x),
                    Joint(s, x), GroupEnd(<<n, i>>))
      BY <3>1 DEF FannedBelts
    <3>3. /\ s < (count \div 2) - 1 => i = 2 * s + 1 \/ i = 2 * s + 2
          /\ i = 2 * s + 1 \/ i = 2 * s + 2 \/ i = 2 * s + 3
      BY SlotFits
    <3> HIDE DEF s
    <3>4. Joint(k, e) # GroupEnd(<<n, i>>)
      BY JointsDiffer
    <3>5. CASE k = s /\ e = x
      <4>1. d \in Far(k, e, count)
        BY <3>1, <3>3, <3>5 DEF Far
      <4>2. QED
        BY <3>2, <3>4, <3>5, <4>1 DEF IsFanBelt
    <3>6. CASE ~(k = s /\ e = x)
      <4>1. Joint(k, e) # Joint(s, x)
        BY <3>6, JointsDiffer
      <4>2. QED
        BY <3>2, <3>4, <4>1 DEF IsFanBelt
    <3>7. QED
      BY <3>5, <3>6
  <2>5. QED
    BY <2>1, <2>2, <2>3, <2>4 DEF FannedBelts
<1>3. Into(q, Joint(k, e)) \subseteq DOMAIN q.edges /\ OutOf(q, Joint(k, e)) \subseteq DOMAIN q.edges
  BY DEF Into, OutOf
<1>4. QED
  BY <1>2 DEF AtJoint, Touching, Into, OutOf

(* A junction of a fan has belts for its ports and of one item.            *)
LEMMA FanBudget ==
  ASSUME Inv, NEW g \in Planned("groups"), NEW q, NEW count \in Nat, count >= 2,
         FannedBelts(q, g, count), FannedJunctions(q, g, count),
         NEW k \in Chain(count), NEW e \in Belts(g)
  PROVE  Budget(q, <<n, k, e>>)
<1> DEFINE j    == <<n, k, e>>
           kind == q.junctions[j].kind
           into == Into(q, JunctionEnd(j))
           out  == OutOf(q, JunctionEnd(j))
<1>1. AtJoint(q, g, count, k, e)
  BY FanAt
<1>2. JunctionEnd(j) = Joint(k, e)
  BY DEF Joint
<1>3. kind = FanKind(e, Splits(g, e))
  BY DEF FannedJunctions
<1>4. \A d \in into \cup out : q.edges[d].item = plan.edges[e].item
  BY <1>1, <1>2 DEF AtJoint, Touching
<1>5. PICK a, b, c : Far(k, e, count) = {a, b, c}
  BY DEF Far
<1> DEFINE r == Root(k, e)
<1>6. /\ IsFiniteSet({r}) /\ Cardinality({r}) = 1
      /\ IsFiniteSet({a, b, c}) /\ Cardinality({a, b, c}) \in Nat /\ Cardinality({a, b, c}) <= 3
      /\ IsFiniteSet({r, a, b, c}) /\ Cardinality({r, a, b, c}) \in Nat
      /\ Cardinality({r, a, b, c}) <= 4
  BY FewElements
<1>7. /\ Splits(g, e) => into \subseteq {r} /\ out \subseteq {a, b, c}
      /\ ~Splits(g, e) => out \subseteq {r} /\ into \subseteq {a, b, c}
  BY <1>1, <1>2, <1>5 DEF AtJoint
<1> HIDE DEF r, into, out, kind, j
<1>8. /\ \A S \in SUBSET {r} : IsFiniteSet(S) /\ Cardinality(S) \in Nat /\ Cardinality(S) <= 1
      /\ \A S \in SUBSET {a, b, c} : IsFiniteSet(S) /\ Cardinality(S) \in Nat /\ Cardinality(S) <= 3
      /\ \A S \in SUBSET {r, a, b, c} : Cardinality(S) \in Nat /\ Cardinality(S) <= 4
  BY <1>6, FS_Subset, FS_CardinalityType
<1>9. /\ IsFiniteSet(into) /\ IsFiniteSet(out)
      /\ Cardinality(into) \in Nat /\ Cardinality(out) \in Nat
      /\ Cardinality(into \cup out) \in Nat /\ Cardinality(into \cup out) <= 4
      /\ Splits(g, e) => Cardinality(into) <= 1 /\ Cardinality(out) <= 3
      /\ ~Splits(g, e) => Cardinality(out) <= 1 /\ Cardinality(into) <= 3
  <2>1. into \cup out \in SUBSET {r, a, b, c}
    BY <1>7
  <2>2. CASE Splits(g, e)
    <3>1. into \in SUBSET {r} /\ out \in SUBSET {a, b, c}
      BY <1>7, <2>2
    <3>2. QED
      BY <1>8, <2>1, <2>2, <3>1
  <2>3. CASE ~Splits(g, e)
    <3>1. out \in SUBSET {r} /\ into \in SUBSET {a, b, c}
      BY <1>7, <2>3
    <3>2. QED
      BY <1>8, <2>1, <2>3, <3>1
  <2>4. QED
    BY <2>2, <2>3
<1>10. /\ plan.edges[e].item \in Fluid => kind = "pipe"
       /\ plan.edges[e].item \notin Fluid =>
            /\ Splits(g, e) => kind = "splitter"
            /\ ~Splits(g, e) => kind = "merger"
  BY <1>3 DEF FanKind
<1>11. Cardinality(into) <= Inputs[kind] /\ Cardinality(out) <= Outputs[kind]
  <2>1. /\ Inputs["splitter"] = 1 /\ Inputs["merger"] = 3 /\ Inputs["pipe"] = 4
        /\ Outputs["splitter"] = 3 /\ Outputs["merger"] = 1 /\ Outputs["pipe"] = 4
    BY DEF Inputs, Outputs
  <2>2. QED
    BY <1>9, <1>10, <2>1
<1>12. (kind = "pipe") = (plan.edges[e].item \in Fluid)
  BY <1>10
<1>13. QED
  BY <1>4, <1>9, <1>11, <1>12 DEF Budget, PipePorts, into, out, kind, j

(* Expanding a bank keeps the wiring.                                      *)
LEMMA ExpandGroupWired ==
  ASSUME Inv, NEW g, ExpandGroup(g)
  PROVE  Wired(plan', n) /\ made' = n
<1> DEFINE count == EffectiveCount(plan.groups[g])
           f     == plan.groups[g].factory
           q     == plan'
<1>0. /\ Shape(plan) /\ Lists(plan) /\ Joined(plan) /\ Budgets(plan) /\ Layered(plan) /\ Single(plan)
      /\ DOMAIN plan = PlanFields /\ g \in DOMAIN plan.groups /\ ~plan.groups[g].built
      /\ g \in Planned("groups") /\ made' = n /\ f \in DOMAIN plan.factories
  BY DEF Inv, Wired, Shape, Lists, ExpandGroup, Planned, Create, Issue
<1>1. /\ DOMAIN q = DOMAIN plan /\ q.ports = plan.ports /\ q.claims = plan.claims
      /\ FannedGroups(q, g, count) /\ FannedJunctions(q, g, count)
      /\ FannedBelts(q, g, count)
  <2>1. q = Expanded(g)
    BY DEF ExpandGroup, Create, Issue
  <2>2. QED
    BY <1>0, <2>1, ExpandedIs
<1>2. count \in Nat /\ count >= 2
  BY DEF ExpandGroup, ExpandMax
<1> HIDE DEF count, q
<1>3. /\ \A i \in 1..count : Slot(i, count) \in Chain(count)
      /\ 0 \in Chain(count)
      /\ \A k \in Chain(count) \ {0} : k - 1 \in Chain(count) /\ k - 1 # k
  <2>1. 1 \in 1..count
    BY <1>2
  <2>2. QED
    BY <1>2, <2>1, SlotFits DEF Chain
<1>4. /\ \A x \in Machines(count) : x[1] = n /\ x \notin DOMAIN plan.groups
      /\ \A x \in Joints(g, count) : x[1] = n /\ x \notin DOMAIN plan.junctions
      /\ \A x \in Trunks(g, count) \cup Branches(g, count) : x[1] = n /\ x \notin DOMAIN plan.edges
  <2>1. /\ \A x \in Machines(count) : x[1] = n
        /\ \A x \in Joints(g, count) : x[1] = n
        /\ \A x \in Trunks(g, count) \cup Branches(g, count) : x[1] = n
    BY DEF Machines, Joints, Trunks, Branches
  <2>2. QED
    BY <2>1, NewIsFresh DEF Inv, Wired, Issued
<1>5. \A e \in Belts(g) :
        /\ e \in DOMAIN plan.edges
        /\ plan.edges[e].built = FALSE
        /\ plan.edges[e].factory = f
        /\ Splits(g, e) => plan.edges[e].from # GroupEnd(g)
        /\ ~Splits(g, e) => plan.edges[e].from = GroupEnd(g) /\ plan.edges[e].to # GroupEnd(g)
  BY <1>0, BankBelts
<1>6. ASSUME NEW k \in Chain(count), NEW e \in Belts(g)
      PROVE  <<n, k, e>> \in DOMAIN q.junctions /\ q.junctions[<<n, k, e>>].factory = f
  BY <1>1 DEF FannedJunctions, Joints
<1>7. ASSUME NEW k \in Chain(count), NEW e \in Belts(g)
      PROVE  IsEnd(q, Joint(k, e), f)
  BY <1>6 DEF IsEnd, Joint
<1>8. ASSUME NEW i \in 1..count
      PROVE  IsEnd(q, GroupEnd(<<n, i>>), f)
  <2>1. <<n, i>> \in Machines(count)
    BY DEF Machines
  <2>2. <<n, i>> \in DOMAIN q.groups /\ q.groups[<<n, i>>].factory = f
    BY <1>1, <2>1 DEF FannedGroups
  <2>3. QED
    BY <2>2 DEF IsEnd
<1>9. ASSUME NEW end, NEW x, IsEnd(plan, end, x), end # GroupEnd(g)
      PROVE  IsEnd(q, end, x)
  BY <1>1, <1>9 DEF IsEnd, FannedGroups, FannedJunctions
<1>10. ASSUME NEW end, IsBuiltEnd(plan, end)
       PROVE  IsBuiltEnd(q, end)
  BY <1>0, <1>1, <1>10 DEF IsBuiltEnd, FannedGroups
<1>11. ASSUME NEW e \in Trunks(g, count) \cup Branches(g, count)
       PROVE  /\ DOMAIN q.edges[e] = EdgeFields
              /\ q.edges[e].factory = f /\ q.edges[e].built = FALSE
              /\ IsEnd(q, q.edges[e].from, f) /\ IsEnd(q, q.edges[e].to, f)
              /\ q.edges[e].from # q.edges[e].to
              /\ \A j \in DOMAIN plan.junctions :
                   q.edges[e].from # JunctionEnd(j) /\ q.edges[e].to # JunctionEnd(j)
  <2>j. \A j \in DOMAIN plan.junctions : \A k \in Chain(count), x \in Belts(g) :
          JunctionEnd(j) # Joint(k, x)
    <3>1. \A k \in Chain(count), x \in Belts(g) : <<n, k, x>> \notin DOMAIN plan.junctions
      BY <1>4 DEF Joints
    <3>2. QED
      BY <3>1 DEF Joint, JunctionEnd
  <2>g. \A j, x : JunctionEnd(j) # GroupEnd(x)
    BY DEF JunctionEnd, GroupEnd
  <2>1. CASE e \in Trunks(g, count)
    <3>1. PICK k \in Chain(count) \ {0}, x \in Belts(g) : e = <<n, "trunk", k, x>>
      BY <2>1 DEF Trunks
    <3>2. IsFanBelt(q.edges[e], f, plan.edges[x].item, Splits(g, x), Joint(k - 1, x), Joint(k, x))
      BY <1>1, <3>1 DEF FannedBelts
    <3>3. IsEnd(q, Joint(k - 1, x), f) /\ IsEnd(q, Joint(k, x), f) /\ Joint(k - 1, x) # Joint(k, x)
      BY <1>3, <1>7, JointsDiffer
    <3>4. \A j \in DOMAIN plan.junctions :
            JunctionEnd(j) # Joint(k - 1, x) /\ JunctionEnd(j) # Joint(k, x)
      BY <1>3, <2>j
    <3>5. QED
      BY <3>2, <3>3, <3>4 DEF IsFanBelt
  <2>2. CASE e \in Branches(g, count)
    <3>1. PICK i \in 1..count, x \in Belts(g) : e = <<n, "branch", i, x>>
      BY <2>2 DEF Branches
    <3> DEFINE s == Slot(i, count)
    <3>2. IsFanBelt(q.edges[e], f, plan.edges[x].item, Splits(g, x), Joint(s, x), GroupEnd(<<n, i>>))
      BY <1>1, <3>1 DEF FannedBelts
    <3>3. IsEnd(q, Joint(s, x), f) /\ IsEnd(q, GroupEnd(<<n, i>>), f) /\ Joint(s, x) # GroupEnd(<<n, i>>)
      BY <1>3, <1>7, <1>8, JointsDiffer
    <3>4. \A j \in DOMAIN plan.junctions :
            JunctionEnd(j) # Joint(s, x) /\ JunctionEnd(j) # GroupEnd(<<n, i>>)
      BY <1>3, <2>j, <2>g
    <3>5. QED
      BY <3>2, <3>3, <3>4 DEF IsFanBelt
  <2>3. QED
    BY <2>1, <2>2
<1>12. ASSUME NEW e \in Belts(g)
       PROVE  /\ DOMAIN q.edges[e] = EdgeFields
              /\ q.edges[e].factory = f /\ q.edges[e].built = FALSE
              /\ q.edges[e].item = plan.edges[e].item
              /\ IsEnd(q, q.edges[e].from, f) /\ IsEnd(q, q.edges[e].to, f)
              /\ q.edges[e].from # q.edges[e].to
              /\ \A j \in DOMAIN plan.junctions :
                   /\ q.edges[e].from = JunctionEnd(j) => plan.edges[e].from = JunctionEnd(j)
                   /\ q.edges[e].to = JunctionEnd(j) => plan.edges[e].to = JunctionEnd(j)
  <2>1. /\ DOMAIN q.edges[e] = EdgeFields
        /\ q.edges[e].factory = f /\ q.edges[e].built = FALSE
        /\ q.edges[e].item = plan.edges[e].item
        /\ Splits(g, e) => q.edges[e].from = plan.edges[e].from /\ q.edges[e].to = Joint(0, e)
        /\ ~Splits(g, e) => q.edges[e].from = Joint(0, e) /\ q.edges[e].to = plan.edges[e].to
    BY <1>1, <1>5 DEF FannedBelts
  <2>2. <<n, 0, e>> \notin DOMAIN plan.junctions
    BY <1>3, <1>4 DEF Joints
  <2>3. Joint(0, e) # plan.edges[e].from /\ Joint(0, e) # plan.edges[e].to
    BY <1>0, <1>5, <2>2, Untouched DEF Joint
  <2>4. \A j \in DOMAIN plan.junctions : Joint(0, e) # JunctionEnd(j)
    BY <2>2 DEF Joint, JunctionEnd
  <2>5. IsEnd(q, Joint(0, e), f)
    BY <1>3, <1>7
  <2>6. /\ Splits(g, e) => IsEnd(q, plan.edges[e].from, f)
        /\ ~Splits(g, e) => IsEnd(q, plan.edges[e].to, f)
    BY <1>0, <1>5, <1>9 DEF Joined
  <2>7. QED
    BY <2>1, <2>3, <2>4, <2>5, <2>6
<1>13. ASSUME NEW e \in DOMAIN plan.edges \ Belts(g)
       PROVE  /\ q.edges[e] = plan.edges[e]
              /\ plan.edges[e].from # GroupEnd(g) /\ plan.edges[e].to # GroupEnd(g)
  BY <1>1 DEF FannedBelts, Belts, Touching, Into, OutOf
<1>14. DOMAIN q.edges = DOMAIN plan.edges \cup Trunks(g, count) \cup Branches(g, count)
  BY <1>1 DEF FannedBelts
<1>15. Shape(q)
  <2>1. \A x \in DOMAIN q.factories : DOMAIN q.factories[x] = FactoryFields /\ q.factories[x].built \in BOOLEAN
    BY <1>0, <1>1 DEF Shape, FannedGroups
  <2>2. \A x \in DOMAIN q.groups : DOMAIN q.groups[x] = GroupFields /\ q.groups[x].built \in BOOLEAN
    BY ZenonT(60), <1>0, <1>1 DEF Shape, FannedGroups
  <2>3. \A x \in DOMAIN q.edges : DOMAIN q.edges[x] = EdgeFields /\ q.edges[x].built \in BOOLEAN
    <3>1. \A x \in DOMAIN plan.edges : DOMAIN plan.edges[x] = EdgeFields /\ plan.edges[x].built \in BOOLEAN
      BY <1>0 DEF Shape
    <3>2. QED
      BY <1>11, <1>12, <1>13, <1>14, <3>1
  <2>4. \A j \in DOMAIN q.junctions :
          DOMAIN q.junctions[j] = JunctionFields /\ q.junctions[j].kind \in JunctionKind
    <3>1. \A j \in DOMAIN plan.junctions :
            DOMAIN q.junctions[j] = JunctionFields /\ q.junctions[j].kind \in JunctionKind
      BY <1>0, <1>1 DEF Shape, FannedJunctions
    <3>2. ASSUME NEW k \in Chain(count), NEW e \in Belts(g)
          PROVE  /\ DOMAIN q.junctions[<<n, k, e>>] = JunctionFields
                 /\ q.junctions[<<n, k, e>>].kind \in JunctionKind
      <4>1. FanKind(e, Splits(g, e)) \in JunctionKind
        BY DEF FanKind, JunctionKind
      <4>2. QED
        BY <1>1, <4>1 DEF FannedJunctions
    <3>3. QED
      BY <1>1, <3>1, <3>2 DEF FannedJunctions, Joints
  <2>5. QED
    BY <1>0, <1>1, <2>1, <2>2, <2>3, <2>4 DEF Shape
<1>16. Issued(q, n)
  BY <1>1, <1>4, <1>14, NewIsFresh DEF Issued, FannedGroups, FannedJunctions
<1>17. Lists(q)
  <2>1. \A x \in DOMAIN q.factories :
          /\ q.factories[x].groups = {h \in DOMAIN q.groups : q.groups[h].factory = x}
          /\ q.factories[x].ports = {p \in DOMAIN q.ports : q.ports[p].factory = x}
          /\ q.factories[x].claims = {c \in DOMAIN q.claims : q.claims[c].factory = x}
    <3>1. \A x \in DOMAIN plan.factories :
            /\ plan.factories[x].groups = {h \in DOMAIN plan.groups : plan.groups[h].factory = x}
            /\ plan.factories[x].ports = {p \in DOMAIN plan.ports : plan.ports[p].factory = x}
            /\ plan.factories[x].claims = {c \in DOMAIN plan.claims : plan.claims[c].factory = x}
      BY <1>0 DEF Lists
    <3>2. \A h \in DOMAIN q.groups :
            IF h \in Machines(count) THEN q.groups[h].factory = f ELSE q.groups[h] = plan.groups[h]
      BY <1>1 DEF FannedGroups
    <3>3. QED
      BY <1>0, <1>1, <1>4, <3>1, <3>2 DEF FannedGroups
  <2>2. \A x \in DOMAIN q.groups : q.groups[x].factory \in DOMAIN q.factories
    BY <1>0, <1>1 DEF Lists, FannedGroups
  <2>3. /\ \A x \in DOMAIN q.ports : q.ports[x].factory \in DOMAIN q.factories
        /\ \A x \in DOMAIN q.claims : q.claims[x].factory \in DOMAIN q.factories
    BY <1>0, <1>1 DEF Lists, FannedGroups
  <2>4. DOMAIN q.factories = DOMAIN plan.factories
    BY <1>1 DEF FannedGroups
  <2>5. \A x \in DOMAIN q.junctions : q.junctions[x].factory \in DOMAIN q.factories
    BY <1>0, <1>1, <2>4 DEF Lists, FannedJunctions, Joints
  <2>6. \A x \in DOMAIN q.edges : q.edges[x].factory \in DOMAIN q.factories
    BY <1>0, <1>11, <1>12, <1>13, <1>14, <2>4 DEF Lists
  <2>7. QED
    BY <2>1, <2>2, <2>3, <2>5, <2>6 DEF Lists
<1>18. Joined(q)
  <2>1. ASSUME NEW e \in DOMAIN plan.edges \ Belts(g)
        PROVE  IsEnd(q, q.edges[e].from, q.edges[e].factory) /\ IsEnd(q, q.edges[e].to, q.edges[e].factory)
    BY <1>0, <1>9, <1>13 DEF Joined
  <2>2. QED
    BY <1>11, <1>12, <1>14, <2>1 DEF Joined
<1>19. Budgets(q)
  <2>1. ASSUME NEW j \in DOMAIN plan.junctions
        PROVE  Budget(q, j)
    <3>1. /\ Budget(plan, j) /\ plan.junctions[j].kind \in JunctionKind
          /\ q.junctions[j] = plan.junctions[j]
      BY <1>0, <1>1 DEF Budgets, Shape, FannedJunctions
    <3>2. \A e \in DOMAIN q.edges :
            q.edges[e].from = JunctionEnd(j) \/ q.edges[e].to = JunctionEnd(j)
              => /\ e \in DOMAIN plan.edges
                 /\ q.edges[e].item = plan.edges[e].item
                 /\ q.edges[e].from = JunctionEnd(j) => plan.edges[e].from = JunctionEnd(j)
                 /\ q.edges[e].to = JunctionEnd(j) => plan.edges[e].to = JunctionEnd(j)
      BY ZenonT(60), <1>11, <1>12, <1>13, <1>14
    <3>3. /\ Into(q, JunctionEnd(j)) \subseteq Into(plan, JunctionEnd(j))
          /\ OutOf(q, JunctionEnd(j)) \subseteq OutOf(plan, JunctionEnd(j))
          /\ \A e \in Touching(q, JunctionEnd(j)) : q.edges[e].item = plan.edges[e].item
      BY <3>2 DEF Into, OutOf, Touching
    <3>4. QED
      BY <3>1, <3>3, BudgetAt
  <2>2. ASSUME NEW k \in Chain(count), NEW e \in Belts(g)
        PROVE  Budget(q, <<n, k, e>>)
    BY <1>0, <1>1, <1>2, FanBudget
  <2>3. QED
    BY <1>1, <2>1, <2>2 DEF Budgets, FannedJunctions, Joints
<1>20. Layered(q)
  <2>1. \A h \in DOMAIN q.groups : q.groups[h].built => q.factories[q.groups[h].factory].built
    BY <1>0, <1>1 DEF Layered, FannedGroups, Lists
  <2>2. /\ \A p \in DOMAIN q.ports : q.ports[p].built => q.factories[q.ports[p].factory].built
        /\ \A c \in DOMAIN q.claims : q.claims[c].built => q.factories[q.claims[c].factory].built
    BY <1>0, <1>1 DEF Layered, FannedGroups, Lists
  <2>3. ASSUME NEW e \in DOMAIN q.edges
        PROVE  IF q.edges[e].built
               THEN /\ q.factories[q.edges[e].factory].built
                    /\ IsBuiltEnd(q, q.edges[e].from) /\ IsBuiltEnd(q, q.edges[e].to)
               ELSE q.edges[e].from # q.edges[e].to
    <3>1. CASE e \in DOMAIN plan.edges \ Belts(g)
      <4>1. /\ q.edges[e] = plan.edges[e] /\ plan.edges[e].factory \in DOMAIN plan.factories
            /\ q.factories[plan.edges[e].factory].built = plan.factories[plan.edges[e].factory].built
        BY <1>0, <1>1, <1>13, <3>1 DEF Lists, FannedGroups
      <4>2. QED
        BY <1>0, <1>10, <3>1, <4>1 DEF Layered
    <3>2. CASE e \notin DOMAIN plan.edges \ Belts(g)
      BY <1>11, <1>12, <1>14, <3>2
    <3>3. QED
      BY <3>1, <3>2
  <2>4. QED
    BY <2>1, <2>2, <2>3 DEF Layered
<1>21. Single(q)
  <2>1. ASSUME NEW e \in DOMAIN q.edges, q.edges[e].built
        PROVE  e \in DOMAIN plan.edges /\ q.edges[e] = plan.edges[e]
    BY <1>11, <1>12, <1>13, <1>14, <2>1
  <2>2. QED
    BY <1>0, <1>1, <2>1 DEF Single
<1>22. QED
  BY <1>0, <1>15, <1>16, <1>17, <1>18, <1>19, <1>20, <1>21 DEF Wired, q

------------------------------------------------------------------------------
(* Imports and accepted drift items *)

(* What dissolves at the end of an accepted item is no wiring.             *)
LEMMA AcceptWired ==
  ASSUME NEW pl, Wired(pl, n), Accept(pl)
  PROVE  Wired(plan', n) /\ made' = n
<1> DEFINE q == DropStaleLinks(pl)
<1>1. Shape(pl)
  BY DEF Wired
<1>2. Wired(q, n)
  BY <1>1, DropStaleLinksSame, SameWired
<1> HIDE DEF q
<1>3. PICK marks : plan' = [q EXCEPT !.marks = marks] /\ made' = n
  BY DEF Accept, Import, Issue, q
<1>4. DOMAIN q = PlanFields
  BY <1>2 DEF Wired, Shape
<1>5. /\ DOMAIN plan' = DOMAIN q
      /\ plan'.factories = q.factories /\ plan'.groups = q.groups /\ plan'.ports = q.ports
      /\ plan'.claims = q.claims /\ plan'.junctions = q.junctions /\ plan'.edges = q.edges
  BY <1>3, <1>4 DEF PlanFields, Collection
<1>6. Same(q, plan')
  BY <1>5, SameParts DEF Same
<1>7. QED
  BY <1>2, <1>3, <1>6, SameWired

(* An import and each kind of accepted item keep the wiring.               *)
LEMMA ImportSteps ==
  ASSUME Inv
  PROVE  /\ \A c : ImportSave(c) => Wired(plan', n) /\ made' = n
         /\ \A c : SyncCreate(c) => Wired(plan', n) /\ made' = n
         /\ \A f, r, count, takeSave :
              SyncUpdate(f, r, count, takeSave) => Wired(plan', n) /\ made' = n
         /\ \A f, r, to, count, takeSave :
              SyncRetune(f, r, to, count, takeSave) => Wired(plan', n) /\ made' = n
         /\ \A f : SyncRemove(f) => Wired(plan', n) /\ made' = n
<1>0. /\ made \in Nat /\ n = made + 1 /\ Wired(plan, made) /\ Wired(plan, n)
      /\ Shape(plan) /\ Lists(plan)
  BY WiredLater, NewIsFresh DEF Inv, Wired
<1>1. ASSUME NEW c, ImportSave(c)
      PROVE  Wired(plan', n) /\ made' = n
  <2>1. plan' = WriteBuiltLayer(plan, n, c) /\ made' = n
    BY <1>1 DEF ImportSave, Import, Issue
  <2>2. QED
    BY <1>0, <2>1, WriteBuiltWired
<1>2. ASSUME NEW c, SyncCreate(c)
      PROVE  Wired(plan', n) /\ made' = n
  <2>1. Accept(WriteBuiltLayer(plan, n, c))
    BY <1>2 DEF SyncCreate
  <2>2. Wired(WriteBuiltLayer(plan, n, c), n)
    BY <1>0, WriteBuiltWired
  <2>3. QED
    BY <2>1, <2>2, AcceptWired
<1>k. ASSUME NEW f \in Built("factories"), NEW r, NEW g \in Keyed(plan, f, r)
      PROVE  g \in DOMAIN plan.groups
  <2>1. f \in DOMAIN plan.factories /\ g \in plan.factories[f].groups
    BY DEF Built, Keyed
  <2>2. QED
    BY <1>0, <2>1 DEF Lists
<1>b. ASSUME NEW f \in Built("factories")
      PROVE  f \in DOMAIN plan.factories /\ plan.factories[f].built /\ plan.factories[f].built = TRUE
  <2>1. f \in DOMAIN plan.factories /\ plan.factories[f].built
    BY DEF Built
  <2>2. QED
    BY <1>0, <2>1 DEF Shape
<1>3. ASSUME NEW f, NEW r, NEW count, NEW takeSave, SyncUpdate(f, r, count, takeSave)
      PROVE  Wired(plan', n) /\ made' = n
  <2>1. f \in Built("factories")
    BY <1>3 DEF SyncUpdate
  <2>2. CASE Keyed(plan, f, r) = {}
    <3>1. Accept(SyncNewGroup(plan, f, r, count, n))
      BY <1>3, <2>2 DEF SyncUpdate
    <3>2. Wired(SyncNewGroup(plan, f, r, count, n), n)
      BY <1>0, <1>b, <2>1, SyncNewGroupWired
    <3>3. QED
      BY <3>1, <3>2, AcceptWired
  <2>3. CASE Keyed(plan, f, r) # {}
    <3>1. PICK g \in Keyed(plan, f, r) : Accept(SyncGroup(plan, f, g, count, takeSave, n))
      BY <1>3, <2>3 DEF SyncUpdate
    <3>2. g \in DOMAIN plan.groups
      BY <1>k, <2>1
    <3>3. Wired(SyncGroup(plan, f, g, count, takeSave, n), n)
      BY <1>0, <1>b, <2>1, <3>2, SyncGroupWired
    <3>4. QED
      BY <3>1, <3>3, AcceptWired
  <2>4. QED
    BY <2>2, <2>3
<1>4. ASSUME NEW f, NEW r, NEW to, NEW count, NEW takeSave, SyncRetune(f, r, to, count, takeSave)
      PROVE  Wired(plan', n) /\ made' = n
  <2>1. f \in Built("factories")
    BY <1>4 DEF SyncRetune
  <2>2. PICK g \in Keyed(plan, f, r) : Accept(Retune(plan, f, g, to, count, takeSave, n))
    BY <1>4 DEF SyncRetune
  <2>3. g \in DOMAIN plan.groups
    BY <1>k, <2>1
  <2>4. Wired(Retune(plan, f, g, to, count, takeSave, n), n)
    BY <1>0, <1>b, <2>1, <2>3, RetuneWired
  <2>5. QED
    BY <2>2, <2>4, AcceptWired
<1>5. ASSUME NEW f, SyncRemove(f)
      PROVE  Wired(plan', n) /\ made' = n
  <2>1. f \in DOMAIN plan.factories /\ Accept(RemoveFactory(plan, f))
    BY <1>5 DEF SyncRemove, Built
  <2>2. Wired(RemoveFactory(plan, f), n)
    BY <1>0, <2>1, RemoveFactoryLess, LessWired
  <2>3. QED
    BY <2>1, <2>2, AcceptWired
<1>6. QED
  BY <1>1, <1>2, <1>3, <1>4, <1>5

------------------------------------------------------------------------------
(* The invariant *)

(* The empty plan is wired. *)
LEMMA InitInv ==
  ASSUME Init
  PROVE  Inv
<1>1. plan = EmptyPlan /\ made = 0 /\ scene \in Scenes
  BY DEF Init
<1>2. /\ DOMAIN plan = PlanFields
      /\ DOMAIN plan.factories = {} /\ DOMAIN plan.groups = {} /\ DOMAIN plan.ports = {}
      /\ DOMAIN plan.junctions = {} /\ DOMAIN plan.edges = {} /\ DOMAIN plan.claims = {}
  BY <1>1 DEF EmptyPlan, PlanFields, Collection
<1>3. /\ Shape(plan) /\ Issued(plan, made) /\ Lists(plan) /\ Joined(plan)
      /\ Budgets(plan) /\ Layered(plan) /\ Single(plan)
  BY <1>2 DEF Shape, Issued, Lists, Joined, Budgets, Layered, Single
<1>4. QED
  BY <1>1, <1>3 DEF Inv, Wired

(* No step changes the scene.                                              *)
LEMMA SceneStays ==
  ASSUME [Next]_vars
  PROVE  scene' = scene
<1>1. /\ \A pl : Edit(pl) => scene' = scene
      /\ \A pl : Create(pl) => scene' = scene
      /\ \A pl : Import(pl) => scene' = scene
  BY DEF Edit, Create, Import, Issue
<1>2. \A pl : Accept(pl) => scene' = scene
  BY <1>1 DEF Accept
<1>3. /\ \A f, old : SetFactoryReplaces(f, old) => scene' = scene
      /\ \A f, at : MoveFactoryPin(f, at) => scene' = scene
      /\ \A f : DeleteFactory(f) => scene' = scene
      /\ \A s : DeleteStyleGuide(s) => scene' = scene
      /\ \A f, s : SetFactoryTheme(f, s) => scene' = scene
      /\ \A g, r : SetGroupRecipe(g, r) => scene' = scene
      /\ \A g, count : SetGroupCount(g, count) => scene' = scene
      /\ \A g : DeleteGroup(g) => scene' = scene
      /\ \A p : DeletePort(p) => scene' = scene
      /\ \A e : DeleteEdge(e) => scene' = scene
      /\ \A j : DeleteJunction(j) => scene' = scene
  BY <1>1 DEF SetFactoryReplaces, MoveFactoryPin, DeleteFactory, DeleteStyleGuide, SetFactoryTheme,
              SetGroupRecipe, SetGroupCount, DeleteGroup, DeletePort, DeleteEdge, DeleteJunction
<1>4. /\ \A r, kind : SetRouteSpec(r, kind) => scene' = scene
      /\ \A r : DeleteRoute(r) => scene' = scene
      /\ \A s : DeleteSwitch(s) => scene' = scene
      /\ \A c : ReleaseNode(c) => scene' = scene
      /\ \A c : SetClaim(c) => scene' = scene
      /\ \A x, kept : SetBuildDone(x, kept) => scene' = scene
  BY <1>1 DEF SetRouteSpec, DeleteRoute, DeleteSwitch, ReleaseNode, SetClaim, SetBuildDone
<1>5. /\ \A at : CreateFactory(at) => scene' = scene
      /\ CreateStyleGuide => scene' = scene
      /\ \A f, r, count : AddGroup(f, r, count) => scene' = scene
      /\ \A f, dir, item : AddPort(f, dir, item) => scene' = scene
      /\ \A f, kind : AddJunction(f, kind) => scene' = scene
      /\ \A f, from, to, item : AddEdge(f, from, to, item) => scene' = scene
      /\ \A f, node : ClaimNode(f, node) => scene' = scene
      /\ \A from, to : AddPowerLine(from, to) => scene' = scene
      /\ \A g : ExpandGroup(g) => scene' = scene
      /\ \A kind, from, to : AddCargoRoute(kind, from, to) => scene' = scene
      /\ \A r : AddPrioritySwitch(r) => scene' = scene
  <2>1. ASSUME NEW at, CreateFactory(at) PROVE scene' = scene
    BY <2>1 DEF CreateFactory, Create, Issue
  <2>2. CASE CreateStyleGuide
    BY <2>2 DEF CreateStyleGuide, Create, Issue
  <2>3. ASSUME NEW f, NEW r, NEW count, AddGroup(f, r, count) PROVE scene' = scene
    BY <2>3 DEF AddGroup, Create, Issue
  <2>4. ASSUME NEW f, NEW dir, NEW item, AddPort(f, dir, item) PROVE scene' = scene
    BY <2>4 DEF AddPort, Create, Issue
  <2>5. ASSUME NEW f, NEW kind, AddJunction(f, kind) PROVE scene' = scene
    BY <2>5 DEF AddJunction, Create, Issue
  <2>6. ASSUME NEW f, NEW from, NEW to, NEW item, AddEdge(f, from, to, item) PROVE scene' = scene
    BY <2>6 DEF AddEdge, Create, Issue
  <2>7. ASSUME NEW f, NEW node, ClaimNode(f, node) PROVE scene' = scene
    BY <2>7 DEF ClaimNode, Create, Issue
  <2>8. ASSUME NEW from, NEW to, AddPowerLine(from, to) PROVE scene' = scene
    BY <2>8 DEF AddPowerLine, Create, Issue
  <2>9. ASSUME NEW g, ExpandGroup(g) PROVE scene' = scene
    BY <2>9 DEF ExpandGroup, Create, Issue
  <2>10. ASSUME NEW kind, NEW from, NEW to, AddCargoRoute(kind, from, to) PROVE scene' = scene
    BY <2>10 DEF AddCargoRoute, Create, Issue
  <2>11. ASSUME NEW r, AddPrioritySwitch(r) PROVE scene' = scene
    BY <2>11 DEF AddPrioritySwitch, Create, Issue
  <2>12. QED
    BY <2>1, <2>2, <2>3, <2>4, <2>5, <2>6, <2>7, <2>8, <2>9, <2>10, <2>11
<1>6. /\ \A c : ImportSave(c) => scene' = scene
      /\ \A c : SyncCreate(c) => scene' = scene
      /\ \A f, r, count, takeSave : SyncUpdate(f, r, count, takeSave) => scene' = scene
      /\ \A f, r, to, count, takeSave : SyncRetune(f, r, to, count, takeSave) => scene' = scene
      /\ \A f : SyncRemove(f) => scene' = scene
  BY <1>1, <1>2 DEF ImportSave, SyncCreate, SyncUpdate, SyncRetune, SyncRemove
<1>7. CASE UNCHANGED vars
  BY <1>7 DEF vars
<1>8. QED
  BY <1>3, <1>4, <1>5, <1>6, <1>7 DEF Next

(* Every command and every import keeps the wiring of the plan, one step for
   each disjunct of Next.                                                  *)
LEMMA NextInv ==
  ASSUME Inv, [Next]_vars
  PROVE  Inv'
<1>0. made \in Nat /\ Wired(plan, made) /\ scene \in Scenes /\ n = made + 1 /\ n \in Nat
  BY NewIsFresh DEF Inv
<1>s. scene' = scene
  BY SceneStays
<1>a. Same(plan, plan') /\ made' \in {made, made + 1} => Inv'
  <2>1. Same(plan, plan') => Wired(plan', made)
    BY <1>0, SameWired
  <2>2. Same(plan, plan') => Wired(plan', made + 1)
    BY <1>0, <2>1, WiredLater
  <2>3. QED
    BY <1>0, <1>s, <2>1, <2>2 DEF Inv, vars
<1>b. Less(plan, plan') /\ made' = made => Inv'
  BY <1>0, <1>s, LessWired DEF Inv, vars
<1>c. More(plan, plan') /\ Issued(plan', n) /\ made' = n => Inv'
  BY <1>0, <1>s, MoreWired DEF Inv, vars
<1>d. Wired(plan', n) /\ made' = n => Inv'
  BY <1>0, <1>s DEF Inv, vars
<1>1. CASE UNCHANGED vars
  BY <1>0, <1>1 DEF vars, Inv
<1>2. ASSUME NEW at, CreateFactory(at) PROVE Inv'
  BY <1>2, <1>c, CreateFactoryMore
<1>3. ASSUME NEW s, DeleteStyleGuide(s) PROVE Inv'
  BY <1>3, <1>a, DeleteStyleGuideSame
<1>4. CASE CreateStyleGuide
  BY <1>4, <1>a, UnwiredSteps
<1>5. ASSUME NEW f, NEW at, MoveFactoryPin(f, at) PROVE Inv'
  BY <1>5, <1>a, MoveFactoryPinSame
<1>6. ASSUME NEW f, DeleteFactory(f) PROVE Inv'
  BY <1>6, <1>b, DeleteSteps
<1>7. ASSUME NEW f, NEW old, SetFactoryReplaces(f, old) PROVE Inv'
  BY <1>7, <1>a, SetFactoryReplacesSame
<1>8. ASSUME NEW f, NEW s, SetFactoryTheme(f, s) PROVE Inv'
  BY <1>8, <1>a, SetFactoryThemeSame
<1>9. ASSUME NEW f, NEW recipe, NEW count, AddGroup(f, recipe, count) PROVE Inv'
  BY <1>9, <1>c, AddGroupMore
<1>10. ASSUME NEW f, NEW dir, NEW item, AddPort(f, dir, item) PROVE Inv'
  BY <1>10, <1>c, AddPortMore
<1>11. ASSUME NEW f, NEW kind \in scene.kinds, AddJunction(f, kind) PROVE Inv'
  <2>1. kind \in JunctionKind
    BY <1>0, PlanAssumption
  <2>2. QED
    BY <1>11, <1>c, <2>1, AddJunctionMore
<1>12. ASSUME NEW f \in DOMAIN plan.factories, NEW from \in End(plan), NEW to \in End(plan), NEW item,
              AddEdge(f, from, to, item)
       PROVE  Inv'
  BY <1>12, <1>c, AddEdgeMore
<1>13. ASSUME NEW f, NEW node, ClaimNode(f, node) PROVE Inv'
  BY <1>13, <1>c, ClaimNodeMore
<1>14. ASSUME NEW from, NEW to, AddPowerLine(from, to) PROVE Inv'
  BY <1>14, <1>a, UnwiredSteps
<1>15. ASSUME NEW g, NEW recipe, SetGroupRecipe(g, recipe) PROVE Inv'
  BY <1>15, <1>a, SetGroupRecipeSame
<1>16. ASSUME NEW g, NEW count, SetGroupCount(g, count) PROVE Inv'
  BY <1>16, <1>a, SetGroupCountSame
<1>17. ASSUME NEW g, DeleteGroup(g) PROVE Inv'
  BY <1>17, <1>b, DeleteSteps
<1>18. ASSUME NEW g, ExpandGroup(g) PROVE Inv'
  BY <1>18, <1>d, ExpandGroupWired
<1>19. ASSUME NEW kind, NEW from, NEW to, AddCargoRoute(kind, from, to) PROVE Inv'
  BY <1>19, <1>a, AddCargoRouteSame
<1>20. ASSUME NEW p, DeletePort(p) PROVE Inv'
  BY <1>20, <1>b, DeleteSteps
<1>21. ASSUME NEW e, DeleteEdge(e) PROVE Inv'
  BY <1>21, <1>b, DeleteEdgeLess
<1>22. ASSUME NEW j, DeleteJunction(j) PROVE Inv'
  BY <1>22, <1>b, DeleteSteps
<1>23. ASSUME NEW r, NEW kind, SetRouteSpec(r, kind) PROVE Inv'
  BY <1>23, <1>a, UnwiredSteps
<1>24. ASSUME NEW r, DeleteRoute(r) PROVE Inv'
  BY <1>24, <1>b, DeleteSteps
<1>25. ASSUME NEW r, AddPrioritySwitch(r) PROVE Inv'
  BY <1>25, <1>a, UnwiredSteps
<1>26. ASSUME NEW s, DeleteSwitch(s) PROVE Inv'
  BY <1>26, <1>a, UnwiredSteps
<1>27. ASSUME NEW c, ReleaseNode(c) PROVE Inv'
  BY <1>27, <1>b, ReleaseNodeLess
<1>28. ASSUME NEW c, SetClaim(c) PROVE Inv'
  BY <1>28, <1>a, SetClaimSame
<1>29. ASSUME NEW x, NEW kept, SetBuildDone(x, kept) PROVE Inv'
  BY <1>29, <1>a, UnwiredSteps
<1>30. ASSUME NEW c, ImportSave(c) \/ SyncCreate(c) PROVE Inv'
  BY <1>30, <1>d, ImportSteps
<1>31. ASSUME NEW f, NEW r, NEW count, NEW takeSave, SyncUpdate(f, r, count, takeSave) PROVE Inv'
  BY <1>31, <1>d, ImportSteps
<1>32. ASSUME NEW f, NEW r, NEW to, NEW count, NEW takeSave, SyncRetune(f, r, to, count, takeSave)
       PROVE  Inv'
  BY <1>32, <1>d, ImportSteps
<1>33. ASSUME NEW f, SyncRemove(f) PROVE Inv'
  BY <1>33, <1>d, ImportSteps
<1>34. QED
  BY <1>1, <1>2, <1>3, <1>4, <1>5, <1>6, <1>7, <1>8, <1>9, <1>10, <1>11, <1>12, <1>13, <1>14,
     <1>15, <1>16, <1>17, <1>18, <1>19, <1>20, <1>21, <1>22, <1>23, <1>24, <1>25, <1>26, <1>27,
     <1>28, <1>29, <1>30, <1>31, <1>32, <1>33 DEF Next

(* The inductive invariant holds of every behaviour.                       *)
THEOREM Invariant == Spec => []Inv
<1>1. Init => Inv
  BY InitInv
<1>2. Inv /\ [Next]_vars => Inv'
  BY NextInv
<1>3. QED
  BY <1>1, <1>2, PTL DEF Spec

(* No command, import or sync forgets one side of what a factory owns, leaves
   a belt on something that is gone, or overfills a junction.              *)
THEOREM WiringAlwaysHolds == Spec => []WiringHolds
<1>1. Inv => ListsMatch
  BY DEF Inv, Wired, Lists, ListsMatch, Owned
<1>2. Inv => BeltsJoin
  <2> SUFFICES ASSUME Joined(plan), NEW e \in DOMAIN plan.edges
               PROVE  /\ EndIn(plan, plan.edges[e].from, plan.edges[e].factory)
                      /\ EndIn(plan, plan.edges[e].to, plan.edges[e].factory)
    BY DEF Inv, Wired, BeltsJoin
  <2>1. \A end, f : IsEnd(plan, end, f) => EndIn(plan, end, f)
    BY DEF IsEnd, EndIn, GroupEnd, PortEnd, JunctionEnd
  <2>2. QED
    BY <2>1 DEF Joined
<1>3. Inv => JunctionBudgets
  BY DEF Inv, Wired, Budgets, Budget, JunctionBudgets, Touching
<1>4. Inv => WiringHolds
  BY <1>1, <1>2, <1>3 DEF WiringHolds
<1>5. QED
  BY <1>4, Invariant, PTL

(* The built layer never doubles a port or a belt.                         *)
THEOREM NeverTwins == Spec => []NoTwins
<1>1. Inv => NoTwins
  BY DEF Inv, Wired, Single, NoTwins, Built
<1>2. QED
  BY <1>1, Invariant, PTL

------------------------------------------------------------------------------
(* Routes and links *)

RouteFields  == {"kind", "ends", "path"}
SwitchFields == {"route", "at"}

(* What routes and switches look like; their ids are issued like others.   *)
RouteShape(pl, m) ==
  /\ \A r \in DOMAIN pl.routes :
       /\ r # None /\ r[1] \in 1..m
       /\ DOMAIN pl.routes[r] = RouteFields
       /\ pl.routes[r].ends = <<pl.routes[r].ends[1], pl.routes[r].ends[2]>>
       /\ pl.routes[r].path = [i \in 1..2 |-> pl.routes[r].path[i]]
  /\ \A s \in DOMAIN pl.switches :
       /\ s[1] \in 1..m
       /\ DOMAIN pl.switches[s] = SwitchFields

(* No id is a factory's and a port's.                                      *)
Apart(pl) == DOMAIN pl.factories \cap DOMAIN pl.ports = {}

(* RoutesBind of a plan, end by end.                                       *)
Cargo(pl, r, from, to) ==
  /\ from \in DOMAIN pl.ports /\ to \in DOMAIN pl.ports
  /\ pl.ports[from].dir = "out" /\ pl.ports[to].dir = "in"
  /\ pl.ports[from].item = pl.ports[to].item
  /\ pl.ports[from].route = r /\ pl.ports[to].route = r

Power(pl, r, from, to) ==
  /\ from \in DOMAIN pl.factories /\ to \in DOMAIN pl.factories
  /\ from # to
  /\ \A x \in DOMAIN pl.routes :
       /\ pl.routes[x].kind = "power"
       /\ \/ pl.routes[x].ends[1] = from /\ pl.routes[x].ends[2] = to
          \/ pl.routes[x].ends[1] = to /\ pl.routes[x].ends[2] = from
       => x = r

Bound(pl) ==
  /\ \A r \in DOMAIN pl.routes :
       /\ pl.routes[r].kind = "power" => Power(pl, r, pl.routes[r].ends[1], pl.routes[r].ends[2])
       /\ pl.routes[r].kind # "power" => Cargo(pl, r, pl.routes[r].ends[1], pl.routes[r].ends[2])
  /\ \A p \in DOMAIN pl.ports :
       pl.ports[p].route # None =>
         /\ pl.ports[p].route \in DOMAIN pl.routes
         /\ p \in {pl.routes[pl.ports[p].route].ends[1], pl.routes[pl.ports[p].route].ends[2]}

(* LinesFollowPins of a plan.                                              *)
IsPin(pl, end, at) ==
  /\ end \in DOMAIN pl.ports => at = pl.factories[pl.ports[end].factory].at
  /\ end \notin DOMAIN pl.ports => at = pl.factories[end].at

Pinned(pl) ==
  /\ \A r \in DOMAIN pl.routes :
       /\ IsPin(pl, pl.routes[r].ends[1], pl.routes[r].path[1])
       /\ IsPin(pl, pl.routes[r].ends[2], pl.routes[r].path[2])
  /\ \A s \in DOMAIN pl.switches :
       /\ pl.switches[s].route \in DOMAIN pl.routes
       /\ pl.routes[pl.switches[s].route].kind = "power"
       /\ pl.switches[s].at = Midpoint(pl.routes[pl.switches[s].route].path)

Served(pl, m) == RouteShape(pl, m) /\ Apart(pl) /\ Bound(pl) /\ Pinned(pl)

(* LinksResolve of a plan, but for replaced factories that are gone.       *)
Standing(pl) ==
  DOMAIN pl.factories \cup DOMAIN pl.groups \cup DOMAIN pl.routes \cup DOMAIN pl.claims

Linking(pl) ==
  /\ \A f \in DOMAIN pl.factories :
       /\ pl.factories[f].guide \in pl.guides \cup {None}
       /\ pl.factories[f].replaces # None =>
            /\ pl.factories[f].replaces # f
            /\ pl.factories[f].replaces \in DOMAIN pl.factories
                 => pl.factories[pl.factories[f].replaces].built
  /\ pl.marks \subseteq Standing(pl)

Linked(pl) ==
  /\ Linking(pl)
  /\ \A f \in DOMAIN pl.factories : pl.factories[f].replaces \in DOMAIN pl.factories \cup {None}

RInv == Inv /\ imports \in Nat /\ Served(plan, made) /\ Linked(plan)

------------------------------------------------------------------------------
(* Changes that leave what routes mean                                     *)

IsEndOf(pl, r, x) == x = pl.routes[r].ends[1] \/ x = pl.routes[r].ends[2]

(* The routes of q are pl's, with their switches, the ports bound to them and
   the factories they join; no other port is bound, and no pin moved.      *)
KeptRoutes(pl, q) ==
  /\ \A r \in DOMAIN q.routes : r \in DOMAIN pl.routes /\ q.routes[r] = pl.routes[r]
  /\ \A s \in DOMAIN q.switches :
       /\ s \in DOMAIN pl.switches /\ q.switches[s] = pl.switches[s]
       /\ pl.switches[s].route \in DOMAIN q.routes

KeptBindings(pl, q) ==
  /\ \A p \in DOMAIN q.ports :
       q.ports[p].route # None =>
         /\ p \in DOMAIN pl.ports
         /\ q.ports[p].route = pl.ports[p].route
         /\ pl.ports[p].route \in DOMAIN q.routes
  /\ \A p \in DOMAIN pl.ports :
       pl.ports[p].route \in DOMAIN q.routes =>
         /\ p \in DOMAIN q.ports
         /\ SamePort(pl, q, p)
         /\ q.ports[p].route = pl.ports[p].route

KeptPins(pl, q) ==
  /\ \A r \in DOMAIN q.routes : \A f \in DOMAIN pl.factories :
       IsEndOf(pl, r, f) => f \in DOMAIN q.factories
  /\ \A f \in DOMAIN pl.factories :
       f \in DOMAIN q.factories => q.factories[f].at = pl.factories[f].at

Keeps(pl, q) == KeptRoutes(pl, q) /\ KeptBindings(pl, q) /\ KeptPins(pl, q) /\ Apart(q)

(* Such a change keeps what the routes of a plan serve.                    *)
LEMMA KeepsServed ==
  ASSUME NEW pl, NEW q, NEW m, Lists(pl), Served(pl, m), Lists(q), Keeps(pl, q)
  PROVE  Served(q, m)
<1>0. RouteShape(pl, m) /\ Apart(pl) /\ Bound(pl) /\ Pinned(pl)
  BY DEF Served
<1>1. KeptRoutes(pl, q) /\ KeptBindings(pl, q) /\ KeptPins(pl, q) /\ Apart(q)
  BY DEF Keeps
<1>2. RouteShape(q, m)
  BY <1>0, <1>1 DEF RouteShape, KeptRoutes
<1>3. ASSUME NEW r \in DOMAIN q.routes
      PROVE  r \in DOMAIN pl.routes /\ q.routes[r] = pl.routes[r]
  BY <1>1 DEF KeptRoutes
<1>4. ASSUME NEW r \in DOMAIN q.routes, NEW from, NEW to, Cargo(pl, r, from, to)
      PROVE  Cargo(q, r, from, to)
  BY <1>1, <1>4 DEF Cargo, KeptBindings, SamePort
<1>5. ASSUME NEW r \in DOMAIN q.routes, NEW from, NEW to, IsEndOf(pl, r, from), IsEndOf(pl, r, to),
             Power(pl, r, from, to)
      PROVE  Power(q, r, from, to)
  <2>1. from \in DOMAIN q.factories /\ to \in DOMAIN q.factories
    BY <1>1, <1>5 DEF Power, KeptPins
  <2>2. QED
    BY <1>3, <1>5, <2>1 DEF Power
<1>6. Bound(q)
  <2>1. ASSUME NEW r \in DOMAIN q.routes
        PROVE  /\ q.routes[r].kind = "power" =>
                    Power(q, r, q.routes[r].ends[1], q.routes[r].ends[2])
               /\ q.routes[r].kind # "power" =>
                    Cargo(q, r, q.routes[r].ends[1], q.routes[r].ends[2])
    BY <1>0, <1>3, <1>4, <1>5 DEF Bound, IsEndOf
  <2>2. ASSUME NEW p \in DOMAIN q.ports, q.ports[p].route # None
        PROVE  /\ q.ports[p].route \in DOMAIN q.routes
               /\ p \in {q.routes[q.ports[p].route].ends[1], q.routes[q.ports[p].route].ends[2]}
    <3>1. /\ p \in DOMAIN pl.ports /\ q.ports[p].route = pl.ports[p].route
          /\ pl.ports[p].route \in DOMAIN q.routes
      BY <1>1, <2>2 DEF KeptBindings
    <3>2. p \in {pl.routes[pl.ports[p].route].ends[1], pl.routes[pl.ports[p].route].ends[2]}
      BY <1>0, <2>2, <3>1 DEF Bound
    <3>3. QED
      BY <1>3, <3>1, <3>2
  <2>3. QED
    BY <2>1, <2>2 DEF Bound
<1>7. ASSUME NEW r \in DOMAIN q.routes, NEW x, IsEndOf(pl, r, x), NEW at, IsPin(pl, x, at)
      PROVE  IsPin(q, x, at)
  <2>1. CASE x \in DOMAIN pl.ports /\ pl.ports[x].route = r
    <3>1. /\ x \in DOMAIN q.ports /\ q.ports[x].factory = pl.ports[x].factory
      BY <1>1, <2>1 DEF KeptBindings, SamePort
    <3>2. pl.ports[x].factory \in DOMAIN pl.factories /\ pl.ports[x].factory \in DOMAIN q.factories
      BY <2>1, <3>1 DEF Lists
    <3>3. q.factories[pl.ports[x].factory].at = pl.factories[pl.ports[x].factory].at
      BY <1>1, <3>2 DEF KeptPins
    <3>4. QED
      BY <1>7, <2>1, <3>1, <3>3 DEF IsPin
  <2>2. CASE x \in DOMAIN pl.factories
    <3>1. x \in DOMAIN q.factories /\ q.factories[x].at = pl.factories[x].at
      BY <1>1, <1>7, <2>2 DEF KeptPins
    <3>2. x \notin DOMAIN pl.ports /\ x \notin DOMAIN q.ports
      BY <1>0, <1>1, <2>2, <3>1 DEF Apart
    <3>3. QED
      BY <1>7, <3>1, <3>2 DEF IsPin
  <2>3. \/ Cargo(pl, r, pl.routes[r].ends[1], pl.routes[r].ends[2])
        \/ Power(pl, r, pl.routes[r].ends[1], pl.routes[r].ends[2])
    BY <1>0, <1>3 DEF Bound
  <2>4. QED
    BY <1>7, <2>1, <2>2, <2>3 DEF IsEndOf, Cargo, Power
<1>8. Pinned(q)
  <2>1. ASSUME NEW r \in DOMAIN q.routes
        PROVE  /\ IsPin(q, q.routes[r].ends[1], q.routes[r].path[1])
               /\ IsPin(q, q.routes[r].ends[2], q.routes[r].path[2])
    <3>1. /\ IsPin(pl, pl.routes[r].ends[1], pl.routes[r].path[1])
          /\ IsPin(pl, pl.routes[r].ends[2], pl.routes[r].path[2])
      BY <1>0, <1>3 DEF Pinned
    <3>2. IsEndOf(pl, r, pl.routes[r].ends[1]) /\ IsEndOf(pl, r, pl.routes[r].ends[2])
      BY DEF IsEndOf
    <3>3. QED
      BY <1>3, <1>7, <3>1, <3>2
  <2>2. ASSUME NEW s \in DOMAIN q.switches
        PROVE  /\ q.switches[s].route \in DOMAIN q.routes
               /\ q.routes[q.switches[s].route].kind = "power"
               /\ q.switches[s].at = Midpoint(q.routes[q.switches[s].route].path)
    <3>1. /\ s \in DOMAIN pl.switches /\ q.switches[s] = pl.switches[s]
          /\ pl.switches[s].route \in DOMAIN q.routes
      BY <1>1 DEF KeptRoutes
    <3>2. /\ pl.routes[pl.switches[s].route].kind = "power"
          /\ pl.switches[s].at = Midpoint(pl.routes[pl.switches[s].route].path)
      BY <1>0, <3>1 DEF Pinned
    <3>3. QED
      BY <1>3, <3>1, <3>2
  <2>3. QED
    BY <2>1, <2>2 DEF Pinned
<1>9. QED
  BY <1>1, <1>2, <1>6, <1>8 DEF Served

(* Ids issued later do not disturb.                                        *)
LEMMA ServedLater ==
  ASSUME NEW pl, NEW m \in Nat, Served(pl, m)
  PROVE  Served(pl, m + 1)
  BY DEF Served, RouteShape

(* Nothing a route holds is touched: ports and pins look as they did.      *)
LEMMA UntouchedKeeps ==
  ASSUME NEW pl, NEW m, Served(pl, m), NEW q,
         q.routes = pl.routes, q.switches = pl.switches, q.ports = pl.ports,
         \A f \in DOMAIN pl.factories : f \in DOMAIN q.factories /\ q.factories[f].at = pl.factories[f].at,
         Apart(q)
  PROVE  Keeps(pl, q)
<1>1. KeptRoutes(pl, q)
  BY DEF KeptRoutes, Served, Pinned
<1>2. KeptBindings(pl, q)
  BY DEF KeptBindings, Served, Bound, SamePort
<1>3. KeptPins(pl, q)
  BY DEF KeptPins
<1>4. QED
  BY <1>1, <1>2, <1>3 DEF Keeps

------------------------------------------------------------------------------
(* Cascades                                                                *)

(* Routes that are removed go with their switches, bindings and marks.     *)
RoutesGone(pl, q, rs) ==
  /\ DOMAIN q.routes = DOMAIN pl.routes \ rs
  /\ \A r \in DOMAIN q.routes : q.routes[r] = pl.routes[r]
  /\ DOMAIN q.switches = {s \in DOMAIN pl.switches : pl.switches[s].route \notin rs}
  /\ \A s \in DOMAIN q.switches : q.switches[s] = pl.switches[s]
  /\ q.marks = pl.marks \ rs
  /\ \A p \in DOMAIN pl.ports :
       /\ pl.ports[p].route \in rs \cap DOMAIN pl.routes => q.ports[p].route = None
       /\ pl.ports[p].route \notin rs \cap DOMAIN pl.routes => q.ports[p].route = pl.ports[p].route

(* The elements of a pair.                                                 *)
LEMMA PairRange ==
  ASSUME NEW a, NEW b
  PROVE  Range(<<a, b>>) = {a, b}
<1>1. DOMAIN <<a, b>> = 1..2
  OBVIOUS
<1>2. a \in Range(<<a, b>>) /\ b \in Range(<<a, b>>)
  BY <1>1 DEF Range
<1>3. \A x \in Range(<<a, b>>) : x = a \/ x = b
  BY <1>1 DEF Range
<1>4. QED
  BY <1>2, <1>3

(* remove_routes takes the routes with their switches and frees their ports. *)
LEMMA RemoveRoutesGone ==
  ASSUME NEW pl, Shape(pl), NEW m, Served(pl, m), NEW rs
  PROVE  RoutesGone(pl, RemoveRoutes(pl, rs), rs)
<1> DEFINE bound(p) == /\ pl.ports[p].route \in rs \cap DOMAIN pl.routes
                       /\ p \in Range(pl.routes[pl.ports[p].route].ends)
           ports == [p \in DOMAIN pl.ports |->
                       IF bound(p) THEN [pl.ports[p] EXCEPT !.route = None] ELSE pl.ports[p]]
           q == RemoveRoutes(pl, rs)
<1>1. /\ q.routes = Drop(pl.routes, rs)
      /\ q.switches = Drop(pl.switches, {s \in DOMAIN pl.switches : pl.switches[s].route \in rs})
      /\ q.marks = pl.marks \ rs
      /\ q.ports = ports
  BY DEF RemoveRoutes, Shape, PlanFields, Collection
<1>2. ASSUME NEW p \in DOMAIN pl.ports
      PROVE  /\ bound(p) => ports[p].route = None
             /\ ~bound(p) => ports[p] = pl.ports[p]
  <2>1. DOMAIN pl.ports[p] = PortFields
    BY DEF Shape
  <2> HIDE DEF bound
  <2>2. QED
    BY <2>1 DEF PortFields
<1>3. ASSUME NEW p \in DOMAIN pl.ports, pl.ports[p].route \in rs \cap DOMAIN pl.routes
      PROVE  bound(p)
  <2> DEFINE r == pl.ports[p].route
  <2>1. r # None /\ r \in DOMAIN pl.routes
    BY <1>3 DEF Served, RouteShape
  <2>2. p \in {pl.routes[r].ends[1], pl.routes[r].ends[2]}
    BY <1>3, <2>1 DEF Served, Bound
  <2>3. pl.routes[r].ends = <<pl.routes[r].ends[1], pl.routes[r].ends[2]>>
    BY <2>1 DEF Served, RouteShape
  <2>4. p \in Range(pl.routes[r].ends)
    BY <2>2, <2>3, PairRange
  <2>5. QED
    BY <1>3, <2>4
<1>4. \A p \in DOMAIN pl.ports : bound(p) => pl.ports[p].route \in rs \cap DOMAIN pl.routes
  OBVIOUS
<1> HIDE DEF q, bound, ports
<1>5. \A p \in DOMAIN pl.ports :
        /\ pl.ports[p].route \in rs \cap DOMAIN pl.routes => q.ports[p].route = None
        /\ pl.ports[p].route \notin rs \cap DOMAIN pl.routes => q.ports[p].route = pl.ports[p].route
  BY <1>1, <1>2, <1>3, <1>4
<1>6. /\ DOMAIN q.routes = DOMAIN pl.routes \ rs
      /\ \A r \in DOMAIN q.routes : q.routes[r] = pl.routes[r]
      /\ DOMAIN q.switches = {s \in DOMAIN pl.switches : pl.switches[s].route \notin rs}
      /\ \A s \in DOMAIN q.switches : q.switches[s] = pl.switches[s]
  BY <1>1 DEF Drop, Restrict
<1>7. QED
  BY <1>1, <1>5, <1>6 DEF RoutesGone, q

(* What goes with some routes are ports no other route is bound to and
   factories no other route ends at.                                       *)
LEMMA GoneKeeps ==
  ASSUME NEW pl, NEW m, Served(pl, m), NEW q, NEW r, NEW rs,
         RoutesGone(pl, r, rs), q.routes = r.routes, q.switches = r.switches,
         \A p \in DOMAIN q.ports : q.ports[p] = r.ports[p],
         \A p \in DOMAIN q.ports : p \in DOMAIN pl.ports /\ SamePort(pl, q, p),
         \A p \in DOMAIN pl.ports :
           p \in DOMAIN q.ports \/ pl.ports[p].route \in rs \cup {None},
         \A f \in DOMAIN q.factories :
           f \in DOMAIN pl.factories /\ q.factories[f].at = pl.factories[f].at,
         \A x \in DOMAIN pl.routes \ rs : \A f \in DOMAIN pl.factories :
           IsEndOf(pl, x, f) => f \in DOMAIN q.factories
  PROVE  Keeps(pl, q)
<1>0. /\ Bound(pl) /\ Pinned(pl) /\ Apart(pl) /\ None \notin DOMAIN pl.routes
  BY DEF Served, RouteShape
<1>1. /\ q.routes = r.routes /\ q.switches = r.switches
      /\ \A p \in DOMAIN q.ports : q.ports[p] = r.ports[p]
  OBVIOUS
<1>2. KeptRoutes(pl, q)
  BY <1>0, <1>1 DEF KeptRoutes, RoutesGone, Pinned
<1>3. KeptBindings(pl, q)
  <2>1. ASSUME NEW p \in DOMAIN q.ports, q.ports[p].route # None
        PROVE  /\ p \in DOMAIN pl.ports
               /\ q.ports[p].route = pl.ports[p].route
               /\ pl.ports[p].route \in DOMAIN q.routes
    <3>1. p \in DOMAIN pl.ports /\ q.ports[p].route = r.ports[p].route
      BY <1>1
    <3>2. pl.ports[p].route \in DOMAIN pl.routes \/ pl.ports[p].route = None
      BY <1>0, <3>1 DEF Bound
    <3>3. CASE pl.ports[p].route \in rs /\ pl.ports[p].route \in DOMAIN pl.routes
      BY <2>1, <3>1, <3>3 DEF RoutesGone
    <3>4. CASE pl.ports[p].route \notin rs \cap DOMAIN pl.routes
      BY <1>1, <2>1, <3>1, <3>2, <3>4 DEF RoutesGone
    <3>5. QED
      BY <3>2, <3>3, <3>4
  <2>2. ASSUME NEW p \in DOMAIN pl.ports, pl.ports[p].route \in DOMAIN q.routes
        PROVE  /\ p \in DOMAIN q.ports /\ SamePort(pl, q, p)
               /\ q.ports[p].route = pl.ports[p].route
    <3>1. pl.ports[p].route \notin rs \cup {None}
      BY <1>0, <1>1, <2>2 DEF RoutesGone
    <3>2. p \in DOMAIN q.ports /\ SamePort(pl, q, p) /\ q.ports[p] = r.ports[p]
      BY <1>1, <3>1
    <3>3. QED
      BY <3>1, <3>2 DEF RoutesGone
  <2>3. QED
    BY <2>1, <2>2 DEF KeptBindings
<1>4. KeptPins(pl, q)
  BY <1>1 DEF KeptPins, RoutesGone
<1>5. Apart(q)
  BY <1>0 DEF Apart
<1>6. QED
  BY <1>2, <1>3, <1>4, <1>5 DEF Keeps

(* A removed factory goes with everything of its own.                      *)
FactoryGone(pl, q, f) ==
  /\ q.guides = pl.guides
  /\ DOMAIN q.factories = DOMAIN pl.factories \ {f}
  /\ \A x \in DOMAIN q.factories : q.factories[x] = pl.factories[x]
  /\ DOMAIN q.groups = {g \in DOMAIN pl.groups : pl.groups[g].factory # f}
  /\ \A g \in DOMAIN q.groups : q.groups[g] = pl.groups[g]
  /\ DOMAIN q.claims = {c \in DOMAIN pl.claims : pl.claims[c].factory # f}
  /\ \A c \in DOMAIN q.claims : q.claims[c] = pl.claims[c]
  /\ DOMAIN q.edges = {e \in DOMAIN pl.edges : pl.edges[e].factory # f}
  /\ \A e \in DOMAIN q.edges : q.edges[e] = pl.edges[e]
  /\ DOMAIN q.ports = {p \in DOMAIN pl.ports : pl.ports[p].factory # f}
  /\ \A p \in DOMAIN q.ports : SamePort(pl, q, p)
  /\ q.marks = pl.marks \ (RoutesAt(pl, f) \cup {f} \cup Owned(pl, "groups", f) \cup Owned(pl, "claims", f))

(* A removed factory goes with its ports and the routes that end at it. *)
LEMMA RemoveFactoryFields ==
  ASSUME NEW pl, Shape(pl), NEW m, Served(pl, m), NEW f
  PROVE  LET q == RemoveFactory(pl, f)  r == RemoveRoutes(pl, RoutesAt(pl, f))
         IN  /\ FactoryGone(pl, q, f)
             /\ q.routes = r.routes /\ q.switches = r.switches
             /\ \A p \in DOMAIN q.ports : q.ports[p] = r.ports[p]
<1> DEFINE rs == RoutesAt(pl, f)
           r == RemoveRoutes(pl, rs)
           q == RemoveFactory(pl, f)
<1>1. Unrouted(pl, r) /\ r.marks = pl.marks \ rs
  BY RemoveRoutesFields, RemoveRoutesGone DEF RoutesGone
<1>2. q = [r EXCEPT
            !.edges     = Drop(@, Owned(pl, "edges", f)),
            !.groups    = Drop(@, Owned(pl, "groups", f)),
            !.ports     = Drop(@, Owned(pl, "ports", f)),
            !.claims    = Drop(@, Owned(pl, "claims", f)),
            !.junctions = Drop(@, Owned(pl, "junctions", f)),
            !.factories = Drop(@, {f}),
            !.marks     = @ \ ({f} \cup Owned(pl, "groups", f) \cup Owned(pl, "claims", f))]
  BY DEF RemoveFactory
<1> HIDE DEF r, q, rs
<1>3. DOMAIN r = PlanFields
  BY <1>1 DEF Unrouted, Shape
<1>4. /\ q.edges = Drop(r.edges, Owned(pl, "edges", f))
      /\ q.groups = Drop(r.groups, Owned(pl, "groups", f))
      /\ q.ports = Drop(r.ports, Owned(pl, "ports", f))
      /\ q.claims = Drop(r.claims, Owned(pl, "claims", f))
      /\ q.factories = Drop(r.factories, {f})
      /\ q.marks = r.marks \ ({f} \cup Owned(pl, "groups", f) \cup Owned(pl, "claims", f))
      /\ q.guides = r.guides /\ q.routes = r.routes /\ q.switches = r.switches
  BY <1>2, <1>3 DEF PlanFields, Collection
<1>5. /\ r.factories = pl.factories /\ r.groups = pl.groups /\ r.edges = pl.edges
      /\ r.claims = pl.claims /\ r.guides = pl.guides
      /\ DOMAIN r.ports = DOMAIN pl.ports
      /\ \A p \in DOMAIN pl.ports : SamePort(pl, r, p)
  BY <1>1 DEF Unrouted
<1>6. /\ DOMAIN q.factories = DOMAIN pl.factories \ {f}
      /\ \A x \in DOMAIN q.factories : q.factories[x] = pl.factories[x]
  BY <1>4, <1>5 DEF Drop, Restrict
<1>7. /\ DOMAIN q.groups = {g \in DOMAIN pl.groups : pl.groups[g].factory # f}
      /\ \A g \in DOMAIN q.groups : q.groups[g] = pl.groups[g]
      /\ DOMAIN q.claims = {c \in DOMAIN pl.claims : pl.claims[c].factory # f}
      /\ \A c \in DOMAIN q.claims : q.claims[c] = pl.claims[c]
      /\ DOMAIN q.edges = {e \in DOMAIN pl.edges : pl.edges[e].factory # f}
      /\ \A e \in DOMAIN q.edges : q.edges[e] = pl.edges[e]
  BY <1>4, <1>5 DEF Drop, Restrict, Owned
<1>8. /\ DOMAIN q.ports = {p \in DOMAIN pl.ports : pl.ports[p].factory # f}
      /\ \A p \in DOMAIN q.ports : q.ports[p] = r.ports[p]
  BY <1>4, <1>5 DEF Drop, Restrict, Owned
<1>9. \A p \in DOMAIN q.ports : SamePort(pl, q, p)
  BY <1>5, <1>8 DEF SamePort
<1>10. FactoryGone(pl, q, f)
  BY <1>1, <1>4, <1>5, <1>6, <1>7, <1>8, <1>9 DEF FactoryGone, rs
<1>11. QED
  BY <1>4, <1>8, <1>10 DEF q, r, rs

(* Removing routes keeps what the others serve;                            *)
LEMMA RemoveRoutesKeeps ==
  ASSUME NEW pl, Shape(pl), NEW m, Served(pl, m), NEW rs
  PROVE  Keeps(pl, RemoveRoutes(pl, rs))
<1> DEFINE q == RemoveRoutes(pl, rs)
<1>1. Unrouted(pl, q) /\ RoutesGone(pl, q, rs)
  BY RemoveRoutesFields, RemoveRoutesGone
<1> HIDE DEF q
<1>3. /\ DOMAIN q.ports = DOMAIN pl.ports /\ \A p \in DOMAIN pl.ports : SamePort(pl, q, p)
      /\ q.factories = pl.factories
  BY <1>1 DEF Unrouted
<1>4. Keeps(pl, q)
  BY <1>1, <1>3, GoneKeeps
<1>5. QED
  BY <1>4 DEF q

(* so does removing ports, with the routes bound to them,                  *)
LEMMA RemovePortsKeeps ==
  ASSUME NEW pl, Shape(pl), NEW m, Served(pl, m), NEW f \in DOMAIN pl.factories, NEW ps
  PROVE  Keeps(pl, RemovePorts(pl, f, ps))
<1> DEFINE q == RemovePorts(pl, f, ps)
           rs == RoutesOf(pl, ps)
           r == RemoveRoutes(pl, rs)
<1>1. Portless(pl, q, f, ps) /\ SameRoutes(q, r) /\ RoutesGone(pl, r, rs)
  BY RemovePortsFields, RemoveRoutesGone
<1>2. DOMAIN pl.factories[f] = FactoryFields
  BY DEF Shape
<1>3. \A p \in DOMAIN pl.ports : p \in ps => pl.ports[p].route \in rs \cup {None}
  BY DEF RoutesOf
<1> HIDE DEF q, r, rs
<1>4. /\ DOMAIN q.ports = DOMAIN pl.ports \ ps
      /\ \A p \in DOMAIN q.ports : SamePort(pl, q, p)
      /\ DOMAIN q.factories = DOMAIN pl.factories
      /\ \A x \in DOMAIN pl.factories : q.factories[x].at = pl.factories[x].at
  BY <1>1, <1>2 DEF Portless, FactoryFields
<1>5. Keeps(pl, q)
  BY <1>1, <1>3, <1>4, GoneKeeps DEF SameRoutes
<1>6. QED
  BY <1>5 DEF q

(* and removing a factory, with the routes at its ports and at itself.     *)
LEMMA RemoveFactoryKeeps ==
  ASSUME NEW pl, Shape(pl), NEW m, Served(pl, m), NEW f
  PROVE  Keeps(pl, RemoveFactory(pl, f))
<1> DEFINE q == RemoveFactory(pl, f)
           rs == RoutesAt(pl, f)
           r == RemoveRoutes(pl, rs)
<1>1. /\ FactoryGone(pl, q, f) /\ RoutesGone(pl, r, rs)
      /\ q.routes = r.routes /\ q.switches = r.switches
      /\ \A p \in DOMAIN q.ports : q.ports[p] = r.ports[p]
  BY RemoveFactoryFields, RemoveRoutesGone
<1>2. ASSUME NEW x \in DOMAIN pl.routes, NEW end, IsEndOf(pl, x, end),
             end = f \/ (end \in DOMAIN pl.ports /\ pl.ports[end].factory = f)
      PROVE  x \in rs
  <2>1. Range(pl.routes[x].ends) = {pl.routes[x].ends[1], pl.routes[x].ends[2]}
    <3>1. pl.routes[x].ends = <<pl.routes[x].ends[1], pl.routes[x].ends[2]>>
      BY DEF Served, RouteShape
    <3>2. Range(<<pl.routes[x].ends[1], pl.routes[x].ends[2]>>)
            = {pl.routes[x].ends[1], pl.routes[x].ends[2]}
      BY PairRange
    <3>3. QED
      BY <3>1, <3>2
  <2>2. end \in Range(pl.routes[x].ends)
    BY <1>2, <2>1 DEF IsEndOf
  <2>3. end \in Owned(pl, "ports", f) \cup {f}
    BY <1>2 DEF Owned
  <2>4. QED
    BY <2>2, <2>3 DEF RoutesAt
<1>3. ASSUME NEW p \in DOMAIN pl.ports, pl.ports[p].factory = f
      PROVE  pl.ports[p].route \in rs \cup {None}
  <2>1. CASE pl.ports[p].route # None
    <3>1. pl.ports[p].route \in DOMAIN pl.routes /\ IsEndOf(pl, pl.ports[p].route, p)
      BY <2>1 DEF Served, Bound, IsEndOf
    <3>2. QED
      BY <1>2, <1>3, <3>1
  <2>2. QED
    BY <2>1
<1> HIDE DEF q, r, rs
<1>4. /\ DOMAIN q.ports = {p \in DOMAIN pl.ports : pl.ports[p].factory # f}
      /\ \A p \in DOMAIN q.ports : SamePort(pl, q, p)
      /\ DOMAIN q.factories = DOMAIN pl.factories \ {f}
      /\ \A x \in DOMAIN q.factories : q.factories[x] = pl.factories[x]
  BY <1>1 DEF FactoryGone
<1>5. /\ \A p \in DOMAIN q.ports : p \in DOMAIN pl.ports
      /\ \A p \in DOMAIN pl.ports : p \in DOMAIN q.ports \/ pl.ports[p].route \in rs \cup {None}
      /\ \A x \in DOMAIN q.factories :
           x \in DOMAIN pl.factories /\ q.factories[x].at = pl.factories[x].at
  BY <1>3, <1>4
<1>6. \A x \in DOMAIN pl.routes \ rs : \A g \in DOMAIN pl.factories :
        IsEndOf(pl, x, g) => g \in DOMAIN q.factories
  BY <1>2, <1>4
<1>7. Keeps(pl, q)
  BY <1>1, <1>4, <1>5, <1>6, GoneKeeps
<1>8. QED
  BY <1>7 DEF q

------------------------------------------------------------------------------
(* Themes, replacements and overrides                                      *)

(* Factories look the same in both plans, new ones name nothing, themes are
   still there, and what is marked stands.                                 *)
KeptLinks(pl, q) ==
  /\ \A f \in DOMAIN q.factories :
       /\ f \in DOMAIN pl.factories =>
            /\ q.factories[f].guide = pl.factories[f].guide
            /\ q.factories[f].replaces = pl.factories[f].replaces
            /\ q.factories[f].built = pl.factories[f].built
       /\ f \notin DOMAIN pl.factories =>
            q.factories[f].guide = None /\ q.factories[f].replaces = None
  /\ pl.guides \subseteq q.guides
  /\ q.marks \subseteq Standing(q)

(* Such a change leaves links at most without the factory they replace;    *)
LEMMA KeptLinking ==
  ASSUME NEW pl, NEW q, Linked(pl), KeptLinks(pl, q)
  PROVE  Linking(q)
<1>1. ASSUME NEW f \in DOMAIN q.factories
      PROVE  q.factories[f].guide \in q.guides \cup {None}
  BY DEF Linked, Linking, KeptLinks
<1>2. ASSUME NEW f \in DOMAIN q.factories, q.factories[f].replaces # None
      PROVE  /\ q.factories[f].replaces # f
             /\ q.factories[f].replaces \in DOMAIN q.factories
                  => q.factories[q.factories[f].replaces].built
  <2>1. /\ f \in DOMAIN pl.factories
        /\ q.factories[f].replaces = pl.factories[f].replaces
    BY <1>2 DEF KeptLinks
  <2>2. /\ pl.factories[f].replaces # f
        /\ pl.factories[f].replaces \in DOMAIN pl.factories
        /\ pl.factories[pl.factories[f].replaces].built
    BY <1>2, <2>1 DEF Linked, Linking
  <2>3. QED
    BY <2>1, <2>2 DEF KeptLinks
<1>3. QED
  BY <1>1, <1>2 DEF Linking, KeptLinks

(* while no replaced factory goes, they resolve.                           *)
LEMMA KeptLinked ==
  ASSUME NEW pl, NEW q, Linked(pl), KeptLinks(pl, q),
         \A f \in DOMAIN pl.factories : pl.factories[f].built => f \in DOMAIN q.factories
  PROVE  Linked(q)
<1>1. Linking(q)
  BY KeptLinking
<1>2. ASSUME NEW f \in DOMAIN q.factories
      PROVE  q.factories[f].replaces \in DOMAIN q.factories \cup {None}
  <2>1. CASE f \in DOMAIN pl.factories /\ pl.factories[f].replaces # None
    <3>1. /\ pl.factories[f].replaces \in DOMAIN pl.factories
          /\ pl.factories[pl.factories[f].replaces].built
      BY <2>1 DEF Linked, Linking
    <3>2. QED
      BY <2>1, <3>1 DEF KeptLinks
  <2>2. CASE ~(f \in DOMAIN pl.factories /\ pl.factories[f].replaces # None)
    BY <2>2 DEF KeptLinks
  <2>3. QED
    BY <2>1, <2>2
<1>3. QED
  BY <1>1, <1>2 DEF Linked

(* The commands beside it all: they touch no port, route, switch, theme, pin
   or replacement, and leave no mark on what is gone.                      *)
Aside(pl, q) ==
  /\ q.guides = pl.guides /\ q.ports = pl.ports
  /\ q.routes = pl.routes /\ q.switches = pl.switches
  /\ DOMAIN q.factories = DOMAIN pl.factories
  /\ \A f \in DOMAIN pl.factories :
       /\ q.factories[f].at = pl.factories[f].at
       /\ q.factories[f].guide = pl.factories[f].guide
       /\ q.factories[f].replaces = pl.factories[f].replaces
       /\ q.factories[f].built = pl.factories[f].built
  /\ q.marks \subseteq Standing(q)

(* A step that leaves routes and ports aside keeps every route served. *)
LEMMA AsideKeeps ==
  ASSUME NEW pl, NEW q, NEW m, Served(pl, m), Linked(pl), Aside(pl, q)
  PROVE  Keeps(pl, q) /\ Linked(q)
<1>1. Keeps(pl, q)
  <2>1. Apart(q)
    BY DEF Aside, Served, Apart
  <2>2. QED
    BY <2>1, UntouchedKeeps DEF Aside
<1>2. KeptLinks(pl, q) /\ DOMAIN q.factories = DOMAIN pl.factories
  BY DEF Aside, KeptLinks
<1>3. QED
  BY <1>1, <1>2, KeptLinked

(* A step that touches no factory at all, or only the lists of one.        *)
LEMMA ListsAside ==
  ASSUME NEW pl, Shape(pl), Linked(pl), NEW q, NEW f, NEW one,
         \/ q.factories = pl.factories
         \/ /\ f \in DOMAIN pl.factories
            /\ one.at = pl.factories[f].at /\ one.guide = pl.factories[f].guide
            /\ one.replaces = pl.factories[f].replaces /\ one.built = pl.factories[f].built
            /\ q.factories = [pl.factories EXCEPT ![f] = one],
         q.guides = pl.guides, q.ports = pl.ports,
         q.routes = pl.routes, q.switches = pl.switches,
         q.marks \subseteq pl.marks,
         \A x \in DOMAIN pl.groups : x \in DOMAIN q.groups \/ x \notin q.marks,
         \A x \in DOMAIN pl.claims : x \in DOMAIN q.claims \/ x \notin q.marks
  PROVE  Aside(pl, q)
<1>1. /\ DOMAIN q.factories = DOMAIN pl.factories
      /\ \A x \in DOMAIN pl.factories :
           q.factories[x] = pl.factories[x] \/ (x = f /\ q.factories[x] = one)
  OBVIOUS
<1>2. \A x \in DOMAIN pl.factories :
        /\ q.factories[x].at = pl.factories[x].at
        /\ q.factories[x].guide = pl.factories[x].guide
        /\ q.factories[x].replaces = pl.factories[x].replaces
        /\ q.factories[x].built = pl.factories[x].built
  <2>1. CASE q.factories = pl.factories
    BY <2>1
  <2>2. CASE q.factories # pl.factories
    BY <1>1, <2>2
  <2>3. QED
    BY <2>1, <2>2
<1>3. q.marks \subseteq Standing(q)
  BY <1>1 DEF Linked, Linking, Standing
<1>4. QED
  BY <1>1, <1>2, <1>3 DEF Aside

------------------------------------------------------------------------------
(* The built layer                                                         *)

(* What Baseline tells of a plan is the same in both, part by part.        *)
StayFactories(pl, q) ==
  /\ \A f \in DOMAIN pl.factories :
       pl.factories[f].built =>
         /\ f \in DOMAIN q.factories /\ q.factories[f].built
         /\ q.factories[f].at = pl.factories[f].at
  /\ \A f \in DOMAIN q.factories :
       q.factories[f].built => f \in DOMAIN pl.factories /\ pl.factories[f].built

StayGroups(pl, q) ==
  /\ \A g \in DOMAIN pl.groups :
       pl.groups[g].built =>
         /\ g \in DOMAIN q.groups /\ q.groups[g].built
         /\ q.groups[g].recipe = pl.groups[g].recipe
         /\ q.groups[g].count = pl.groups[g].count
  /\ \A g \in DOMAIN q.groups :
       q.groups[g].built => g \in DOMAIN pl.groups /\ pl.groups[g].built

StayPorts(pl, q) ==
  /\ \A p \in DOMAIN pl.ports :
       pl.ports[p].built => p \in DOMAIN q.ports /\ q.ports[p].built
  /\ \A p \in DOMAIN q.ports :
       q.ports[p].built => p \in DOMAIN pl.ports /\ pl.ports[p].built

StayEdges(pl, q) ==
  /\ \A e \in DOMAIN pl.edges :
       pl.edges[e].built => e \in DOMAIN q.edges /\ q.edges[e] = pl.edges[e]
  /\ \A e \in DOMAIN q.edges :
       q.edges[e].built => e \in DOMAIN pl.edges /\ pl.edges[e] = q.edges[e]

StayClaims(pl, q) == \A c \in DOMAIN pl.claims : pl.claims[c].built => c \in DOMAIN q.claims

LayerStays(pl, q) ==
  /\ StayFactories(pl, q) /\ StayGroups(pl, q) /\ StayPorts(pl, q)
  /\ StayEdges(pl, q) /\ StayClaims(pl, q)

(* A collection a step leaves alone keeps its part of the built layer. *)
LEMMA StayParts ==
  ASSUME NEW pl, NEW q
  PROVE  /\ q.factories = pl.factories => StayFactories(pl, q)
         /\ q.groups = pl.groups => StayGroups(pl, q)
         /\ q.ports = pl.ports => StayPorts(pl, q)
         /\ q.edges = pl.edges => StayEdges(pl, q)
         /\ q.claims = pl.claims => StayClaims(pl, q)
         /\ Aside(pl, q) => StayFactories(pl, q) /\ StayPorts(pl, q)
  BY DEF StayFactories, StayGroups, StayPorts, StayEdges, StayClaims, Aside

(* A plan whose parts stay has the same baseline.                          *)
LEMMA StayBaseline ==
  ASSUME NEW pl, NEW q, LayerStays(pl, q)
  PROVE  /\ Baseline(q) = Baseline(pl)
         /\ {c \in DOMAIN pl.claims : pl.claims[c].built} \subseteq DOMAIN q.claims
<1> DEFINE fs(x) == {<<f, x.factories[f].at>> : f \in {y \in DOMAIN x.factories : x.factories[y].built}}
           gs(x) == {<<g, x.groups[g].recipe, x.groups[g].count>> :
                       g \in {y \in DOMAIN x.groups : x.groups[y].built}}
           ps(x) == {p \in DOMAIN x.ports : x.ports[p].built}
           es(x) == {<<e, x.edges[e]>> : e \in {y \in DOMAIN x.edges : x.edges[y].built}}
<1>1. fs(q) = fs(pl)
  BY DEF LayerStays, StayFactories
<1>2. gs(q) = gs(pl)
  BY DEF LayerStays, StayGroups
<1>3. ps(q) = ps(pl)
  BY DEF LayerStays, StayPorts
<1>4. es(q) = es(pl)
  BY DEF LayerStays, StayEdges
<1>5. \A x : Baseline(x) = [factories |-> fs(x), groups |-> gs(x), ports |-> ps(x), edges |-> es(x)]
  BY DEF Baseline
<1>6. {c \in DOMAIN pl.claims : pl.claims[c].built} \subseteq DOMAIN q.claims
  BY DEF LayerStays, StayClaims
<1> HIDE DEF fs, gs, ps, es
<1>7. QED
  BY <1>1, <1>2, <1>3, <1>4, <1>5, <1>6

(* No belt of the built layer ends at what the user planned.               *)
LEMMA BuiltBeltEnds ==
  ASSUME NEW pl, Layered(pl), NEW e \in DOMAIN pl.edges, pl.edges[e].built
  PROVE  /\ \A g \in DOMAIN pl.groups :
              GroupEnd(g) \in {pl.edges[e].from, pl.edges[e].to} => pl.groups[g].built
         /\ \A p \in DOMAIN pl.ports :
              PortEnd(p) \in {pl.edges[e].from, pl.edges[e].to} => pl.ports[p].built
         /\ \A j : JunctionEnd(j) \notin {pl.edges[e].from, pl.edges[e].to}
<1>1. IsBuiltEnd(pl, pl.edges[e].from) /\ IsBuiltEnd(pl, pl.edges[e].to)
  BY DEF Layered
<1>2. QED
  BY <1>1 DEF IsBuiltEnd, GroupEnd, PortEnd, JunctionEnd

(* Removing what is planned leaves the built layer.                        *)
LEMMA RemoveGroupAside ==
  ASSUME NEW pl, NEW m, Wired(pl, m), Linked(pl), NEW g \in DOMAIN pl.groups
  PROVE  /\ Aside(pl, RemoveGroup(pl, g))
         /\ ~pl.groups[g].built => LayerStays(pl, RemoveGroup(pl, g))
<1> DEFINE q == RemoveGroup(pl, g)
           f == pl.groups[g].factory
           one == [pl.factories[f] EXCEPT !.groups = @ \ {g}]
<1>0. /\ Shape(pl) /\ Lists(pl) /\ Layered(pl) /\ DOMAIN pl = PlanFields
      /\ f \in DOMAIN pl.factories
  BY DEF Wired, Shape, Lists
<1>1. /\ q.factories = [pl.factories EXCEPT ![f] = one]
      /\ q.guides = pl.guides /\ q.ports = pl.ports
      /\ q.routes = pl.routes /\ q.switches = pl.switches /\ q.claims = pl.claims
      /\ q.edges = Drop(pl.edges, Touching(pl, GroupEnd(g)))
      /\ q.groups = Drop(pl.groups, {g})
      /\ q.marks = pl.marks \ {g}
  BY <1>0 DEF RemoveGroup, PlanFields, Collection
<1>2. /\ one.at = pl.factories[f].at /\ one.guide = pl.factories[f].guide
      /\ one.replaces = pl.factories[f].replaces /\ one.built = pl.factories[f].built
  BY <1>0 DEF Shape, FactoryFields
<1> HIDE DEF q, one
<1>3. /\ DOMAIN q.groups = DOMAIN pl.groups \ {g}
      /\ \A x \in DOMAIN q.groups : q.groups[x] = pl.groups[x]
      /\ DOMAIN q.edges = DOMAIN pl.edges \ Touching(pl, GroupEnd(g))
      /\ \A e \in DOMAIN q.edges : q.edges[e] = pl.edges[e]
  BY <1>1 DEF Drop, Restrict
<1>4. Aside(pl, q)
  <2>1. /\ q.marks \subseteq pl.marks
        /\ \A x \in DOMAIN pl.groups : x \in DOMAIN q.groups \/ x \notin q.marks
        /\ \A x \in DOMAIN pl.claims : x \in DOMAIN q.claims \/ x \notin q.marks
    BY <1>1, <1>3
  <2>2. QED
    BY SMTT(30), <1>0, <1>1, <1>2, <2>1, ListsAside
<1>5. ASSUME ~pl.groups[g].built
      PROVE  LayerStays(pl, q)
  <2>1. StayGroups(pl, q)
    BY <1>3, <1>5 DEF StayGroups
  <2>2. ASSUME NEW e \in DOMAIN pl.edges, pl.edges[e].built
        PROVE  e \notin Touching(pl, GroupEnd(g))
    BY <1>0, <1>5, <2>2, BuiltBeltEnds DEF Touching, Into, OutOf
  <2>3. StayEdges(pl, q)
    BY <1>3, <2>2 DEF StayEdges
  <2>4. QED
    BY <1>1, <1>4, <2>1, <2>3, StayParts DEF LayerStays
<1>6. QED
  BY <1>4, <1>5 DEF q

(* Removing a splitter or merger leaves routes and the built layer aside. *)
LEMMA RemoveJunctionAside ==
  ASSUME NEW pl, NEW m, Wired(pl, m), Linked(pl), NEW j \in DOMAIN pl.junctions
  PROVE  Aside(pl, RemoveJunction(pl, j)) /\ LayerStays(pl, RemoveJunction(pl, j))
<1> DEFINE q == RemoveJunction(pl, j)
<1>0. Shape(pl) /\ Layered(pl) /\ DOMAIN pl = PlanFields
  BY DEF Wired, Shape
<1>1. /\ q.factories = pl.factories /\ q.guides = pl.guides /\ q.ports = pl.ports
      /\ q.routes = pl.routes /\ q.switches = pl.switches /\ q.claims = pl.claims
      /\ q.groups = pl.groups /\ q.marks = pl.marks
      /\ q.edges = Drop(pl.edges, Touching(pl, JunctionEnd(j)))
  BY <1>0 DEF RemoveJunction, PlanFields, Collection
<1> HIDE DEF q
<1>2. /\ DOMAIN q.edges = DOMAIN pl.edges \ Touching(pl, JunctionEnd(j))
      /\ \A e \in DOMAIN q.edges : q.edges[e] = pl.edges[e]
  BY <1>1 DEF Drop, Restrict
<1>3. Aside(pl, q)
  BY <1>0, <1>1, ListsAside
<1>4. ASSUME NEW e \in DOMAIN pl.edges, pl.edges[e].built
      PROVE  e \notin Touching(pl, JunctionEnd(j))
  BY <1>0, <1>4, BuiltBeltEnds DEF Touching, Into, OutOf
<1>5. StayEdges(pl, q)
  BY <1>2, <1>4 DEF StayEdges
<1>6. LayerStays(pl, q)
  BY <1>1, <1>5, StayParts DEF LayerStays
<1>7. QED
  BY <1>3, <1>6 DEF q

------------------------------------------------------------------------------
(* The commands beside routes and links, one by one                        *)

AsideStep == Aside(plan, plan') /\ LayerStays(plan, plan') /\ imports' = imports

(* What the commands start from.                                           *)
LEMMA RInvFacts ==
  ASSUME RInv
  PROVE  /\ Inv /\ Wired(plan, made) /\ Shape(plan) /\ Lists(plan) /\ Layered(plan)
         /\ DOMAIN plan = PlanFields
         /\ Served(plan, made) /\ Linked(plan) /\ imports \in Nat
         /\ \A f \in DOMAIN plan.factories : DOMAIN plan.factories[f] = FactoryFields
         /\ \A g \in DOMAIN plan.groups : DOMAIN plan.groups[g] = GroupFields
         /\ \A p \in DOMAIN plan.ports : DOMAIN plan.ports[p] = PortFields
         /\ \A c \in DOMAIN plan.claims : DOMAIN plan.claims[c] = ClaimFields
  BY DEF RInv, Inv, Wired, Shape

(* A new entity of the user's adds nothing to the built layer.             *)
LEMMA PutStays ==
  ASSUME RInv, NEW q
  PROVE  /\ \A one : q.groups = Put(plan.groups, New, one) /\ one.built = FALSE => StayGroups(plan, q)
         /\ \A one : q.edges = Put(plan.edges, New, one) /\ one.built = FALSE => StayEdges(plan, q)
         /\ \A one : q.claims = Put(plan.claims, New, one) => StayClaims(plan, q)
         /\ \A one : q.ports = Put(plan.ports, New, one) /\ one.built = FALSE => StayPorts(plan, q)
         /\ \A one : q.factories = Put(plan.factories, New, one) /\ one.built = FALSE
                       => StayFactories(plan, q)
<1>1. /\ New \notin DOMAIN plan.groups /\ New \notin DOMAIN plan.edges
      /\ New \notin DOMAIN plan.ports /\ New \notin DOMAIN plan.factories
  BY RInvFacts, NewIsFresh
<1>2. ASSUME NEW one, q.groups = Put(plan.groups, New, one), one.built = FALSE
      PROVE  StayGroups(plan, q)
  BY <1>1, <1>2 DEF Put, StayGroups
<1>3. ASSUME NEW one, q.edges = Put(plan.edges, New, one), one.built = FALSE
      PROVE  StayEdges(plan, q)
  BY <1>1, <1>3 DEF Put, StayEdges
<1>4. ASSUME NEW one, q.claims = Put(plan.claims, New, one)
      PROVE  StayClaims(plan, q)
  BY <1>4 DEF Put, StayClaims
<1>5. ASSUME NEW one, q.ports = Put(plan.ports, New, one), one.built = FALSE
      PROVE  StayPorts(plan, q)
  BY <1>1, <1>5 DEF Put, StayPorts
<1>6. ASSUME NEW one, q.factories = Put(plan.factories, New, one), one.built = FALSE
      PROVE  StayFactories(plan, q)
  BY <1>1, <1>6 DEF Put, StayFactories
<1>7. QED
  BY <1>2, <1>3, <1>4, <1>5, <1>6

(* A new machine group leaves routes aside. *)
LEMMA AddGroupAside ==
  ASSUME RInv, NEW f, NEW recipe, NEW count, AddGroup(f, recipe, count)
  PROVE  AsideStep
<1> DEFINE q == plan'
           one == [plan.factories[f] EXCEPT !.groups = @ \cup {New}]
           new == NewGroup(f, recipe, count, FALSE)
<1>0. f \in DOMAIN plan.factories /\ imports' = imports
  BY DEF AddGroup, Create
<1>1. /\ q.factories = [plan.factories EXCEPT ![f] = one]
      /\ q.groups = Put(plan.groups, New, new)
      /\ q.guides = plan.guides /\ q.ports = plan.ports /\ q.edges = plan.edges
      /\ q.routes = plan.routes /\ q.switches = plan.switches /\ q.claims = plan.claims
      /\ q.marks = plan.marks
  BY <1>0, RInvFacts DEF AddGroup, Create, Issue, PlanFields, Collection
<1>2. /\ one.at = plan.factories[f].at /\ one.guide = plan.factories[f].guide
      /\ one.replaces = plan.factories[f].replaces /\ one.built = plan.factories[f].built
  BY <1>0, RInvFacts DEF FactoryFields
<1>3. new.built = FALSE
  BY DEF NewGroup
<1> HIDE DEF q, one, new
<1>4. \A x \in DOMAIN plan.groups : x \in DOMAIN q.groups
  BY <1>1 DEF Put
<1>5. Aside(plan, q)
  BY <1>0, <1>1, <1>2, <1>4, RInvFacts, ListsAside
<1>6. LayerStays(plan, q)
  BY <1>1, <1>3, <1>5, StayParts, PutStays DEF LayerStays
<1>7. QED
  BY <1>0, <1>5, <1>6 DEF AsideStep, q

(* A claimed node leaves routes aside. *)
LEMMA ClaimNodeAside ==
  ASSUME RInv, NEW f, NEW node, ClaimNode(f, node)
  PROVE  AsideStep
<1> DEFINE q == plan'
           one == [plan.factories[f] EXCEPT !.claims = @ \cup {New}]
           new == NewClaim(f, node, FALSE)
<1>0. f \in DOMAIN plan.factories /\ imports' = imports
  BY DEF ClaimNode, Create
<1>1. /\ q.factories = [plan.factories EXCEPT ![f] = one]
      /\ q.claims = Put(plan.claims, New, new)
      /\ q.guides = plan.guides /\ q.ports = plan.ports /\ q.edges = plan.edges
      /\ q.routes = plan.routes /\ q.switches = plan.switches /\ q.groups = plan.groups
      /\ q.marks = plan.marks
  BY <1>0, RInvFacts DEF ClaimNode, Create, Issue, PlanFields, Collection
<1>2. /\ one.at = plan.factories[f].at /\ one.guide = plan.factories[f].guide
      /\ one.replaces = plan.factories[f].replaces /\ one.built = plan.factories[f].built
  BY <1>0, RInvFacts DEF FactoryFields
<1> HIDE DEF q, one, new
<1>4. \A x \in DOMAIN plan.claims : x \in DOMAIN q.claims
  BY <1>1 DEF Put
<1>5. Aside(plan, q)
  BY <1>0, <1>1, <1>2, <1>4, RInvFacts, ListsAside
<1>6. LayerStays(plan, q)
  BY <1>1, <1>5, StayParts, PutStays DEF LayerStays
<1>7. QED
  BY <1>0, <1>5, <1>6 DEF AsideStep, q

(* No factory is touched, nothing marked goes.                             *)
LEMMA NoFactoryAside ==
  ASSUME RInv, NEW q,
         q.factories = plan.factories, q.guides = plan.guides, q.ports = plan.ports,
         q.routes = plan.routes, q.switches = plan.switches, q.marks = plan.marks,
         DOMAIN plan.groups \subseteq DOMAIN q.groups,
         DOMAIN plan.claims \subseteq DOMAIN q.claims
  PROVE  Aside(plan, q)
  BY RInvFacts, ListsAside

(* A new splitter or merger leaves routes aside. *)
LEMMA AddJunctionAside ==
  ASSUME RInv, NEW f, NEW kind, AddJunction(f, kind)
  PROVE  AsideStep
<1> DEFINE q == plan'
<1>1. /\ q.factories = plan.factories /\ q.groups = plan.groups /\ imports' = imports
      /\ q.guides = plan.guides /\ q.ports = plan.ports /\ q.edges = plan.edges
      /\ q.routes = plan.routes /\ q.switches = plan.switches /\ q.claims = plan.claims
      /\ q.marks = plan.marks
  BY RInvFacts DEF AddJunction, Create, Issue, PlanFields, Collection
<1> HIDE DEF q
<1>2. Aside(plan, q)
  BY <1>1, NoFactoryAside
<1>3. QED
  BY <1>1, <1>2, StayParts DEF LayerStays, AsideStep, q

(* A new belt leaves routes aside. *)
LEMMA AddEdgeAside ==
  ASSUME RInv, NEW f, NEW from, NEW to, NEW item, AddEdge(f, from, to, item)
  PROVE  AsideStep
<1> DEFINE q == plan'
           new == NewEdge(f, from, to, item, FALSE)
<1>1. /\ q.factories = plan.factories /\ q.groups = plan.groups /\ imports' = imports
      /\ q.guides = plan.guides /\ q.ports = plan.ports
      /\ q.edges = Put(plan.edges, New, new)
      /\ q.routes = plan.routes /\ q.switches = plan.switches /\ q.claims = plan.claims
      /\ q.marks = plan.marks
  BY RInvFacts DEF AddEdge, Create, Issue, PlanFields, Collection
<1>2. new.built = FALSE
  BY DEF NewEdge
<1> HIDE DEF q, new
<1>3. Aside(plan, q)
  BY <1>1, NoFactoryAside
<1>4. QED
  BY <1>1, <1>2, <1>3, StayParts, PutStays DEF LayerStays, AsideStep, q

(* A changed recipe leaves routes aside. *)
LEMMA SetGroupRecipeAside ==
  ASSUME RInv, NEW g, NEW recipe, SetGroupRecipe(g, recipe)
  PROVE  AsideStep
<1> DEFINE q == plan'
           one == [plan.groups[g] EXCEPT !.recipe = recipe]
<1>0. g \in DOMAIN plan.groups /\ ~plan.groups[g].built /\ imports' = imports
  BY DEF SetGroupRecipe, Planned, Edit
<1>1. /\ q.factories = plan.factories /\ q.groups = [plan.groups EXCEPT ![g] = one]
      /\ q.guides = plan.guides /\ q.ports = plan.ports /\ q.edges = plan.edges
      /\ q.routes = plan.routes /\ q.switches = plan.switches /\ q.claims = plan.claims
      /\ q.marks = plan.marks
  BY <1>0, RInvFacts DEF SetGroupRecipe, Edit, PlanFields, Collection
<1>2. one.built = plan.groups[g].built
  BY <1>0, RInvFacts DEF GroupFields
<1> HIDE DEF q, one
<1>3. /\ DOMAIN q.groups = DOMAIN plan.groups /\ q.groups[g] = one
      /\ \A x \in DOMAIN plan.groups : x # g => q.groups[x] = plan.groups[x]
  BY <1>0, <1>1
<1>4. StayGroups(plan, q)
  BY <1>0, <1>2, <1>3 DEF StayGroups
<1>5. Aside(plan, q)
  BY <1>1, <1>3, NoFactoryAside
<1>6. QED
  BY <1>0, <1>1, <1>4, <1>5, StayParts DEF LayerStays, AsideStep, q

(* A changed count leaves routes aside. *)
LEMMA SetGroupCountAside ==
  ASSUME RInv, NEW g, NEW count, SetGroupCount(g, count)
  PROVE  AsideStep
<1> DEFINE q == plan'
           one == IF ~plan.groups[g].built THEN [plan.groups[g] EXCEPT !.count = count]
                  ELSE [plan.groups[g] EXCEPT
                          !.mine = IF count = plan.groups[g].count THEN 0 ELSE count]
<1>0. g \in DOMAIN plan.groups /\ imports' = imports
  BY DEF SetGroupCount, Edit
<1>1. /\ q.factories = plan.factories /\ q.groups = [plan.groups EXCEPT ![g] = one]
      /\ q.guides = plan.guides /\ q.ports = plan.ports /\ q.edges = plan.edges
      /\ q.routes = plan.routes /\ q.switches = plan.switches /\ q.claims = plan.claims
      /\ q.marks = plan.marks
  BY <1>0, RInvFacts DEF SetGroupCount, Edit, PlanFields, Collection
<1>2. /\ one.built = plan.groups[g].built
      /\ plan.groups[g].built =>
           one.recipe = plan.groups[g].recipe /\ one.count = plan.groups[g].count
  BY <1>0, RInvFacts DEF GroupFields
<1> HIDE DEF q, one
<1>3. /\ DOMAIN q.groups = DOMAIN plan.groups /\ q.groups[g] = one
      /\ \A x \in DOMAIN plan.groups : x # g => q.groups[x] = plan.groups[x]
  BY <1>0, <1>1
<1>4. StayGroups(plan, q)
  BY <1>0, <1>2, <1>3 DEF StayGroups
<1>5. Aside(plan, q)
  BY <1>1, <1>3, NoFactoryAside
<1>6. QED
  BY <1>0, <1>1, <1>4, <1>5, StayParts DEF LayerStays, AsideStep, q

(* A deleted belt leaves routes aside. *)
LEMMA DeleteEdgeAside ==
  ASSUME RInv, NEW e, DeleteEdge(e)
  PROVE  AsideStep
<1> DEFINE q == plan'
<1>0. ~plan.edges[e].built /\ imports' = imports
  BY DEF DeleteEdge, Planned, Edit
<1>1. /\ q.factories = plan.factories /\ q.groups = plan.groups
      /\ q.guides = plan.guides /\ q.ports = plan.ports /\ q.edges = Drop(plan.edges, {e})
      /\ q.routes = plan.routes /\ q.switches = plan.switches /\ q.claims = plan.claims
      /\ q.marks = plan.marks
  BY <1>0, RInvFacts DEF DeleteEdge, Edit, PlanFields, Collection
<1> HIDE DEF q
<1>2. StayEdges(plan, q)
  BY <1>0, <1>1 DEF StayEdges, Drop, Restrict
<1>3. Aside(plan, q)
  BY <1>1, NoFactoryAside
<1>4. QED
  BY <1>0, <1>1, <1>2, <1>3, StayParts DEF LayerStays, AsideStep, q

(* A tuned node leaves routes aside. *)
LEMMA SetClaimAside ==
  ASSUME RInv, NEW c, SetClaim(c)
  PROVE  AsideStep
<1> DEFINE q == plan'
<1>1. /\ q.factories = plan.factories /\ q.groups = plan.groups /\ imports' = imports
      /\ q.guides = plan.guides /\ q.ports = plan.ports /\ q.edges = plan.edges
      /\ q.routes = plan.routes /\ q.switches = plan.switches
      /\ DOMAIN q.claims = DOMAIN plan.claims
      /\ q.marks = plan.marks
  BY RInvFacts DEF SetClaim, Edit, PlanFields, Collection
<1> HIDE DEF q
<1>2. StayClaims(plan, q)
  BY <1>1 DEF StayClaims
<1>3. Aside(plan, q)
  BY <1>1, NoFactoryAside
<1>4. QED
  BY <1>1, <1>2, <1>3, StayParts DEF LayerStays, AsideStep, q

(* A released node leaves routes aside. *)
LEMMA ReleaseNodeAside ==
  ASSUME RInv, NEW c, ReleaseNode(c)
  PROVE  AsideStep
<1> DEFINE q == plan'
           f == plan.claims[c].factory
           one == [plan.factories[f] EXCEPT !.claims = @ \ {c}]
<1>0. c \in DOMAIN plan.claims /\ ~plan.claims[c].built /\ imports' = imports
  BY DEF ReleaseNode, Planned, Edit
<1>f. f \in DOMAIN plan.factories
  BY <1>0, RInvFacts DEF Lists
<1>1. /\ q.factories = [plan.factories EXCEPT ![f] = one]
      /\ q.claims = Drop(plan.claims, {c})
      /\ q.guides = plan.guides /\ q.ports = plan.ports /\ q.edges = plan.edges
      /\ q.routes = plan.routes /\ q.switches = plan.switches /\ q.groups = plan.groups
      /\ q.marks = plan.marks \ {c}
  BY <1>0, RInvFacts DEF ReleaseNode, Edit, PlanFields, Collection
<1>2. /\ one.at = plan.factories[f].at /\ one.guide = plan.factories[f].guide
      /\ one.replaces = plan.factories[f].replaces /\ one.built = plan.factories[f].built
  BY <1>f, RInvFacts DEF FactoryFields
<1> HIDE DEF q, one, f
<1>3. DOMAIN q.claims = DOMAIN plan.claims \ {c}
  BY <1>1 DEF Drop, Restrict
<1>4. /\ q.marks \subseteq plan.marks
      /\ \A x \in DOMAIN plan.claims : x \in DOMAIN q.claims \/ x \notin q.marks
      /\ \A x \in DOMAIN plan.groups : x \in DOMAIN q.groups \/ x \notin q.marks
  BY <1>1, <1>3
<1>5. Aside(plan, q)
  <2>1. Shape(plan) /\ Linked(plan)
    BY RInvFacts
  <2>2. QED
    BY <1>f, <1>1, <1>2, <1>4, <2>1, ListsAside
<1>6. StayClaims(plan, q)
  BY <1>0, <1>3 DEF StayClaims
<1>7. QED
  BY <1>0, <1>1, <1>5, <1>6, StayParts DEF LayerStays, AsideStep, q

(* A deleted group leaves routes aside. *)
LEMMA DeleteGroupAside ==
  ASSUME RInv, NEW g, DeleteGroup(g)
  PROVE  AsideStep
<1>1. /\ g \in DOMAIN plan.groups /\ ~plan.groups[g].built
      /\ plan' = RemoveGroup(plan, g) /\ imports' = imports
  BY DEF DeleteGroup, Planned, Edit
<1>2. QED
  BY <1>1, RInvFacts, RemoveGroupAside DEF AsideStep

(* A deleted splitter or merger leaves routes aside. *)
LEMMA DeleteJunctionAside ==
  ASSUME RInv, NEW j, DeleteJunction(j)
  PROVE  AsideStep
<1>1. /\ j \in DOMAIN plan.junctions
      /\ plan' = RemoveJunction(plan, j) /\ imports' = imports
  BY DEF DeleteJunction, Edit
<1>2. QED
  BY <1>1, RInvFacts, RemoveJunctionAside DEF AsideStep

(* A machine of a planned bank is the user's, and so are the belts of its
   fans and those that led to the bank.                                    *)
LEMMA ExpandGroupAside ==
  ASSUME RInv, NEW g, ExpandGroup(g)
  PROVE  AsideStep
<1> DEFINE q == plan'
           count == EffectiveCount(plan.groups[g])
           f == plan.groups[g].factory
           one == [plan.factories[f] EXCEPT !.groups = (@ \ {g}) \cup Machines(count)]
<1>0. /\ g \in DOMAIN plan.groups /\ ~plan.groups[g].built
      /\ q = Expanded(g) /\ imports' = imports
  BY DEF ExpandGroup, Create, Issue, Planned
<1>f. f \in DOMAIN plan.factories
  BY <1>0, RInvFacts DEF Lists
<1>1. /\ q.factories = [plan.factories EXCEPT ![f] = one]
      /\ q.guides = plan.guides /\ q.ports = plan.ports
      /\ q.routes = plan.routes /\ q.switches = plan.switches /\ q.claims = plan.claims
      /\ q.marks = plan.marks \ {g}
  BY <1>0, RInvFacts DEF Expanded, PlanFields, Collection
<1>2. /\ one.at = plan.factories[f].at /\ one.guide = plan.factories[f].guide
      /\ one.replaces = plan.factories[f].replaces /\ one.built = plan.factories[f].built
  BY <1>f, RInvFacts DEF FactoryFields
<1>3. FannedGroups(q, g, count) /\ FannedBelts(q, g, count)
  BY <1>0, RInvFacts, ExpandedIs
<1> HIDE DEF q, one, f, count
<1>4. /\ q.marks \subseteq plan.marks
      /\ \A x \in DOMAIN plan.claims : x \in DOMAIN q.claims \/ x \notin q.marks
      /\ \A x \in DOMAIN plan.groups : x \in DOMAIN q.groups \/ x \notin q.marks
  BY <1>1, <1>3 DEF FannedGroups
<1>5. Aside(plan, q)
  <2>1. Shape(plan) /\ Linked(plan)
    BY RInvFacts
  <2>2. QED
    BY <1>f, <1>1, <1>2, <1>4, <2>1, ListsAside
<1>6. StayGroups(plan, q)
  <2>1. /\ DOMAIN q.groups = (DOMAIN plan.groups \ {g}) \cup Machines(count)
        /\ \A x \in DOMAIN plan.groups \ {g} : q.groups[x] = plan.groups[x]
        /\ \A x \in Machines(count) : q.groups[x].built = FALSE
    BY <1>3 DEF FannedGroups
  <2>2. QED
    BY <1>0, <2>1 DEF StayGroups
<1>7. StayEdges(plan, q)
  <2>1. ASSUME NEW e \in DOMAIN plan.edges, plan.edges[e].built
        PROVE  e \notin Belts(g)
    BY <1>0, <2>1, RInvFacts, BuiltBeltEnds DEF Belts, Touching, Into, OutOf
  <2>2. /\ DOMAIN q.edges = DOMAIN plan.edges \cup Trunks(g, count) \cup Branches(g, count)
        /\ \A e \in DOMAIN plan.edges \ Belts(g) : q.edges[e] = plan.edges[e]
        /\ \A e \in Belts(g) : e \in DOMAIN plan.edges /\ q.edges[e].built = plan.edges[e].built
    BY <1>3 DEF FannedBelts, Belts, Touching, Into, OutOf
  <2>3. \A x \in Trunks(g, count) : q.edges[x].built = FALSE
    BY <1>3 DEF FannedBelts, Trunks, IsFanBelt
  <2>4. ASSUME NEW x \in Branches(g, count)
        PROVE  q.edges[x].built = FALSE
    <3>1. PICK i \in 1..count, e \in Belts(g) : x = <<n, "branch", i, e>>
      BY DEF Branches
    <3>2. \A b, h, item, splits, near, far : IsFanBelt(b, h, item, splits, near, far) => b.built = FALSE
      BY DEF IsFanBelt
    <3>3. QED
      BY <1>3, <3>1, <3>2 DEF FannedBelts
  <2>5. QED
    BY <2>1, <2>2, <2>3, <2>4 DEF StayEdges
<1>8. QED
  BY <1>0, <1>1, <1>5, <1>6, <1>7, StayParts DEF LayerStays, AsideStep, q

(* Every step of the build queue and of a cutover stands in the plan.      *)
LEMMA StepsStand ==
  ASSUME NEW pl, Linked(pl)
  PROVE  Steps(pl) \subseteq Standing(pl)
<1>1. ASSUME NEW x \in UNION {{f, pl.factories[f].replaces} :
                         f \in {g \in DOMAIN pl.factories : pl.factories[g].replaces # None}}
      PROVE  x \in DOMAIN pl.factories
  BY DEF Linked
<1>2. QED
  BY <1>1 DEF Steps, Standing

(* A build mark, and the links it dissolves, leave routes aside. *)
LEMMA SetBuildDoneAside ==
  ASSUME RInv, NEW x, NEW kept, SetBuildDone(x, kept)
  PROVE  AsideStep
<1> DEFINE q == plan'
<1>1. /\ q.factories = plan.factories /\ q.groups = plan.groups /\ imports' = imports
      /\ q.guides = plan.guides /\ q.ports = plan.ports /\ q.edges = plan.edges
      /\ q.routes = plan.routes /\ q.switches = plan.switches /\ q.claims = plan.claims
      /\ q.marks \subseteq plan.marks \cup {x}
      /\ x \in Steps(plan)
  BY RInvFacts DEF SetBuildDone, Edit, PlanFields, Collection
<1> HIDE DEF q
<1>2. q.marks \subseteq Standing(q)
  <2>1. x \in Standing(plan) /\ plan.marks \subseteq Standing(plan)
    BY <1>1, RInvFacts, StepsStand DEF Linked, Linking
  <2>2. Standing(q) = Standing(plan)
    BY <1>1 DEF Standing
  <2>3. QED
    BY <1>1, <2>1, <2>2
<1>3. Aside(plan, q)
  BY <1>1, <1>2 DEF Aside
<1>4. QED
  BY <1>1, <1>3, StayParts DEF LayerStays, AsideStep, q

------------------------------------------------------------------------------
(* The commands on factories, themes and ports                             *)

EditStep ==
  /\ Served(plan', made') /\ Linked(plan')
  /\ LayerStays(plan, plan') /\ imports' = imports

(* A step that keeps what the routes rest on keeps them served. *)
LEMMA KeptStep ==
  ASSUME RInv, Inv', Keeps(plan, plan'), made' \in {made, made + 1}
  PROVE  Served(plan', made')
<1>1. Lists(plan') /\ made \in Nat
  BY DEF RInv, Inv, Wired
<1>2. Served(plan', made)
  BY <1>1, RInvFacts, KeepsServed
<1>3. QED
  BY <1>1, <1>2, ServedLater

(* A step aside from the routes is an edit. *)
LEMMA AsideStepEdits ==
  ASSUME RInv, Inv', AsideStep, made' \in {made, made + 1}
  PROVE  EditStep
<1>1. Keeps(plan, plan') /\ Linked(plan')
  BY RInvFacts, AsideKeeps DEF AsideStep
<1>2. QED
  BY <1>1, KeptStep DEF EditStep, AsideStep

(* A new factory is an edit. *)
LEMMA CreateFactoryEdits ==
  ASSUME RInv, Inv', NEW at, CreateFactory(at)
  PROVE  EditStep
<1> DEFINE q == plan'
           new == NewFactory(at, FALSE)
<1>0. imports' = imports /\ made' = made + 1
  BY DEF CreateFactory, Create, Issue, n
<1>1. /\ q.factories = Put(plan.factories, New, new) /\ q.groups = plan.groups
      /\ q.guides = plan.guides /\ q.ports = plan.ports /\ q.edges = plan.edges
      /\ q.routes = plan.routes /\ q.switches = plan.switches /\ q.claims = plan.claims
      /\ q.marks = plan.marks
  BY RInvFacts DEF CreateFactory, Create, Issue, PlanFields, Collection
<1>2. new.built = FALSE /\ new.guide = None /\ new.replaces = None
  BY DEF NewFactory
<1>3. New \notin DOMAIN plan.factories /\ New \notin DOMAIN plan.ports
  BY RInvFacts, NewIsFresh
<1> HIDE DEF q, new
<1>4. /\ DOMAIN q.factories = DOMAIN plan.factories \cup {New}
      /\ q.factories[New] = new
      /\ \A f \in DOMAIN plan.factories : q.factories[f] = plan.factories[f]
  BY <1>1, <1>3 DEF Put
<1>5. Keeps(plan, q)
  <2>1. Apart(q)
    BY <1>1, <1>3, <1>4, RInvFacts DEF Apart, Served
  <2>2. QED
    BY <1>1, <1>4, <2>1, RInvFacts, UntouchedKeeps
<1>6. Linked(q)
  <2>1. KeptLinks(plan, q)
    BY <1>1, <1>2, <1>4, RInvFacts DEF KeptLinks, Linked, Linking, Standing
  <2>2. QED
    BY <1>4, <2>1, RInvFacts, KeptLinked
<1>7. LayerStays(plan, q)
  BY <1>1, <1>2, StayParts, PutStays DEF LayerStays
<1>8. QED
  BY <1>0, <1>5, <1>6, <1>7, KeptStep DEF EditStep, q

(* A new style guide is an edit. *)
LEMMA CreateStyleGuideEdits ==
  ASSUME RInv, Inv', CreateStyleGuide
  PROVE  EditStep
<1> DEFINE q == plan'
<1>0. imports' = imports /\ made' = made + 1
  BY DEF CreateStyleGuide, Create, Issue, n
<1>1. /\ q.factories = plan.factories /\ q.groups = plan.groups
      /\ plan.guides \subseteq q.guides /\ q.ports = plan.ports /\ q.edges = plan.edges
      /\ q.routes = plan.routes /\ q.switches = plan.switches /\ q.claims = plan.claims
      /\ q.marks = plan.marks
  BY RInvFacts DEF CreateStyleGuide, Create, Issue, PlanFields, Collection
<1> HIDE DEF q
<1>2. Keeps(plan, q)
  <2>1. Apart(q)
    BY <1>1, RInvFacts DEF Apart, Served
  <2>2. QED
    BY <1>1, <2>1, RInvFacts, UntouchedKeeps
<1>3. Linked(q)
  <2>1. KeptLinks(plan, q)
    BY <1>1, RInvFacts DEF KeptLinks, Linked, Linking, Standing
  <2>2. QED
    BY <1>1, <2>1, RInvFacts, KeptLinked
<1>4. LayerStays(plan, q)
  BY <1>1, StayParts DEF LayerStays
<1>5. QED
  BY <1>0, <1>2, <1>3, <1>4, KeptStep DEF EditStep, q

(* Commands that set what a factory names leave everything else.           *)
LEMMA NamingEdits ==
  ASSUME RInv, Inv', NEW q, q = plan',
         q.groups = plan.groups, q.ports = plan.ports, q.edges = plan.edges,
         q.routes = plan.routes, q.switches = plan.switches, q.claims = plan.claims,
         DOMAIN q.factories = DOMAIN plan.factories,
         \A f \in DOMAIN plan.factories :
           /\ q.factories[f].at = plan.factories[f].at
           /\ q.factories[f].built = plan.factories[f].built,
         Linked(q), made' = made, imports' = imports
  PROVE  EditStep
<1>1. Keeps(plan, q)
  <2>1. Apart(q)
    BY RInvFacts DEF Apart, Served
  <2>2. QED
    BY <2>1, RInvFacts, UntouchedKeeps
<1>2. StayFactories(plan, q)
  BY DEF StayFactories
<1>3. LayerStays(plan, q)
  BY <1>2, StayParts DEF LayerStays
<1>4. QED
  BY <1>1, <1>3, KeptStep DEF EditStep

(* A deleted style guide, taken off its factories, is an edit. *)
LEMMA DeleteStyleGuideEdits ==
  ASSUME RInv, Inv', NEW s, DeleteStyleGuide(s)
  PROVE  EditStep
<1> DEFINE q == plan'
<1>0. imports' = imports /\ made' = made
  BY DEF DeleteStyleGuide, Edit
<1>1. /\ q.factories = [f \in DOMAIN plan.factories |->
                          IF plan.factories[f].guide = s THEN [plan.factories[f] EXCEPT !.guide = None]
                          ELSE plan.factories[f]]
      /\ q.groups = plan.groups
      /\ q.guides = plan.guides \ {s} /\ q.ports = plan.ports /\ q.edges = plan.edges
      /\ q.routes = plan.routes /\ q.switches = plan.switches /\ q.claims = plan.claims
      /\ q.marks = plan.marks
  BY RInvFacts DEF DeleteStyleGuide, Edit, PlanFields, Collection
<1> HIDE DEF q
<1>2. DOMAIN q.factories = DOMAIN plan.factories
  BY <1>1
<1>3. ASSUME NEW f \in DOMAIN plan.factories
      PROVE  /\ q.factories[f].at = plan.factories[f].at
             /\ q.factories[f].built = plan.factories[f].built
             /\ q.factories[f].replaces = plan.factories[f].replaces
             /\ plan.factories[f].guide = s => q.factories[f].guide = None
             /\ plan.factories[f].guide # s => q.factories[f].guide = plan.factories[f].guide
  <2>1. DOMAIN plan.factories[f] = FactoryFields
    BY RInvFacts
  <2>2. /\ plan.factories[f].guide = s => q.factories[f] = [plan.factories[f] EXCEPT !.guide = None]
        /\ plan.factories[f].guide # s => q.factories[f] = plan.factories[f]
    BY <1>1
  <2>3. QED
    BY <2>1, <2>2 DEF FactoryFields
<1>4. Linked(q)
  <2>1. \A f \in DOMAIN q.factories : q.factories[f].guide \in q.guides \cup {None}
    BY <1>1, <1>2, <1>3, RInvFacts DEF Linked, Linking
  <2>2. \A f \in DOMAIN q.factories :
          /\ q.factories[f].replaces \in DOMAIN q.factories \cup {None}
          /\ q.factories[f].replaces # None =>
               /\ q.factories[f].replaces # f
               /\ q.factories[f].replaces \in DOMAIN q.factories
                    => q.factories[q.factories[f].replaces].built
    BY <1>2, <1>3, RInvFacts DEF Linked, Linking
  <2>3. q.marks \subseteq Standing(q)
    BY <1>1, <1>2, RInvFacts DEF Linked, Linking, Standing
  <2>4. QED
    BY <2>1, <2>2, <2>3 DEF Linked, Linking
<1>5. QED
  BY <1>0, <1>1, <1>2, <1>3, <1>4, NamingEdits DEF q

(* A link to the built factory to be replaced is an edit. *)
LEMMA SetFactoryReplacesEdits ==
  ASSUME RInv, Inv', NEW f, NEW old, SetFactoryReplaces(f, old)
  PROVE  EditStep
<1> DEFINE q == plan'
           one == [plan.factories[f] EXCEPT !.replaces = old]
<1>0. /\ imports' = imports /\ made' = made
      /\ f \in DOMAIN plan.factories
      /\ old # None => old \in DOMAIN plan.factories /\ old # f /\ plan.factories[old].built
  BY DEF SetFactoryReplaces, Edit, Built
<1>1. /\ q.factories = [plan.factories EXCEPT ![f] = one]
      /\ q.groups = plan.groups
      /\ q.guides = plan.guides /\ q.ports = plan.ports /\ q.edges = plan.edges
      /\ q.routes = plan.routes /\ q.switches = plan.switches /\ q.claims = plan.claims
      /\ q.marks = plan.marks
  BY <1>0, RInvFacts DEF SetFactoryReplaces, Edit, PlanFields, Collection
<1>2. /\ one.at = plan.factories[f].at /\ one.guide = plan.factories[f].guide
      /\ one.replaces = old /\ one.built = plan.factories[f].built
  BY <1>0, RInvFacts DEF FactoryFields
<1> HIDE DEF q, one
<1>3. /\ DOMAIN q.factories = DOMAIN plan.factories
      /\ q.factories[f] = one
      /\ \A x \in DOMAIN plan.factories : x # f => q.factories[x] = plan.factories[x]
  BY <1>0, <1>1
<1>4. \A x \in DOMAIN plan.factories :
        /\ q.factories[x].at = plan.factories[x].at
        /\ q.factories[x].built = plan.factories[x].built
        /\ q.factories[x].guide = plan.factories[x].guide
  BY <1>2, <1>3
<1>5. Linked(q)
  <2>1. ASSUME NEW x \in DOMAIN q.factories
        PROVE  /\ q.factories[x].replaces \in DOMAIN q.factories \cup {None}
               /\ q.factories[x].replaces # None =>
                    /\ q.factories[x].replaces # x
                    /\ q.factories[x].replaces \in DOMAIN q.factories
                         => q.factories[q.factories[x].replaces].built
    BY <1>0, <1>2, <1>3, <1>4, RInvFacts DEF Linked, Linking
  <2>2. \A x \in DOMAIN q.factories : q.factories[x].guide \in q.guides \cup {None}
    BY <1>1, <1>3, <1>4, RInvFacts DEF Linked, Linking
  <2>3. q.marks \subseteq Standing(q)
    BY <1>1, <1>3, RInvFacts DEF Linked, Linking, Standing
  <2>4. QED
    BY <2>1, <2>2, <2>3 DEF Linked, Linking
<1>6. QED
  BY <1>0, <1>1, <1>3, <1>4, <1>5, NamingEdits DEF q

(* A chosen style guide is an edit. *)
LEMMA SetFactoryThemeEdits ==
  ASSUME RInv, Inv', NEW f, NEW s, SetFactoryTheme(f, s)
  PROVE  EditStep
<1> DEFINE q == plan'
           one == [plan.factories[f] EXCEPT !.guide = s]
<1>0. /\ imports' = imports /\ made' = made
      /\ f \in DOMAIN plan.factories /\ s \in plan.guides \cup {None}
  BY DEF SetFactoryTheme, Edit
<1>1. /\ q.factories = [plan.factories EXCEPT ![f] = one]
      /\ q.groups = plan.groups
      /\ q.guides = plan.guides /\ q.ports = plan.ports /\ q.edges = plan.edges
      /\ q.routes = plan.routes /\ q.switches = plan.switches /\ q.claims = plan.claims
      /\ q.marks = plan.marks
  BY <1>0, RInvFacts DEF SetFactoryTheme, Edit, PlanFields, Collection
<1>2. /\ one.at = plan.factories[f].at /\ one.guide = s
      /\ one.replaces = plan.factories[f].replaces /\ one.built = plan.factories[f].built
  BY <1>0, RInvFacts DEF FactoryFields
<1> HIDE DEF q, one
<1>3. /\ DOMAIN q.factories = DOMAIN plan.factories
      /\ q.factories[f] = one
      /\ \A x \in DOMAIN plan.factories : x # f => q.factories[x] = plan.factories[x]
  BY <1>0, <1>1
<1>4. \A x \in DOMAIN plan.factories :
        /\ q.factories[x].at = plan.factories[x].at
        /\ q.factories[x].built = plan.factories[x].built
        /\ q.factories[x].replaces = plan.factories[x].replaces
  BY <1>2, <1>3
<1>5. Linked(q)
  <2>1. \A x \in DOMAIN q.factories : q.factories[x].guide \in q.guides \cup {None}
    BY <1>0, <1>1, <1>2, <1>3, RInvFacts DEF Linked, Linking
  <2>2. \A x \in DOMAIN q.factories :
          /\ q.factories[x].replaces \in DOMAIN q.factories \cup {None}
          /\ q.factories[x].replaces # None =>
               /\ q.factories[x].replaces # x
               /\ q.factories[x].replaces \in DOMAIN q.factories
                    => q.factories[q.factories[x].replaces].built
    BY <1>3, <1>4, RInvFacts DEF Linked, Linking
  <2>3. q.marks \subseteq Standing(q)
    BY <1>1, <1>3, RInvFacts DEF Linked, Linking, Standing
  <2>4. QED
    BY <2>1, <2>2, <2>3 DEF Linked, Linking
<1>6. QED
  BY <1>0, <1>1, <1>3, <1>4, <1>5, NamingEdits DEF q

(* A new port is an edit. *)
LEMMA AddPortEdits ==
  ASSUME RInv, Inv', NEW f, NEW dir, NEW item, AddPort(f, dir, item)
  PROVE  EditStep
<1> DEFINE q == plan'
           one == [plan.factories[f] EXCEPT !.ports = @ \cup {New}]
           new == NewPort(f, dir, item, FALSE)
<1>0. /\ imports' = imports /\ made' = made + 1
      /\ f \in DOMAIN plan.factories
  BY DEF AddPort, Create, Issue, n
<1>1. /\ q.factories = [plan.factories EXCEPT ![f] = one]
      /\ q.groups = plan.groups
      /\ q.guides = plan.guides /\ q.ports = Put(plan.ports, New, new) /\ q.edges = plan.edges
      /\ q.routes = plan.routes /\ q.switches = plan.switches /\ q.claims = plan.claims
      /\ q.marks = plan.marks
  BY <1>0, RInvFacts DEF AddPort, Create, Issue, PlanFields, Collection
<1>2. /\ one.at = plan.factories[f].at /\ one.guide = plan.factories[f].guide
      /\ one.replaces = plan.factories[f].replaces /\ one.built = plan.factories[f].built
  BY <1>0, RInvFacts DEF FactoryFields
<1>3. new.built = FALSE /\ new.route = None
  BY DEF NewPort
<1>4. New \notin DOMAIN plan.factories /\ New \notin DOMAIN plan.ports
  BY RInvFacts, NewIsFresh
<1> HIDE DEF q, one, new
<1>5. /\ DOMAIN q.factories = DOMAIN plan.factories
      /\ \A x \in DOMAIN plan.factories :
           /\ q.factories[x].at = plan.factories[x].at
           /\ q.factories[x].built = plan.factories[x].built
           /\ q.factories[x].guide = plan.factories[x].guide
           /\ q.factories[x].replaces = plan.factories[x].replaces
  BY <1>0, <1>1, <1>2
<1>6. /\ DOMAIN q.ports = DOMAIN plan.ports \cup {New} /\ q.ports[New] = new
      /\ \A p \in DOMAIN plan.ports : q.ports[p] = plan.ports[p]
  BY <1>1, <1>4 DEF Put
<1>7. Keeps(plan, q)
  <2>1. Apart(q)
    BY <1>4, <1>5, <1>6, RInvFacts DEF Apart, Served
  <2>2. KeptRoutes(plan, q)
    BY <1>1, RInvFacts DEF KeptRoutes, Served, Pinned
  <2>3. KeptBindings(plan, q)
    BY <1>1, <1>3, <1>6, RInvFacts DEF KeptBindings, Served, Bound, SamePort
  <2>4. KeptPins(plan, q)
    BY <1>5 DEF KeptPins
  <2>5. QED
    BY <2>1, <2>2, <2>3, <2>4 DEF Keeps
<1>8. Linked(q)
  <2>1. KeptLinks(plan, q)
    BY <1>1, <1>5, RInvFacts DEF KeptLinks, Linked, Linking, Standing
  <2>2. QED
    BY <1>5, <2>1, RInvFacts, KeptLinked
<1>9. LayerStays(plan, q)
  <2>1. StayFactories(plan, q)
    BY <1>5 DEF StayFactories
  <2>2. QED
    BY <1>1, <1>3, <2>1, StayParts, PutStays DEF LayerStays
<1>10. QED
  BY <1>0, <1>7, <1>8, <1>9, KeptStep DEF EditStep, q

------------------------------------------------------------------------------
(* The commands that take away routes                                      *)

(* A deleted port, with its belts and routes, is an edit. *)
LEMMA DeletePortEdits ==
  ASSUME RInv, Inv', NEW p, DeletePort(p)
  PROVE  EditStep
<1> DEFINE q == plan'
           f == plan.ports[p].factory
           rs == RoutesOf(plan, {p})
           r == RemoveRoutes(plan, rs)
<1>0. /\ imports' = imports /\ made' = made
      /\ p \in DOMAIN plan.ports /\ ~plan.ports[p].built
      /\ q = RemovePorts(plan, f, {p})
  BY DEF DeletePort, RemovePort, Planned, Edit
<1>1. f \in DOMAIN plan.factories
  BY <1>0, RInvFacts DEF Lists
<1>2. Portless(plan, q, f, {p}) /\ SameRoutes(q, r) /\ RoutesGone(plan, r, rs)
  BY <1>0, <1>1, RInvFacts, RemovePortsFields, RemoveRoutesGone
<1>3. Keeps(plan, q)
  BY <1>0, <1>1, RInvFacts, RemovePortsKeeps
<1> HIDE DEF q, f, r, rs
<1>4. /\ q.groups = plan.groups /\ q.claims = plan.claims /\ q.guides = plan.guides
      /\ DOMAIN q.factories = DOMAIN plan.factories
      /\ \A x \in DOMAIN plan.factories : x # f => q.factories[x] = plan.factories[x]
      /\ q.factories[f] = [plan.factories[f] EXCEPT !.ports = @ \ {p}]
      /\ DOMAIN q.edges = DOMAIN plan.edges \ BeltsAt(plan, {p})
      /\ \A e \in DOMAIN q.edges : q.edges[e] = plan.edges[e]
      /\ DOMAIN q.ports = DOMAIN plan.ports \ {p}
      /\ \A x \in DOMAIN q.ports : q.ports[x].built = plan.ports[x].built
  BY <1>2 DEF Portless, SamePort
<1>5. \A x \in DOMAIN plan.factories :
        /\ q.factories[x].at = plan.factories[x].at
        /\ q.factories[x].built = plan.factories[x].built
        /\ q.factories[x].guide = plan.factories[x].guide
        /\ q.factories[x].replaces = plan.factories[x].replaces
  BY <1>4, RInvFacts DEF FactoryFields
<1>6. Linked(q)
  <2>1. q.marks \subseteq Standing(q)
    BY <1>2, <1>4, RInvFacts DEF RoutesGone, SameRoutes, Linked, Linking, Standing
  <2>2. KeptLinks(plan, q)
    BY <1>4, <1>5, <2>1 DEF KeptLinks
  <2>3. QED
    BY <1>4, <2>2, RInvFacts, KeptLinked
<1>7. LayerStays(plan, q)
  <2>1. StayFactories(plan, q)
    BY <1>4, <1>5 DEF StayFactories
  <2>2. StayPorts(plan, q)
    BY <1>0, <1>4 DEF StayPorts
  <2>3. ASSUME NEW e \in DOMAIN plan.edges, plan.edges[e].built
        PROVE  e \notin BeltsAt(plan, {p})
    BY <1>0, <2>3, RInvFacts, BuiltBeltEnds DEF BeltsAt, Touching, Into, OutOf
  <2>4. StayEdges(plan, q)
    BY <1>4, <2>3 DEF StayEdges
  <2>5. QED
    BY <1>4, <2>1, <2>2, <2>4, StayParts DEF LayerStays
<1>8. QED
  BY <1>0, <1>3, <1>6, <1>7, KeptStep DEF EditStep, q

(* What a removed factory leaves behind: links that may lack it.           *)
LEMMA RemoveFactoryLinks ==
  ASSUME NEW pl, Shape(pl), NEW m, Served(pl, m), Linked(pl), NEW f
  PROVE  KeptLinks(pl, RemoveFactory(pl, f))
<1> DEFINE q == RemoveFactory(pl, f)
           rs == RoutesAt(pl, f)
           r == RemoveRoutes(pl, rs)
<1>1. FactoryGone(pl, q, f) /\ RoutesGone(pl, r, rs) /\ q.routes = r.routes
  BY RemoveFactoryFields, RemoveRoutesGone
<1> HIDE DEF q, r
<1>2. q.marks \subseteq Standing(q)
  <2>1. ASSUME NEW x \in q.marks
        PROVE  x \in Standing(q)
    <3>1. /\ x \in pl.marks /\ x # f /\ x \notin rs
          /\ x \notin Owned(pl, "groups", f) /\ x \notin Owned(pl, "claims", f)
      BY <1>1 DEF FactoryGone
    <3>2. x \in Standing(pl)
      BY <3>1 DEF Linked, Linking
    <3>3. QED
      BY <1>1, <3>1, <3>2 DEF FactoryGone, RoutesGone, Standing, Owned
  <2>2. QED
    BY <2>1
<1>3. KeptLinks(pl, q)
  BY <1>1, <1>2 DEF KeptLinks, FactoryGone
<1>4. QED
  BY <1>3 DEF q

(* A deleted factory, with everything that ends at it, is an edit. *)
LEMMA DeleteFactoryEdits ==
  ASSUME RInv, Inv', NEW f, DeleteFactory(f)
  PROVE  EditStep
<1> DEFINE q == plan'
<1>0. /\ imports' = imports /\ made' = made
      /\ f \in DOMAIN plan.factories /\ ~plan.factories[f].built
      /\ q = RemoveFactory(plan, f)
  BY DEF DeleteFactory, Planned, Edit
<1>1. Keeps(plan, q) /\ KeptLinks(plan, q) /\ FactoryGone(plan, q, f)
  BY <1>0, RInvFacts, RemoveFactoryKeeps, RemoveFactoryLinks, RemoveFactoryFields
<1> HIDE DEF q
<1>2. Linked(q)
  BY <1>0, <1>1, RInvFacts, KeptLinked DEF FactoryGone
<1>3. LayerStays(plan, q)
  <2>1. StayFactories(plan, q)
    BY <1>0, <1>1 DEF FactoryGone, StayFactories
  <2>2. StayGroups(plan, q)
    BY <1>0, <1>1, RInvFacts DEF FactoryGone, StayGroups, Layered
  <2>3. StayPorts(plan, q)
    BY <1>0, <1>1, RInvFacts DEF FactoryGone, StayPorts, Layered, SamePort
  <2>4. StayEdges(plan, q)
    BY <1>0, <1>1, RInvFacts DEF FactoryGone, StayEdges, Layered
  <2>5. StayClaims(plan, q)
    BY <1>0, <1>1, RInvFacts DEF FactoryGone, StayClaims, Layered
  <2>6. QED
    BY <2>1, <2>2, <2>3, <2>4, <2>5 DEF LayerStays
<1>4. QED
  BY <1>0, <1>1, <1>2, <1>3, KeptStep DEF EditStep, q

(* Commands on routes leave factories, groups, belts and claims alone.     *)
LEMMA RouteEdits ==
  ASSUME RInv, NEW q, q = plan',
         q.factories = plan.factories, q.groups = plan.groups, q.guides = plan.guides,
         q.edges = plan.edges, q.claims = plan.claims,
         DOMAIN q.ports = DOMAIN plan.ports,
         \A p \in DOMAIN plan.ports : q.ports[p].built = plan.ports[p].built,
         q.marks \subseteq Standing(q),
         Served(q, made'), imports' = imports
  PROVE  EditStep
<1>1. KeptLinks(plan, q)
  BY DEF KeptLinks
<1>2. Linked(q)
  BY <1>1, RInvFacts, KeptLinked
<1>3. StayPorts(plan, q)
  BY DEF StayPorts
<1>4. LayerStays(plan, q)
  BY <1>3, StayParts DEF LayerStays
<1>5. QED
  BY <1>2, <1>4 DEF EditStep

(* A deleted route, with its switches, is an edit. *)
LEMMA DeleteRouteEdits ==
  ASSUME RInv, Inv', NEW r, DeleteRoute(r)
  PROVE  EditStep
<1> DEFINE q == plan'
<1>0. imports' = imports /\ made' = made /\ q = RemoveRoutes(plan, {r})
  BY DEF DeleteRoute, RemoveRoute, Edit
<1>1. Keeps(plan, q) /\ RoutesGone(plan, q, {r}) /\ Unrouted(plan, q)
  BY <1>0, RInvFacts, RemoveRoutesKeeps, RemoveRoutesGone, RemoveRoutesFields
<1>2. Served(q, made')
  BY <1>0, <1>1, KeptStep
<1> HIDE DEF q
<1>3. /\ q.factories = plan.factories /\ q.groups = plan.groups /\ q.guides = plan.guides
      /\ q.edges = plan.edges /\ q.claims = plan.claims
      /\ DOMAIN q.ports = DOMAIN plan.ports
      /\ \A p \in DOMAIN plan.ports : q.ports[p].built = plan.ports[p].built
  BY <1>1 DEF Unrouted, SamePort
<1>4. q.marks \subseteq Standing(q)
  BY <1>1, <1>3, RInvFacts DEF RoutesGone, Linked, Linking, Standing
<1>5. QED
  BY <1>0, <1>2, <1>3, <1>4, RouteEdits DEF q

(* A deleted priority switch is an edit. *)
LEMMA DeleteSwitchEdits ==
  ASSUME RInv, Inv', NEW s, DeleteSwitch(s)
  PROVE  EditStep
<1> DEFINE q == plan'
<1>0. imports' = imports /\ made' = made
  BY DEF DeleteSwitch, Edit
<1>1. /\ q.factories = plan.factories /\ q.groups = plan.groups /\ q.guides = plan.guides
      /\ q.edges = plan.edges /\ q.claims = plan.claims /\ q.ports = plan.ports
      /\ q.routes = plan.routes /\ q.marks = plan.marks
      /\ q.switches = Drop(plan.switches, {s})
  BY RInvFacts DEF DeleteSwitch, Edit, PlanFields, Collection
<1> HIDE DEF q
<1>2. KeptRoutes(plan, q)
  <2>1. \A x \in DOMAIN q.switches : x \in DOMAIN plan.switches /\ q.switches[x] = plan.switches[x]
    BY <1>1 DEF Drop, Restrict
  <2>2. QED
    BY <1>1, <2>1, RInvFacts DEF KeptRoutes, Served, Pinned
<1>3. KeptBindings(plan, q)
  BY <1>1, RInvFacts DEF KeptBindings, Served, Bound, SamePort
<1>4. KeptPins(plan, q) /\ Apart(q)
  BY <1>1, RInvFacts DEF KeptPins, Served, Apart
<1>5. Served(q, made')
  BY <1>0, <1>2, <1>3, <1>4, KeptStep DEF Keeps, q
<1>6. q.marks \subseteq Standing(q)
  BY <1>1, RInvFacts DEF Linked, Linking, Standing
<1>7. QED
  BY <1>0, <1>1, <1>5, <1>6, RouteEdits DEF q

------------------------------------------------------------------------------
(* The commands on routes                                                  *)

(* A new route's id is no id yet.                                          *)
LEMMA NewRouteIsFresh ==
  ASSUME RInv
  PROVE  /\ New \notin DOMAIN plan.routes /\ New \notin DOMAIN plan.switches
         /\ New # None /\ New[1] \in 1..n /\ n = made + 1
<1>1. n \notin 1..made /\ New[1] = n /\ n \in 1..n /\ n = made + 1
  BY RInvFacts, NewIsFresh
<1>2. New # None
  BY DEF New, None
<1>3. \A r \in DOMAIN plan.routes : r[1] \in 1..made
  BY RInvFacts DEF Served, RouteShape
<1>4. \A s \in DOMAIN plan.switches : s[1] \in 1..made
  BY RInvFacts DEF Served, RouteShape
<1>5. QED
  BY <1>1, <1>2, <1>3, <1>4

(* A path of two points. *)
LEMMA PairPath ==
  ASSUME NEW a, NEW b
  PROVE  /\ <<a, b>> = [i \in 1..2 |-> <<a, b>>[i]]
         /\ <<a, b>>[1] = a /\ <<a, b>>[2] = b
  OBVIOUS

(* The path that is sent with a new route leads from pin to pin.           *)
LEMMA PathIsPinned ==
  ASSUME NEW from, NEW to
  PROVE  /\ Path(from, to) = [i \in 1..2 |-> Path(from, to)[i]]
         /\ IsPin(plan, from, Path(from, to)[1]) /\ IsPin(plan, to, Path(from, to)[2])
<1>1. IsPin(plan, from, PinOf(from)) /\ IsPin(plan, to, PinOf(to))
  BY DEF IsPin, PinOf
<1>2. Path(from, to) = <<PinOf(from), PinOf(to)>>
  BY DEF Path
<1> HIDE DEF Path
<1>3. Path(from, to)[1] = PinOf(from) /\ Path(from, to)[2] = PinOf(to)
  BY <1>2
<1>4. <<PinOf(from), PinOf(to)>> = [i \in 1..2 |-> <<PinOf(from), PinOf(to)>>[i]]
  BY PairPath
<1>5. QED
  BY <1>1, <1>2, <1>3, <1>4

(* A route from one end to another, as a command draws it.                 *)
IsNewRoute(one, kind, from, to) ==
  /\ DOMAIN one = RouteFields /\ one.kind = kind
  /\ one.ends = <<from, to>> /\ one.ends[1] = from /\ one.ends[2] = to
  /\ one.path = [i \in 1..2 |-> one.path[i]]
  /\ IsPin(plan, from, one.path[1]) /\ IsPin(plan, to, one.path[2])

(* The fields of a new route. *)
LEMMA NewRouteIs ==
  ASSUME NEW kind, NEW from, NEW to
  PROVE  IsNewRoute(NewRoute(kind, from, to, Path(from, to)), kind, from, to)
<1> DEFINE path == Path(from, to)
           one == NewRoute(kind, from, to, path)
<1>1. /\ path = [i \in 1..2 |-> path[i]]
      /\ IsPin(plan, from, path[1]) /\ IsPin(plan, to, path[2])
  BY PathIsPinned
<1> HIDE DEF path
<1>2. DOMAIN one = RouteFields /\ one.kind = kind /\ one.ends = <<from, to>> /\ one.path = path
  BY DEF NewRoute, RouteFields
<1>3. QED
  BY <1>1, <1>2 DEF IsNewRoute, path

(* A new route is there beside the others.                                 *)
RouteAdded(pl, q, one) ==
  /\ DOMAIN q.routes = DOMAIN pl.routes \cup {New} /\ q.routes[New] = one
  /\ \A r \in DOMAIN pl.routes : q.routes[r] = pl.routes[r]

(* A new route is added under the next id. *)
LEMMA PutRoute ==
  ASSUME RInv, NEW q, NEW one, q.routes = Put(plan.routes, New, one)
  PROVE  RouteAdded(plan, q, one)
  BY NewRouteIsFresh DEF RouteAdded, Put

(* It looks like a route, and the pins of all are where they were.         *)
LEMMA AddedShape ==
  ASSUME RInv, NEW q, NEW one, RouteAdded(plan, q, one),
         NEW kind, NEW from, NEW to, IsNewRoute(one, kind, from, to),
         q.switches = plan.switches, q.factories = plan.factories,
         DOMAIN q.ports = DOMAIN plan.ports,
         \A p \in DOMAIN plan.ports : q.ports[p].factory = plan.ports[p].factory
  PROVE  RouteShape(q, n) /\ Pinned(q) /\ Apart(q)
<1>1. /\ New # None /\ New[1] \in 1..n /\ n = made + 1 /\ New \notin DOMAIN plan.routes
      /\ made \in Nat
  BY NewRouteIsFresh, RInvFacts DEF Inv
<1>2. RouteShape(q, n)
  <2>0. Served(plan, made) /\ RouteAdded(plan, q, one) /\ IsNewRoute(one, kind, from, to)
    BY RInvFacts
  <2>1. RouteShape(plan, n)
    BY <1>1, <2>0, ServedLater DEF Served
  <2>2. ASSUME NEW r \in DOMAIN q.routes
        PROVE  /\ r # None /\ r[1] \in 1..n
               /\ DOMAIN q.routes[r] = RouteFields
               /\ q.routes[r].ends = <<q.routes[r].ends[1], q.routes[r].ends[2]>>
               /\ q.routes[r].path = [i \in 1..2 |-> q.routes[r].path[i]]
    <3>1. CASE r \in DOMAIN plan.routes
      <4>1. q.routes[r] = plan.routes[r]
        BY <2>0, <3>1 DEF RouteAdded
      <4>2. QED
        BY <2>1, <3>1, <4>1 DEF RouteShape
    <3>2. CASE r = New
      <4>1. q.routes[r] = one
        BY <2>0, <3>2 DEF RouteAdded
      <4>2. /\ DOMAIN one = RouteFields /\ one.ends = <<one.ends[1], one.ends[2]>>
            /\ one.path = [i \in 1..2 |-> one.path[i]]
        BY <2>0 DEF IsNewRoute
      <4>3. QED
        BY <1>1, <3>2, <4>1, <4>2
    <3>3. QED
      BY <2>0, <3>1, <3>2 DEF RouteAdded
  <2>3. \A s \in DOMAIN q.switches : s[1] \in 1..n /\ DOMAIN q.switches[s] = SwitchFields
    BY <2>1 DEF RouteShape
  <2>4. QED
    BY <2>2, <2>3 DEF RouteShape
<1>3. \A end, at : IsPin(plan, end, at) => IsPin(q, end, at)
  BY RInvFacts DEF IsPin
<1>4. Pinned(q)
  <2>1. ASSUME NEW r \in DOMAIN q.routes
        PROVE  /\ IsPin(q, q.routes[r].ends[1], q.routes[r].path[1])
               /\ IsPin(q, q.routes[r].ends[2], q.routes[r].path[2])
    <3>1. CASE r \in DOMAIN plan.routes
      BY <1>3, <3>1, RInvFacts DEF RouteAdded, Served, Pinned
    <3>2. CASE r = New
      BY <1>3, <3>2 DEF RouteAdded, IsNewRoute
    <3>3. QED
      BY <3>1, <3>2 DEF RouteAdded
  <2>2. QED
    BY <2>1, RInvFacts DEF RouteAdded, Served, Pinned
<1>5. Apart(q)
  BY RInvFacts DEF Served, Apart
<1>6. QED
  BY <1>2, <1>4, <1>5

(* A new power line is an edit. *)
LEMMA AddPowerLineEdits ==
  ASSUME RInv, NEW from, NEW to, AddPowerLine(from, to)
  PROVE  EditStep
<1> DEFINE q == plan'
           one == NewRoute("power", from, to, Path(from, to))
<1>0. /\ imports' = imports /\ made' = n
      /\ from \in DOMAIN plan.factories /\ to \in DOMAIN plan.factories /\ from # to
      /\ \A r \in DOMAIN plan.routes :
           plan.routes[r].kind = "power" => plan.routes[r].ends \notin {<<from, to>>, <<to, from>>}
  BY DEF AddPowerLine, Create, Issue, IsPower
<1>1. /\ q.factories = plan.factories /\ q.groups = plan.groups /\ q.guides = plan.guides
      /\ q.edges = plan.edges /\ q.claims = plan.claims /\ q.ports = plan.ports
      /\ q.switches = plan.switches /\ q.marks = plan.marks
      /\ q.routes = Put(plan.routes, New, one)
  BY RInvFacts DEF AddPowerLine, Create, Issue, PlanFields, Collection
<1>2. IsNewRoute(one, "power", from, to)
  BY NewRouteIs
<1> HIDE DEF q, one
<1>3. RouteAdded(plan, q, one) /\ New \notin DOMAIN plan.routes
  BY <1>1, PutRoute, NewRouteIsFresh
<1>4. RouteShape(q, n) /\ Pinned(q) /\ Apart(q)
  BY <1>1, <1>2, <1>3, AddedShape
<1>5. ASSUME NEW x \in DOMAIN plan.routes, plan.routes[x].kind = "power"
      PROVE  /\ ~(plan.routes[x].ends[1] = from /\ plan.routes[x].ends[2] = to)
             /\ ~(plan.routes[x].ends[1] = to /\ plan.routes[x].ends[2] = from)
  <2>1. plan.routes[x].ends = <<plan.routes[x].ends[1], plan.routes[x].ends[2]>>
    BY RInvFacts DEF Served, RouteShape
  <2>2. plan.routes[x].ends # <<from, to>> /\ plan.routes[x].ends # <<to, from>>
    BY <1>0, <1>5
  <2>3. QED
    BY <2>1, <2>2
<1>6. one.kind = "power" /\ one.ends[1] = from /\ one.ends[2] = to
  BY <1>2 DEF IsNewRoute
<1>7. Power(q, New, from, to)
  BY <1>0, <1>1, <1>3, <1>5, <1>6 DEF Power, RouteAdded
<1>8. ASSUME NEW r \in DOMAIN plan.routes, plan.routes[r].kind = "power",
             NEW a, NEW b, a = plan.routes[r].ends[1], b = plan.routes[r].ends[2],
             Power(plan, r, a, b)
      PROVE  Power(q, r, a, b)
  <2>1. ~(from = a /\ to = b) /\ ~(from = b /\ to = a)
    BY <1>5, <1>8
  <2>2. QED
    BY <1>1, <1>3, <1>6, <1>8, <2>1 DEF Power, RouteAdded
<1>9. \A r, a, b : Cargo(plan, r, a, b) => Cargo(q, r, a, b)
  BY <1>1 DEF Cargo
<1>10. Bound(q)
  <2>1. ASSUME NEW r \in DOMAIN q.routes
        PROVE  /\ q.routes[r].kind = "power" => Power(q, r, q.routes[r].ends[1], q.routes[r].ends[2])
               /\ q.routes[r].kind # "power" => Cargo(q, r, q.routes[r].ends[1], q.routes[r].ends[2])
    <3>1. CASE r \in DOMAIN plan.routes
      <4>1. q.routes[r] = plan.routes[r]
        BY <1>3, <3>1 DEF RouteAdded
      <4>2. /\ plan.routes[r].kind = "power" => Power(plan, r, plan.routes[r].ends[1], plan.routes[r].ends[2])
            /\ plan.routes[r].kind # "power" => Cargo(plan, r, plan.routes[r].ends[1], plan.routes[r].ends[2])
        BY <3>1, RInvFacts DEF Served, Bound
      <4>3. QED
        BY <1>8, <1>9, <3>1, <4>1, <4>2
    <3>2. CASE r = New
      BY <1>3, <1>6, <1>7, <3>2 DEF RouteAdded
    <3>3. QED
      BY <1>3, <3>1, <3>2 DEF RouteAdded
  <2>2. ASSUME NEW p \in DOMAIN q.ports, q.ports[p].route # None
        PROVE  /\ q.ports[p].route \in DOMAIN q.routes
               /\ p \in {q.routes[q.ports[p].route].ends[1], q.routes[q.ports[p].route].ends[2]}
    <3>1. /\ plan.ports[p].route \in DOMAIN plan.routes
          /\ p \in {plan.routes[plan.ports[p].route].ends[1], plan.routes[plan.ports[p].route].ends[2]}
      BY <1>1, <2>2, RInvFacts DEF Served, Bound
    <3>2. QED
      BY <1>1, <1>3, <3>1 DEF RouteAdded
  <2>3. QED
    BY <2>1, <2>2 DEF Bound
<1>11. q.marks \subseteq Standing(q)
  BY <1>1, <1>3, RInvFacts DEF RouteAdded, Linked, Linking, Standing
<1>12. Served(q, n)
  BY <1>4, <1>10 DEF Served
<1>13. QED
  BY <1>0, <1>1, <1>11, <1>12, RouteEdits DEF q

(* Both ends of a new cargo route were free: they are its ports from now on. *)
LEMMA AddCargoRouteEdits ==
  ASSUME RInv, NEW kind, kind # "power", NEW from, NEW to, AddCargoRoute(kind, from, to)
  PROVE  EditStep
<1> DEFINE q == plan'
           one == NewRoute(kind, from, to, Path(from, to))
           half == [plan.ports EXCEPT ![from].route = New]
<1>0. /\ imports' = imports /\ made' = n
      /\ from \in DOMAIN plan.ports /\ to \in DOMAIN plan.ports /\ from # to
      /\ plan.ports[from].dir = "out" /\ plan.ports[to].dir = "in"
      /\ plan.ports[from].item = plan.ports[to].item
      /\ plan.ports[from].route = None /\ plan.ports[to].route = None
  BY DEF AddCargoRoute, Create, Issue
<1>1. /\ q.factories = plan.factories /\ q.groups = plan.groups /\ q.guides = plan.guides
      /\ q.edges = plan.edges /\ q.claims = plan.claims
      /\ q.switches = plan.switches /\ q.marks = plan.marks
      /\ q.routes = Put(plan.routes, New, one)
      /\ q.ports = [half EXCEPT ![to].route = New]
  BY RInvFacts DEF AddCargoRoute, Create, Issue, PlanFields, Collection
<1>2. IsNewRoute(one, kind, from, to)
  BY NewRouteIs
<1>3. /\ DOMAIN plan.ports[from] = PortFields /\ DOMAIN plan.ports[to] = PortFields
  BY <1>0, RInvFacts
<1>h. /\ DOMAIN half = DOMAIN plan.ports
      /\ \A p \in DOMAIN plan.ports : p # from => half[p] = plan.ports[p]
      /\ half[from] = [plan.ports[from] EXCEPT !.route = New]
  BY <1>0
<1> HIDE DEF q, one, half
<1>4. /\ DOMAIN q.ports = DOMAIN plan.ports
      /\ \A p \in DOMAIN plan.ports : p # from /\ p # to => q.ports[p] = plan.ports[p]
      /\ q.ports[from] = [plan.ports[from] EXCEPT !.route = New]
      /\ q.ports[to] = [plan.ports[to] EXCEPT !.route = New]
  BY <1>0, <1>1, <1>h
<1>5. /\ SamePort(plan, q, from) /\ q.ports[from].route = New
      /\ SamePort(plan, q, to) /\ q.ports[to].route = New
  BY <1>3, <1>4 DEF SamePort, PortFields
<1>6. /\ \A p \in DOMAIN plan.ports : SamePort(plan, q, p)
      /\ \A p \in DOMAIN plan.ports : p # from /\ p # to => q.ports[p].route = plan.ports[p].route
  BY <1>4, <1>5 DEF SamePort
<1>7. /\ RouteAdded(plan, q, one) /\ New \notin DOMAIN plan.routes /\ New # None
      /\ Served(plan, made) /\ None \notin DOMAIN plan.routes
  BY <1>1, PutRoute, NewRouteIsFresh, RInvFacts DEF Served, RouteShape
<1>8. \A p \in DOMAIN plan.ports :
        /\ q.ports[p].factory = plan.ports[p].factory
        /\ q.ports[p].built = plan.ports[p].built
  BY <1>6 DEF SamePort
<1>9. RouteShape(q, n) /\ Pinned(q) /\ Apart(q)
  BY <1>1, <1>2, <1>4, <1>7, <1>8, AddedShape
<1>10. one.kind # "power" /\ one.ends[1] = from /\ one.ends[2] = to
  BY <1>2 DEF IsNewRoute
<1>11. Cargo(q, New, from, to)
  BY <1>0, <1>4, <1>5 DEF Cargo, SamePort
<1>12. ASSUME NEW r \in DOMAIN plan.routes, NEW a, NEW b, Cargo(plan, r, a, b)
       PROVE  Cargo(q, r, a, b)
  <2>1. a # from /\ a # to /\ b # from /\ b # to
    BY <1>0, <1>7, <1>12 DEF Cargo
  <2>2. QED
    BY <1>4, <1>12, <2>1 DEF Cargo
<1>13. \A r, a, b : Power(plan, r, a, b) => Power(q, r, a, b)
  BY <1>1, <1>7, <1>10 DEF Power, RouteAdded
<1>14. Bound(q)
  <2>1. ASSUME NEW r \in DOMAIN q.routes
        PROVE  /\ q.routes[r].kind = "power" => Power(q, r, q.routes[r].ends[1], q.routes[r].ends[2])
               /\ q.routes[r].kind # "power" => Cargo(q, r, q.routes[r].ends[1], q.routes[r].ends[2])
    <3>1. CASE r \in DOMAIN plan.routes
      <4>1. q.routes[r] = plan.routes[r]
        BY <1>7, <3>1 DEF RouteAdded
      <4>2. /\ plan.routes[r].kind = "power" => Power(plan, r, plan.routes[r].ends[1], plan.routes[r].ends[2])
            /\ plan.routes[r].kind # "power" => Cargo(plan, r, plan.routes[r].ends[1], plan.routes[r].ends[2])
        BY <3>1, RInvFacts DEF Served, Bound
      <4>3. QED
        BY <1>12, <1>13, <3>1, <4>1, <4>2
    <3>2. CASE r = New
      BY <1>7, <1>10, <1>11, <3>2 DEF RouteAdded
    <3>3. QED
      BY <1>7, <3>1, <3>2 DEF RouteAdded
  <2>2. ASSUME NEW p \in DOMAIN q.ports, q.ports[p].route # None
        PROVE  /\ q.ports[p].route \in DOMAIN q.routes
               /\ p \in {q.routes[q.ports[p].route].ends[1], q.routes[q.ports[p].route].ends[2]}
    <3>1. CASE p = from \/ p = to
      BY <1>5, <1>7, <1>10, <3>1 DEF RouteAdded
    <3>2. CASE p # from /\ p # to
      <4>1. p \in DOMAIN plan.ports /\ q.ports[p].route = plan.ports[p].route
        BY <1>4, <3>2
      <4>2. /\ plan.ports[p].route \in DOMAIN plan.routes
            /\ p \in {plan.routes[plan.ports[p].route].ends[1], plan.routes[plan.ports[p].route].ends[2]}
        BY <2>2, <4>1, <1>7 DEF Served, Bound
      <4>3. QED
        BY <1>7, <4>1, <4>2 DEF RouteAdded
    <3>3. QED
      BY <3>1, <3>2
  <2>3. QED
    BY <2>1, <2>2 DEF Bound
<1>15. q.marks \subseteq Standing(q)
  BY <1>1, <1>7, RInvFacts DEF RouteAdded, Linked, Linking, Standing
<1>16. Served(q, n)
  BY <1>9, <1>14 DEF Served
<1>17. QED
  BY <1>0, <1>1, <1>4, <1>8, <1>15, <1>16, RouteEdits DEF q

(* A respecified route is a cargo route before and after.                  *)
LEMMA SetRouteSpecEdits ==
  ASSUME RInv, NEW r, NEW kind, SetRouteSpec(r, kind)
  PROVE  EditStep
<1> DEFINE q == plan'
<1>0. /\ imports' = imports /\ made' = made
      /\ r \in DOMAIN plan.routes /\ plan.routes[r].kind # "power" /\ kind # "power"
  BY DEF SetRouteSpec, Edit, Respeccable
<1>1. /\ q.factories = plan.factories /\ q.groups = plan.groups /\ q.guides = plan.guides
      /\ q.edges = plan.edges /\ q.claims = plan.claims /\ q.ports = plan.ports
      /\ q.switches = plan.switches /\ q.marks = plan.marks
      /\ q.routes = [plan.routes EXCEPT ![r].kind = kind]
  BY RInvFacts DEF SetRouteSpec, Edit, PlanFields, Collection
<1>2. Served(plan, made) /\ DOMAIN plan.routes[r] = RouteFields
  BY <1>0, RInvFacts DEF Served, RouteShape
<1> HIDE DEF q
<1>3. /\ DOMAIN q.routes = DOMAIN plan.routes
      /\ \A x \in DOMAIN plan.routes : x # r => q.routes[x] = plan.routes[x]
      /\ DOMAIN q.routes[r] = RouteFields /\ q.routes[r].kind = kind
      /\ q.routes[r].ends = plan.routes[r].ends /\ q.routes[r].path = plan.routes[r].path
  BY <1>0, <1>1, <1>2 DEF RouteFields
<1>4. \A x \in DOMAIN plan.routes :
        /\ DOMAIN q.routes[x] = RouteFields
        /\ q.routes[x].ends = plan.routes[x].ends /\ q.routes[x].path = plan.routes[x].path
        /\ q.routes[x].kind = "power" <=> plan.routes[x].kind = "power"
  BY <1>0, <1>2, <1>3 DEF Served, RouteShape
<1>5. RouteShape(q, made)
  <2>1. ASSUME NEW x \in DOMAIN q.routes
        PROVE  /\ x # None /\ x[1] \in 1..made
               /\ DOMAIN q.routes[x] = RouteFields
               /\ q.routes[x].ends = <<q.routes[x].ends[1], q.routes[x].ends[2]>>
               /\ q.routes[x].path = [i \in 1..2 |-> q.routes[x].path[i]]
    <3>1. /\ x \in DOMAIN plan.routes /\ DOMAIN q.routes[x] = RouteFields
          /\ q.routes[x].ends = plan.routes[x].ends /\ q.routes[x].path = plan.routes[x].path
      BY <1>3, <1>4
    <3>2. /\ x # None /\ x[1] \in 1..made
          /\ plan.routes[x].ends = <<plan.routes[x].ends[1], plan.routes[x].ends[2]>>
          /\ plan.routes[x].path = [i \in 1..2 |-> plan.routes[x].path[i]]
      BY <1>2, <3>1 DEF Served, RouteShape
    <3>3. QED
      BY <3>1, <3>2
  <2>2. \A s \in DOMAIN q.switches : s[1] \in 1..made /\ DOMAIN q.switches[s] = SwitchFields
    BY <1>1, <1>2 DEF Served, RouteShape
  <2>3. QED
    BY <2>1, <2>2 DEF RouteShape
<1>6. Apart(q)
  BY <1>1, <1>2 DEF Served, Apart
<1>7. Bound(q)
  <2>1. \A x, a, b : Cargo(plan, x, a, b) => Cargo(q, x, a, b)
    BY <1>1 DEF Cargo
  <2>2. \A x, a, b : Power(plan, x, a, b) => Power(q, x, a, b)
    BY <1>1, <1>3, <1>4 DEF Power
  <2>3. Bound(plan)
    BY <1>2 DEF Served
  <2>4. QED
    BY SMTT(30), <1>1, <1>3, <1>4, <2>1, <2>2, <2>3 DEF Bound
<1>8. Pinned(q)
  <2>1. \A end, at : IsPin(plan, end, at) => IsPin(q, end, at)
    BY <1>1 DEF IsPin
  <2>2. Pinned(plan)
    BY <1>2 DEF Served
  <2>3. QED
    BY SMTT(30), <1>1, <1>3, <1>4, <2>1, <2>2 DEF Pinned
<1>9. q.marks \subseteq Standing(q)
  BY <1>1, <1>3, RInvFacts DEF Linked, Linking, Standing
<1>10. Served(q, made)
  BY <1>5, <1>6, <1>7, <1>8 DEF Served
<1>11. QED
  BY <1>0, <1>1, <1>9, <1>10, RouteEdits DEF q

(* A new switch sits at the midpoint of its line.                          *)
LEMMA AddPrioritySwitchEdits ==
  ASSUME RInv, NEW r, AddPrioritySwitch(r)
  PROVE  EditStep
<1> DEFINE q == plan'
           one == [route |-> r, at |-> Midpoint(plan.routes[r].path)]
<1>0. /\ imports' = imports /\ made' = n
      /\ r \in DOMAIN plan.routes /\ plan.routes[r].kind = "power"
  BY DEF AddPrioritySwitch, Create, Issue, IsPower
<1>1. /\ q.factories = plan.factories /\ q.groups = plan.groups /\ q.guides = plan.guides
      /\ q.edges = plan.edges /\ q.claims = plan.claims /\ q.ports = plan.ports
      /\ q.routes = plan.routes /\ q.marks = plan.marks
      /\ q.switches = Put(plan.switches, New, one)
  BY RInvFacts DEF AddPrioritySwitch, Create, Issue, PlanFields, Collection
<1>2. /\ DOMAIN one = SwitchFields /\ one.route = r /\ one.at = Midpoint(plan.routes[r].path)
  BY DEF SwitchFields
<1>3. /\ New \notin DOMAIN plan.switches /\ New[1] \in 1..n /\ n = made + 1 /\ made \in Nat
      /\ Served(plan, made)
  BY NewRouteIsFresh, RInvFacts DEF Inv
<1> HIDE DEF q, one
<1>4. /\ DOMAIN q.switches = DOMAIN plan.switches \cup {New} /\ q.switches[New] = one
      /\ \A s \in DOMAIN plan.switches : q.switches[s] = plan.switches[s]
  BY <1>1, <1>3 DEF Put
<1>5. RouteShape(plan, n)
  BY <1>3, ServedLater DEF Served
<1>6. RouteShape(q, n)
  BY <1>1, <1>2, <1>3, <1>4, <1>5 DEF RouteShape
<1>7. Apart(q) /\ Bound(q)
  <2>1. \A x, a, b : Cargo(plan, x, a, b) => Cargo(q, x, a, b)
    BY <1>1 DEF Cargo
  <2>2. \A x, a, b : Power(plan, x, a, b) => Power(q, x, a, b)
    BY <1>1 DEF Power
  <2>3. Bound(plan) /\ Apart(plan)
    BY <1>3 DEF Served
  <2>4. Apart(q)
    BY <1>1, <2>3 DEF Apart
  <2>5. QED
    BY <1>1, <2>1, <2>2, <2>3, <2>4 DEF Bound
<1>8. Pinned(q)
  <2>1. \A end, at : IsPin(plan, end, at) => IsPin(q, end, at)
    BY <1>1 DEF IsPin
  <2>2. Pinned(plan)
    BY <1>3 DEF Served
  <2>3. QED
    BY <1>0, <1>1, <1>2, <1>4, <2>1, <2>2 DEF Pinned
<1>9. q.marks \subseteq Standing(q)
  BY <1>1, RInvFacts DEF Linked, Linking, Standing
<1>10. Served(q, n)
  BY <1>6, <1>7, <1>8 DEF Served
<1>11. QED
  BY <1>0, <1>1, <1>9, <1>10, RouteEdits DEF q

(* Moving a planned factory moves the ends of its routes, and the switches
   on its power lines.                                                     *)
LEMMA MovedPathIs ==
  ASSUME NEW r, NEW f, NEW at, r.path = [i \in 1..2 |-> r.path[i]]
  PROVE  /\ MovedPath(r, f, at) = [i \in 1..2 |-> MovedPath(r, f, at)[i]]
         /\ OnFactory(r.ends[1], f) => MovedPath(r, f, at)[1] = at
         /\ ~OnFactory(r.ends[1], f) => MovedPath(r, f, at)[1] = r.path[1]
         /\ OnFactory(r.ends[2], f) => MovedPath(r, f, at)[2] = at
         /\ ~OnFactory(r.ends[2], f) => MovedPath(r, f, at)[2] = r.path[2]
         /\ ~OnFactory(r.ends[1], f) /\ ~OnFactory(r.ends[2], f)
              => MovedPath(r, f, at) = r.path
<1>1. DOMAIN r.path = 1..2
  OBVIOUS
<1> DEFINE on(i) == OnFactory(r.ends[i], f)
           p == MovedPath(r, f, at)
<1>2. p = [i \in 1..2 |-> IF on(i) THEN at ELSE r.path[i]]
  BY <1>1 DEF MovedPath
<1> HIDE DEF on, p
<1>3. /\ p = [i \in 1..2 |-> p[i]]
      /\ \A i \in 1..2 : (on(i) => p[i] = at) /\ (~on(i) => p[i] = r.path[i])
  BY <1>2
<1>4. ~on(1) /\ ~on(2) => \A i \in 1..2 : p[i] = r.path[i]
  BY <1>3
<1>5. ~on(1) /\ ~on(2) => p = r.path
  BY <1>3, <1>4
<1>6. QED
  BY <1>3, <1>5 DEF on, p

(* A moved factory, and the route paths that follow it, are an edit. *)
LEMMA MoveFactoryPinEdits ==
  ASSUME RInv, Inv', NEW f, NEW at, MoveFactoryPin(f, at)
  PROVE  EditStep
<1> DEFINE q == plan'
           path(r) == MovedPath(plan.routes[r], f, at)
           hit(r) == OnFactory(plan.routes[r].ends[1], f) \/ OnFactory(plan.routes[r].ends[2], f)
<1>0. /\ imports' = imports /\ made' = made
      /\ f \in DOMAIN plan.factories /\ plan.factories[f].built # TRUE
  BY DEF MoveFactoryPin, Edit, Planned
<1>1. /\ q.factories = [plan.factories EXCEPT ![f].at = at]
      /\ q.groups = plan.groups /\ q.guides = plan.guides
      /\ q.edges = plan.edges /\ q.claims = plan.claims /\ q.ports = plan.ports
      /\ q.marks = plan.marks
      /\ q.routes = [r \in DOMAIN plan.routes |->
                       [plan.routes[r] EXCEPT !.path = MovedPath(plan.routes[r], f, at)]]
  BY RInvFacts DEF MoveFactoryPin, Edit, Moved, PlanFields, Collection
<1>2. /\ DOMAIN q.switches = DOMAIN plan.switches
      /\ \A s \in DOMAIN plan.switches :
           /\ hit(plan.switches[s].route) =>
                q.switches[s] = [plan.switches[s] EXCEPT !.at = Midpoint(path(plan.switches[s].route))]
           /\ ~hit(plan.switches[s].route) => q.switches[s] = plan.switches[s]
  <2>1. q.switches = [s \in DOMAIN plan.switches |->
                       IF \E i \in 1..2 : OnFactory(plan.routes[plan.switches[s].route].ends[i], f)
                       THEN [plan.switches[s] EXCEPT !.at = Midpoint(path(plan.switches[s].route))]
                       ELSE plan.switches[s]]
    BY RInvFacts DEF MoveFactoryPin, Edit, Moved, PlanFields, Collection
  <2>2. \A r : hit(r) <=> \E i \in 1..2 : OnFactory(plan.routes[r].ends[i], f)
    OBVIOUS
  <2> HIDE DEF hit, path
  <2>3. QED
    BY <2>1, <2>2
<1>3. Served(plan, made) /\ RouteShape(plan, made)
  BY RInvFacts DEF Served
<1>4. DOMAIN plan.factories[f] = FactoryFields
  BY <1>0, RInvFacts
<1> HIDE DEF q
<1>5. /\ DOMAIN q.factories = DOMAIN plan.factories
      /\ q.factories[f].at = at
      /\ \A x \in DOMAIN plan.factories : x # f => q.factories[x] = plan.factories[x]
      /\ q.factories[f].guide = plan.factories[f].guide
      /\ q.factories[f].replaces = plan.factories[f].replaces
      /\ q.factories[f].built = plan.factories[f].built
  BY <1>0, <1>1, <1>4 DEF FactoryFields
<1>6. DOMAIN q.routes = DOMAIN plan.routes
  BY <1>1
<1>7. ASSUME NEW r \in DOMAIN plan.routes
      PROVE  /\ DOMAIN q.routes[r] = RouteFields
             /\ q.routes[r].kind = plan.routes[r].kind
             /\ q.routes[r].ends = plan.routes[r].ends
             /\ q.routes[r].path = path(r)
             /\ path(r) = [i \in 1..2 |-> path(r)[i]]
  <2>1. DOMAIN plan.routes[r] = RouteFields /\ plan.routes[r].path = [i \in 1..2 |-> plan.routes[r].path[i]]
    BY <1>3 DEF RouteShape
  <2>2. path(r) = [i \in 1..2 |-> path(r)[i]]
    BY <2>1, MovedPathIs
  <2>3. q.routes[r] = [plan.routes[r] EXCEPT !.path = path(r)]
    BY <1>1
  <2> HIDE DEF path
  <2>4. QED
    BY <2>1, <2>2, <2>3 DEF RouteFields
<1>8. ASSUME NEW s \in DOMAIN plan.switches
      PROVE  /\ DOMAIN q.switches[s] = SwitchFields
             /\ q.switches[s].route = plan.switches[s].route
             /\ q.switches[s].route \in DOMAIN plan.routes
             /\ plan.routes[q.switches[s].route].kind = "power"
             /\ q.switches[s].at = Midpoint(path(q.switches[s].route))
  <2> DEFINE r == plan.switches[s].route
  <2>1. /\ DOMAIN plan.switches[s] = SwitchFields /\ r \in DOMAIN plan.routes
        /\ plan.routes[r].kind = "power"
        /\ plan.switches[s].at = Midpoint(plan.routes[r].path)
        /\ plan.routes[r].path = [i \in 1..2 |-> plan.routes[r].path[i]]
    BY <1>3 DEF Served, Pinned, RouteShape
  <2> DEFINE one == plan.routes[r]
  <2>2. ~hit(r) => path(r) = one.path
    <3>1. one.path = [i \in 1..2 |-> one.path[i]]
      BY <2>1
    <3> HIDE DEF one
    <3>2. ~OnFactory(one.ends[1], f) /\ ~OnFactory(one.ends[2], f) => MovedPath(one, f, at) = one.path
      BY <3>1, MovedPathIs
    <3>3. QED
      BY <3>2 DEF one
  <2>3. /\ hit(r) => q.switches[s] = [plan.switches[s] EXCEPT !.at = Midpoint(path(r))]
        /\ ~hit(r) => q.switches[s] = plan.switches[s]
    BY <1>2
  <2> HIDE DEF path, hit
  <2>4. QED
    BY <2>1, <2>2, <2>3 DEF SwitchFields
<1>9. RouteShape(q, made)
  <2>1. ASSUME NEW r \in DOMAIN q.routes
        PROVE  /\ r # None /\ r[1] \in 1..made
               /\ DOMAIN q.routes[r] = RouteFields
               /\ q.routes[r].ends = <<q.routes[r].ends[1], q.routes[r].ends[2]>>
               /\ q.routes[r].path = [i \in 1..2 |-> q.routes[r].path[i]]
    <3> HIDE DEF path
    <3>1. /\ r \in DOMAIN plan.routes /\ DOMAIN q.routes[r] = RouteFields
          /\ q.routes[r].ends = plan.routes[r].ends /\ q.routes[r].path = path(r)
          /\ path(r) = [i \in 1..2 |-> path(r)[i]]
      BY <1>6, <1>7
    <3>2. /\ r # None /\ r[1] \in 1..made
          /\ plan.routes[r].ends = <<plan.routes[r].ends[1], plan.routes[r].ends[2]>>
      BY <1>3, <3>1 DEF RouteShape
    <3>3. QED
      BY <3>1, <3>2
  <2>2. \A s \in DOMAIN q.switches : s[1] \in 1..made /\ DOMAIN q.switches[s] = SwitchFields
    BY <1>2, <1>3, <1>8 DEF RouteShape
  <2>3. QED
    BY <2>1, <2>2 DEF RouteShape
<1>10. Apart(q)
  BY <1>1, <1>3, <1>5 DEF Served, Apart
<1>11. Bound(q)
  <2> HIDE DEF path
  <2>1. \A x, a, b : Cargo(plan, x, a, b) => Cargo(q, x, a, b)
    BY <1>1 DEF Cargo
  <2>2. \A x, a, b : Power(plan, x, a, b) => Power(q, x, a, b)
    BY <1>5, <1>6, <1>7 DEF Power
  <2>3. Bound(plan)
    BY <1>3 DEF Served
  <2>4. QED
    BY SMTT(30), <1>1, <1>6, <1>7, <2>1, <2>2, <2>3 DEF Bound
<1>12. ASSUME NEW end, NEW old, NEW new, IsPin(plan, end, old),
              end \in DOMAIN plan.ports \/ end \in DOMAIN plan.factories,
              OnFactory(end, f) => new = at, ~OnFactory(end, f) => new = old
       PROVE  IsPin(q, end, new)
  <2>1. CASE end \in DOMAIN plan.ports
    <3>1. plan.ports[end].factory \in DOMAIN plan.factories
      BY <2>1, RInvFacts DEF Lists
    <3>2. end # f
      BY <1>0, <1>3, <2>1 DEF Served, Apart
    <3>3. OnFactory(end, f) <=> plan.ports[end].factory = f
      BY <2>1, <3>2 DEF OnFactory
    <3>4. QED
      BY <1>1, <1>5, <1>12, <2>1, <3>1, <3>3 DEF IsPin
  <2>2. CASE end \notin DOMAIN plan.ports
    BY <1>1, <1>5, <1>12, <2>2 DEF IsPin, OnFactory
  <2>3. QED
    BY <2>1, <2>2
<1>13. Pinned(q)
  <2>1. ASSUME NEW r \in DOMAIN q.routes
        PROVE  /\ IsPin(q, q.routes[r].ends[1], q.routes[r].path[1])
               /\ IsPin(q, q.routes[r].ends[2], q.routes[r].path[2])
    <3> DEFINE one == plan.routes[r]
    <3>1. /\ r \in DOMAIN plan.routes /\ q.routes[r].ends = one.ends
          /\ q.routes[r].path = path(r) /\ one.path = [i \in 1..2 |-> one.path[i]]
      BY <1>3, <1>6, <1>7 DEF RouteShape
    <3>2. /\ OnFactory(one.ends[1], f) => path(r)[1] = at
          /\ ~OnFactory(one.ends[1], f) => path(r)[1] = one.path[1]
          /\ OnFactory(one.ends[2], f) => path(r)[2] = at
          /\ ~OnFactory(one.ends[2], f) => path(r)[2] = one.path[2]
      BY <3>1, MovedPathIs
    <3>3. IsPin(plan, one.ends[1], one.path[1]) /\ IsPin(plan, one.ends[2], one.path[2])
      BY <1>3, <3>1 DEF Served, Pinned
    <3>4. Cargo(plan, r, one.ends[1], one.ends[2]) \/ Power(plan, r, one.ends[1], one.ends[2])
      BY <1>3, <3>1 DEF Served, Bound
    <3>5. /\ one.ends[1] \in DOMAIN plan.ports \/ one.ends[1] \in DOMAIN plan.factories
          /\ one.ends[2] \in DOMAIN plan.ports \/ one.ends[2] \in DOMAIN plan.factories
      BY <3>4 DEF Cargo, Power
    <3> HIDE DEF path, one
    <3>6. IsPin(q, one.ends[1], path(r)[1]) /\ IsPin(q, one.ends[2], path(r)[2])
      BY <1>12, <3>2, <3>3, <3>5
    <3>7. QED
      BY <3>1, <3>6
  <2>2. ASSUME NEW s \in DOMAIN q.switches
        PROVE  /\ q.switches[s].route \in DOMAIN q.routes
               /\ q.routes[q.switches[s].route].kind = "power"
               /\ q.switches[s].at = Midpoint(q.routes[q.switches[s].route].path)
    <3> DEFINE r == q.switches[s].route
    <3>1. /\ r \in DOMAIN plan.routes /\ plan.routes[r].kind = "power"
          /\ q.switches[s].at = Midpoint(path(r))
      BY <1>2, <1>8
    <3>2. r \in DOMAIN q.routes /\ q.routes[r].kind = "power" /\ q.routes[r].path = path(r)
      BY <1>6, <1>7, <3>1
    <3> HIDE DEF path
    <3>3. QED
      BY <3>1, <3>2
  <2>3. QED
    BY <2>1, <2>2 DEF Pinned
<1>14. Served(q, made)
  BY <1>9, <1>10, <1>11, <1>13 DEF Served
<1>15. Linked(q)
  <2>1. q.marks \subseteq Standing(q)
    BY <1>1, <1>5, <1>6, RInvFacts DEF Linked, Linking, Standing
  <2>2. KeptLinks(plan, q)
    BY <1>1, <1>5, <2>1 DEF KeptLinks
  <2>3. QED
    BY <1>5, <2>2, RInvFacts, KeptLinked
<1>16. LayerStays(plan, q)
  <2>1. StayFactories(plan, q)
    BY <1>0, <1>5 DEF StayFactories
  <2>2. QED
    BY <1>1, <2>1, StayParts DEF LayerStays
<1>17. QED
  BY <1>0, <1>14, <1>15, <1>16 DEF EditStep, q

------------------------------------------------------------------------------
(* Imports and accepted drift items                                        *)

(* What the game adds or takes touches no route: only unbound ports come and
   go, and no pin, theme or replacement changes.                           *)
Grown(pl, q) ==
  /\ DOMAIN q.routes = DOMAIN pl.routes
  /\ \A r \in DOMAIN pl.routes : q.routes[r] = pl.routes[r]
  /\ DOMAIN q.switches = DOMAIN pl.switches
  /\ \A s \in DOMAIN pl.switches : q.switches[s] = pl.switches[s]
  /\ \A p \in DOMAIN q.ports :
       q.ports[p].route # None => p \in DOMAIN pl.ports /\ q.ports[p].route = pl.ports[p].route
  /\ \A p \in DOMAIN pl.ports :
       pl.ports[p].route # None =>
         /\ p \in DOMAIN q.ports /\ SamePort(pl, q, p)
         /\ q.ports[p].route = pl.ports[p].route
  /\ \A f \in DOMAIN pl.factories :
       /\ f \in DOMAIN q.factories
       /\ q.factories[f].at = pl.factories[f].at
       /\ q.factories[f].guide = pl.factories[f].guide
       /\ q.factories[f].replaces = pl.factories[f].replaces
       /\ q.factories[f].built = pl.factories[f].built
  /\ \A f \in DOMAIN q.factories :
       f \notin DOMAIN pl.factories => q.factories[f].guide = None /\ q.factories[f].replaces = None
  /\ q.guides = pl.guides /\ q.marks \subseteq Standing(q)
  /\ Apart(q)

(* What an import adds to the built layer keeps every route served. *)
LEMMA GrownServed ==
  ASSUME NEW pl, NEW m, Lists(pl), Served(pl, m), Linked(pl), NEW q, Lists(q), Grown(pl, q)
  PROVE  Served(q, m) /\ Linked(q)
<1>1. KeptRoutes(pl, q)
  BY DEF KeptRoutes, Grown, Served, Pinned
<1>2. KeptBindings(pl, q)
  <2>1. None \notin DOMAIN pl.routes /\ Bound(pl)
    BY DEF Served, RouteShape
  <2>2. ASSUME NEW p \in DOMAIN q.ports, q.ports[p].route # None
        PROVE  /\ p \in DOMAIN pl.ports /\ q.ports[p].route = pl.ports[p].route
               /\ pl.ports[p].route \in DOMAIN q.routes
    <3>1. p \in DOMAIN pl.ports /\ q.ports[p].route = pl.ports[p].route
      BY <2>2 DEF Grown
    <3>2. pl.ports[p].route \in DOMAIN pl.routes
      BY <2>1, <2>2, <3>1 DEF Bound
    <3>3. QED
      BY <3>1, <3>2 DEF Grown
  <2>3. ASSUME NEW p \in DOMAIN pl.ports, pl.ports[p].route \in DOMAIN q.routes
        PROVE  /\ p \in DOMAIN q.ports /\ SamePort(pl, q, p)
               /\ q.ports[p].route = pl.ports[p].route
    BY <2>1, <2>3 DEF Grown
  <2>4. QED
    BY <2>2, <2>3 DEF KeptBindings
<1>3. KeptPins(pl, q) /\ Apart(q)
  BY DEF KeptPins, Grown
<1>4. KeptLinks(pl, q)
  BY DEF KeptLinks, Grown
<1>5. Linked(q)
  BY <1>4, KeptLinked DEF Grown
<1>6. Served(q, m)
  BY <1>1, <1>2, <1>3, KeepsServed DEF Keeps
<1>7. QED
  BY <1>5, <1>6

(* A resync takes ports that no route is bound to, and no route.           *)
LEMMA ResyncServed ==
  ASSUME NEW pl, NEW k \in Nat \ {0}, Wired(pl, k), Served(pl, k), Linked(pl),
         NEW f \in DOMAIN pl.factories, pl.factories[f].built,
         \A p \in DOMAIN pl.ports : p[1] # k,
         \A e \in DOMAIN pl.edges : e[1] # k,
         \A x \in DOMAIN pl.factories : x[1] # k
  PROVE  LET q == Resync(pl, f, k)
         IN  Served(q, k) /\ Linked(q) /\ DOMAIN q.routes = DOMAIN pl.routes
<1> DEFINE gs    == BuiltGroups(pl, f)
           is    == Unported(pl, f, gs)
           kept  == {i \in Flowing(gs) : BuiltPortsFor(pl, f, i, Dir(gs, i)) # {}}
           port  == [i \in kept \cup is |->
                       IF i \in kept THEN CHOOSE p \in BuiltPortsFor(pl, f, i, Dir(gs, i)) : TRUE
                       ELSE <<k, "port", i>>]
           belts == {b \in InnerBelts(gs) \cup BoundaryBelts(gs, port) : ~Belted(pl, b)}
           dried == Dried(pl, f, gs)
           gone  == RoutesOf(pl, dried)
           rr    == RemoveRoutes(pl, gone)
           r     == RemovePorts(pl, f, dried)
           new   == BuiltPorts(k, f, gs, is)
           q     == Resync(pl, f, k)
<1>1. q = [r EXCEPT
            !.ports = PutAll(@, new),
            !.factories[f].ports = @ \cup DOMAIN new,
            !.edges = PutAll(@, BuiltBelts(k, f, belts))]
  BY DEF Resync
<1>2. Shape(pl) /\ Lists(pl)
  BY DEF Wired
<1>3. dried \subseteq pl.factories[f].ports /\ \A p \in dried : pl.ports[p].route = None
  BY DEF Dried
<1>4. gone = {}
  BY <1>3 DEF RoutesOf
<1>5. Wired(r, k) /\ Shape(r)
  BY <1>3, RemovePortsLess, LessWired DEF Wired
<1>6. Portless(pl, r, f, dried) /\ SameRoutes(r, rr) /\ RoutesGone(pl, rr, {})
  BY <1>2, <1>4, RemovePortsFields, RemoveRoutesGone
<1>7. \A p \in DOMAIN new : IsBuiltPort(k, f, gs, is, new, p)
  BY BuiltPortsAre
<1>8. Wired(q, k)
  BY ResyncWired
<1>9. DOMAIN pl.factories[f] = FactoryFields
  BY <1>2 DEF Shape
<1> HIDE DEF gs, is, kept, port, belts, dried, gone, rr, r, new, q
<1>10. DOMAIN r.factories = DOMAIN pl.factories
  BY <1>6 DEF Portless
<1>11. Wrote(r, q, f, new, BuiltBelts(k, f, belts))
  BY <1>1, <1>5, <1>10, WroteIs
<1>12. /\ \A p \in DOMAIN new : p[1] = k /\ new[p].route = None
       /\ DOMAIN new \cap DOMAIN pl.ports = {}
       /\ DOMAIN new \cap DOMAIN pl.factories = {}
  BY <1>7 DEF IsBuiltPort
<1>13. /\ DOMAIN r.ports = DOMAIN pl.ports \ dried
       /\ \A p \in DOMAIN r.ports : SamePort(pl, r, p) /\ r.ports[p].route = pl.ports[p].route
  <2>1. /\ DOMAIN r.ports = DOMAIN pl.ports \ dried
        /\ \A p \in DOMAIN r.ports : SamePort(pl, r, p) /\ r.ports[p] = rr.ports[p]
    BY <1>6 DEF Portless, SameRoutes
  <2>2. \A p \in DOMAIN pl.ports : rr.ports[p].route = pl.ports[p].route
    BY <1>6 DEF RoutesGone
  <2>3. QED
    BY <2>1, <2>2
<1>14. /\ DOMAIN q.ports = DOMAIN r.ports \cup DOMAIN new
       /\ \A p \in DOMAIN new : q.ports[p] = new[p]
       /\ \A p \in DOMAIN r.ports : q.ports[p] = r.ports[p]
  BY <1>11, <1>12, <1>13 DEF Wrote
<1>15. /\ \A p \in DOMAIN q.ports :
            q.ports[p].route # None => p \in DOMAIN pl.ports /\ q.ports[p].route = pl.ports[p].route
       /\ \A p \in DOMAIN pl.ports :
            pl.ports[p].route # None =>
              /\ p \in DOMAIN q.ports /\ SamePort(pl, q, p)
              /\ q.ports[p].route = pl.ports[p].route
  <2>1. ASSUME NEW p \in DOMAIN q.ports, q.ports[p].route # None
        PROVE  p \in DOMAIN pl.ports /\ q.ports[p].route = pl.ports[p].route
    BY <1>12, <1>13, <1>14, <2>1
  <2>2. ASSUME NEW p \in DOMAIN pl.ports, pl.ports[p].route # None
        PROVE  /\ p \in DOMAIN q.ports /\ SamePort(pl, q, p)
               /\ q.ports[p].route = pl.ports[p].route
    <3>1. p \in DOMAIN r.ports /\ q.ports[p] = r.ports[p] /\ p \in DOMAIN q.ports
      BY <1>3, <1>13, <1>14, <2>2
    <3>2. QED
      BY <1>13, <3>1 DEF SamePort
  <2>3. QED
    BY <2>1, <2>2
<1>16. /\ DOMAIN q.factories = DOMAIN pl.factories
       /\ \A x \in DOMAIN pl.factories :
            /\ q.factories[x].at = pl.factories[x].at
            /\ q.factories[x].guide = pl.factories[x].guide
            /\ q.factories[x].replaces = pl.factories[x].replaces
            /\ q.factories[x].built = pl.factories[x].built
  <2>1. /\ \A x \in DOMAIN pl.factories : x # f => q.factories[x] = pl.factories[x]
        /\ r.factories[f] = [pl.factories[f] EXCEPT !.ports = pl.factories[f].ports \ dried]
        /\ q.factories[f] = [r.factories[f] EXCEPT !.ports = r.factories[f].ports \cup DOMAIN new]
    BY <1>6, <1>10, <1>11 DEF Portless, Wrote
  <2>2. DOMAIN q.factories = DOMAIN pl.factories
    BY <1>10, <1>11 DEF Wrote
  <2>3. /\ q.factories[f].at = pl.factories[f].at
        /\ q.factories[f].guide = pl.factories[f].guide
        /\ q.factories[f].replaces = pl.factories[f].replaces
        /\ q.factories[f].built = pl.factories[f].built
    <3> DEFINE a == pl.factories[f]
               b == r.factories[f]
               c == q.factories[f]
               fewer == pl.factories[f].ports \ dried
               more == r.factories[f].ports \cup DOMAIN new
    <3>1. b = [a EXCEPT !.ports = fewer] /\ c = [b EXCEPT !.ports = more] /\ DOMAIN a = FactoryFields
      BY <1>9, <2>1
    <3> HIDE DEF a, b, c, fewer, more
    <3>2. /\ DOMAIN b = FactoryFields
          /\ b.at = a.at /\ b.guide = a.guide /\ b.replaces = a.replaces /\ b.built = a.built
      BY <3>1 DEF FactoryFields
    <3>3. c.at = b.at /\ c.guide = b.guide /\ c.replaces = b.replaces /\ c.built = b.built
      BY <3>1, <3>2 DEF FactoryFields
    <3>4. QED
      BY <3>2, <3>3 DEF a, b, c
  <2>4. QED
    BY <2>1, <2>2, <2>3
<1>17. /\ DOMAIN q.routes = DOMAIN pl.routes
       /\ \A x \in DOMAIN pl.routes : q.routes[x] = pl.routes[x]
       /\ DOMAIN q.switches = DOMAIN pl.switches
       /\ \A s \in DOMAIN pl.switches : q.switches[s] = pl.switches[s]
       /\ q.marks = pl.marks
  <2>1. q.routes = rr.routes /\ q.switches = rr.switches /\ q.marks = rr.marks
    BY <1>6, <1>11 DEF SameRoutes, Wrote
  <2>2. QED
    BY <1>6, <2>1 DEF RoutesGone
<1>18. /\ q.guides = pl.guides /\ q.groups = pl.groups /\ q.claims = pl.claims
  BY <1>6, <1>11 DEF Portless, Wrote
<1>19. q.marks \subseteq Standing(q)
  BY <1>16, <1>17, <1>18 DEF Linked, Linking, Standing
<1>20. Apart(q)
  <2>1. Apart(pl)
    BY DEF Served
  <2>2. QED
    BY <1>12, <1>13, <1>14, <1>16, <2>1 DEF Apart
<1>21. Grown(pl, q)
  BY <1>15, <1>16, <1>17, <1>18, <1>19, <1>20 DEF Grown
<1>22. Lists(q)
  BY <1>8 DEF Wired
<1>23. QED
  BY <1>2, <1>17, <1>21, <1>22, GrownServed DEF q

(* What an import or an accepted item makes of the plan before what it left
   behind dissolves.                                                       *)
Synced(q) == Wired(q, n) /\ Served(q, n) /\ Linking(q)

(* A group of the plan looks different, or is gone: the resync follows.    *)
LEMMA ResyncSynced ==
  ASSUME RInv, NEW q, Wired(q, n), Aside(plan, q),
         NEW f \in DOMAIN plan.factories, plan.factories[f].built,
         DOMAIN q.edges \subseteq DOMAIN plan.edges
  PROVE  Synced(Resync(q, f, n)) /\ DOMAIN Resync(q, f, n).routes = DOMAIN plan.routes
<1>1. /\ made \in Nat /\ n = made + 1 /\ n \in Nat \ {0}
      /\ Served(plan, n) /\ Issued(plan, made)
  <2>1. made \in Nat /\ Issued(plan, made)
    BY RInvFacts DEF Inv, Wired
  <2>2. n = made + 1 /\ n \in Nat \ {0}
    BY <2>1 DEF n
  <2>3. QED
    BY <2>1, <2>2, RInvFacts, ServedLater
<1>2. Keeps(plan, q) /\ Linked(q)
  BY RInvFacts, AsideKeeps
<1>3. Lists(q)
  BY DEF Wired
<1>4. Served(q, n)
  BY <1>1, <1>2, <1>3, RInvFacts, KeepsServed
<1>5. /\ q.ports = plan.ports /\ q.routes = plan.routes
      /\ DOMAIN q.factories = DOMAIN plan.factories
      /\ q.factories[f].built
  BY DEF Aside
<1>6. n \notin 1..made
  BY <1>1
<1>7. /\ \A p \in DOMAIN q.ports : p[1] # n
      /\ \A e \in DOMAIN q.edges : e[1] # n
      /\ \A x \in DOMAIN q.factories : x[1] # n
  BY <1>1, <1>5, <1>6 DEF Issued
<1>8. /\ Served(Resync(q, f, n), n) /\ Linked(Resync(q, f, n))
      /\ DOMAIN Resync(q, f, n).routes = DOMAIN q.routes
  BY <1>1, <1>2, <1>4, <1>5, <1>7, ResyncServed
<1>9. Wired(Resync(q, f, n), n)
  BY <1>1, <1>5, <1>7, ResyncWired
<1>10. QED
  BY <1>5, <1>8, <1>9 DEF Synced, Linked

(* A group of the plan is overwritten.                                     *)
LEMMA GroupSetAside ==
  ASSUME RInv, NEW g \in DOMAIN plan.groups, NEW one,
         DOMAIN one = GroupFields,
         one.factory = plan.groups[g].factory, one.built = plan.groups[g].built,
         NEW q, q = [plan EXCEPT !.groups = [plan.groups EXCEPT ![g] = one]]
  PROVE  Wired(q, n) /\ Aside(plan, q) /\ q.edges = plan.edges
<1>1. /\ q.factories = plan.factories /\ q.guides = plan.guides /\ q.ports = plan.ports
      /\ q.routes = plan.routes /\ q.switches = plan.switches /\ q.marks = plan.marks
      /\ q.claims = plan.claims /\ q.edges = plan.edges
      /\ q.groups = [plan.groups EXCEPT ![g] = one]
  BY RInvFacts DEF PlanFields, Collection
<1>2. DOMAIN q.groups = DOMAIN plan.groups
  BY <1>1
<1>3. Aside(plan, q)
  BY <1>1, <1>2, NoFactoryAside
<1>4. Same(plan, q)
  BY RInvFacts, GroupSetSame
<1>5. Wired(plan, n)
  BY RInvFacts, WiredLater DEF Inv, n
<1>6. QED
  BY <1>1, <1>3, <1>4, <1>5, SameWired

(* Syncing one group of a built factory keeps the routes served. *)
LEMMA SyncGroupSynced ==
  ASSUME RInv, NEW f \in DOMAIN plan.factories, plan.factories[f].built,
         NEW g \in DOMAIN plan.groups, NEW count, NEW takeSave
  PROVE  LET q == SyncGroup(plan, f, g, count, takeSave, n)
         IN  Synced(q) /\ DOMAIN q.routes = DOMAIN plan.routes
<1>1. CASE count = 0
  <2> DEFINE q == RemoveGroup(plan, g)
  <2>1. Aside(plan, q) /\ Less(plan, q)
    BY RInvFacts, RemoveGroupAside, RemoveGroupLess
  <2>2. Wired(plan, n)
    BY RInvFacts, WiredLater DEF Inv, n
  <2>3. Wired(q, n)
    BY <2>1, <2>2, LessWired
  <2>4. q.edges = Drop(plan.edges, Touching(plan, GroupEnd(g)))
    BY RInvFacts DEF RemoveGroup, PlanFields, Collection
  <2>5. SyncGroup(plan, f, g, count, takeSave, n) = Resync(q, f, n)
    BY <1>1 DEF SyncGroup
  <2> HIDE DEF q
  <2>6. DOMAIN q.edges \subseteq DOMAIN plan.edges
    BY <2>4 DEF Drop, Restrict
  <2>7. QED
    BY <2>1, <2>3, <2>5, <2>6, ResyncSynced
<1>2. CASE count # 0
  <2> DEFINE one == [plan.groups[g] EXCEPT !.count = count,
                                           !.mine = Rest(plan.groups[g].mine, count, takeSave)]
             q == [plan EXCEPT !.groups[g].count = count,
                               !.groups[g].mine = Rest(@, count, takeSave)]
  <2>1. q = [plan EXCEPT !.groups = [plan.groups EXCEPT ![g] = one]]
    BY RInvFacts DEF PlanFields, Collection, GroupFields
  <2>2. DOMAIN one = GroupFields /\ one.factory = plan.groups[g].factory /\ one.built = plan.groups[g].built
    BY RInvFacts DEF GroupFields
  <2>3. SyncGroup(plan, f, g, count, takeSave, n) = Resync(q, f, n)
    BY <1>2 DEF SyncGroup
  <2> HIDE DEF q, one
  <2>4. Wired(q, n) /\ Aside(plan, q) /\ q.edges = plan.edges
    BY <2>1, <2>2, GroupSetAside
  <2>5. QED
    BY <2>3, <2>4, ResyncSynced
<1>3. QED
  BY <1>1, <1>2

(* Refuelling a built generator keeps the routes served. *)
LEMMA RetuneSynced ==
  ASSUME RInv, NEW f \in DOMAIN plan.factories, plan.factories[f].built,
         NEW g \in DOMAIN plan.groups, NEW r, NEW count, NEW takeSave
  PROVE  LET q == Retune(plan, f, g, r, count, takeSave, n)
         IN  Synced(q) /\ DOMAIN q.routes = DOMAIN plan.routes
<1> DEFINE one == [plan.groups[g] EXCEPT !.recipe = r, !.count = count,
                                         !.mine = Rest(plan.groups[g].mine, count, takeSave)]
           q == [plan EXCEPT !.groups[g].recipe = r,
                             !.groups[g].count = count,
                             !.groups[g].mine = Rest(@, count, takeSave)]
<1>1. q = [plan EXCEPT !.groups = [plan.groups EXCEPT ![g] = one]]
  BY RInvFacts DEF PlanFields, Collection, GroupFields
<1>2. DOMAIN one = GroupFields /\ one.factory = plan.groups[g].factory /\ one.built = plan.groups[g].built
  BY RInvFacts DEF GroupFields
<1>3. Retune(plan, f, g, r, count, takeSave, n) = Resync(q, f, n)
  BY DEF Retune
<1> HIDE DEF q, one
<1>4. Wired(q, n) /\ Aside(plan, q) /\ q.edges = plan.edges
  BY <1>1, <1>2, GroupSetAside
<1>5. QED
  BY <1>3, <1>4, ResyncSynced

(* A group added in game keeps the routes served. *)
LEMMA SyncNewGroupSynced ==
  ASSUME RInv, NEW f \in DOMAIN plan.factories, plan.factories[f].built = TRUE, NEW r, NEW count
  PROVE  LET q == SyncNewGroup(plan, f, r, count, n)
         IN  Synced(q) /\ DOMAIN q.routes = DOMAIN plan.routes
<1> DEFINE one == NewGroup(f, r, count, TRUE)
           list == [plan.factories[f] EXCEPT !.groups = @ \cup {<<n>>}]
           q == [plan EXCEPT !.groups = Put(@, <<n>>, one),
                             !.factories[f].groups = @ \cup {<<n>>}]
<1>1. q = [plan EXCEPT !.groups = Put(plan.groups, <<n>>, one),
                       !.factories[f].groups = @ \cup {<<n>>}]
  BY RInvFacts DEF PlanFields, Collection
<1>2. DOMAIN one = GroupFields /\ one.factory = f /\ one.built = TRUE
  BY DEF NewGroup, GroupFields
<1>3. SyncNewGroup(plan, f, r, count, n) = Resync(q, f, n)
  BY DEF SyncNewGroup
<1>4. /\ q.factories = [plan.factories EXCEPT ![f] = list]
      /\ q.guides = plan.guides /\ q.ports = plan.ports
      /\ q.routes = plan.routes /\ q.switches = plan.switches
      /\ q.marks = plan.marks /\ q.claims = plan.claims /\ q.edges = plan.edges
      /\ q.groups = Put(plan.groups, <<n>>, one)
      /\ q.junctions = plan.junctions
  BY RInvFacts DEF PlanFields, Collection
<1>5. /\ list.at = plan.factories[f].at /\ list.guide = plan.factories[f].guide
      /\ list.replaces = plan.factories[f].replaces /\ list.built = plan.factories[f].built
  BY RInvFacts DEF FactoryFields
<1>6. /\ Wired(plan, n) /\ New \notin DOMAIN plan.groups /\ New[1] \in 1..n /\ New = <<n>>
  BY RInvFacts, WiredLater, NewRouteIsFresh, NewIsFresh DEF Inv, n, New
<1> HIDE DEF q, one, list
<1>7. More(plan, q)
  <2>1. one.built \in BOOLEAN /\ (one.built => plan.factories[f].built)
    BY <1>2
  <2>2. QED
    BY <1>1, <1>2, <1>6, <2>1, GroupPutMore
<1>8. DOMAIN q.groups = DOMAIN plan.groups \cup {New} /\ DOMAIN q.factories = DOMAIN plan.factories
  BY <1>4, <1>6 DEF Put
<1>9. Issued(q, n)
  BY <1>4, <1>6, <1>8 DEF Issued, Wired
<1>10. Wired(q, n)
  BY <1>6, <1>7, <1>9, MoreWired
<1>11. Aside(plan, q)
  <2>1. /\ q.marks \subseteq plan.marks
        /\ \A x \in DOMAIN plan.groups : x \in DOMAIN q.groups \/ x \notin q.marks
        /\ \A x \in DOMAIN plan.claims : x \in DOMAIN q.claims \/ x \notin q.marks
    BY <1>4, <1>8
  <2>2. Shape(plan) /\ Linked(plan)
    BY RInvFacts
  <2>3. QED
    BY <1>4, <1>5, <2>1, <2>2, ListsAside
<1>12. QED
  BY <1>3, <1>4, <1>10, <1>11, ResyncSynced

(* A factory demolished in game keeps the remaining routes served. *)
LEMMA RemoveFactorySynced ==
  ASSUME RInv, NEW f \in DOMAIN plan.factories
  PROVE  Synced(RemoveFactory(plan, f))
<1> DEFINE q == RemoveFactory(plan, f)
<1>1. made \in Nat /\ n = made + 1 /\ Wired(plan, n)
  BY RInvFacts, WiredLater DEF Inv, n
<1>2. Served(plan, n)
  BY <1>1, RInvFacts, ServedLater
<1>3. Wired(q, n)
  BY <1>1, RemoveFactoryLess, LessWired
<1>4. Keeps(plan, q)
  BY RInvFacts, RemoveFactoryKeeps
<1>5. KeptLinks(plan, q)
  BY RInvFacts, RemoveFactoryLinks
<1> HIDE DEF q
<1>6. Served(q, n)
  BY <1>2, <1>3, <1>4, RInvFacts, KeepsServed DEF Wired
<1>7. Linking(q)
  BY <1>5, RInvFacts, KeptLinking
<1>8. QED
  BY <1>3, <1>6, <1>7 DEF Synced, q

(* A site of a save stands beside everything: its ports are not bound.     *)
LEMMA WriteBuiltSynced ==
  ASSUME RInv, NEW c
  PROVE  LET q == WriteBuiltLayer(plan, n, c)
         IN  Synced(q) /\ Linked(q) /\ DOMAIN q.routes = DOMAIN plan.routes
<1> DEFINE f      == <<n>>
           gs     == [x \in {<<n, i>> : i \in DOMAIN c.groups} |->
                        NewGroup(f, c.groups[x[2]].recipe, c.groups[x[2]].count, TRUE)]
           is     == Flowing(gs)
           belts  == InnerBelts(gs) \cup BoundaryBelts(gs, [i \in is |-> <<n, "port", i>>])
           new    == BuiltPorts(n, f, gs, is)
           claims == [x \in {<<n, "claim", v>> : v \in c.nodes} |-> NewClaim(f, x[3], TRUE)]
           one    == [NewFactory(c.at, TRUE) EXCEPT
                        !.groups = DOMAIN gs, !.ports = DOMAIN new, !.claims = DOMAIN claims]
           q      == WriteBuiltLayer(plan, n, c)
<1>1. /\ q.groups = PutAll(plan.groups, gs)
      /\ q.ports = PutAll(plan.ports, new)
      /\ q.claims = PutAll(plan.claims, claims)
      /\ q.factories = Put(plan.factories, f, one)
      /\ q.routes = plan.routes /\ q.switches = plan.switches
      /\ q.guides = plan.guides /\ q.marks = plan.marks
  BY RInvFacts DEF WriteBuiltLayer, PlanFields, Collection
<1>2. \A p \in DOMAIN new : IsBuiltPort(n, f, gs, is, new, p)
  BY BuiltPortsAre
<1>3. one.guide = None /\ one.replaces = None
  BY DEF NewFactory
<1>4. /\ made \in Nat /\ n = made + 1 /\ n \notin 1..made
      /\ Issued(plan, made) /\ Wired(plan, made)
  <2>1. made \in Nat /\ Issued(plan, made) /\ Wired(plan, made)
    BY RInvFacts DEF Inv, Wired
  <2>2. n = made + 1
    BY DEF n
  <2>3. QED
    BY <2>1, <2>2
<1>5. Wired(q, n)
  BY <1>4, WriteBuiltWired
<1>6. f = New /\ New \notin DOMAIN plan.factories /\ New \notin DOMAIN plan.ports
  BY RInvFacts, NewIsFresh DEF New
<1>7. \A p \in DOMAIN new : p # f
  <2>1. \A i : <<n, "port", i>> # <<n>>
    OBVIOUS
  <2>2. QED
    BY <1>2, <2>1 DEF IsBuiltPort
<1>8. Served(plan, n)
  BY <1>4, RInvFacts, ServedLater
<1> HIDE DEF f, gs, is, belts, new, claims, one, q
<1>9. /\ \A p \in DOMAIN new : p[1] = n /\ new[p].route = None
      /\ DOMAIN new \cap DOMAIN plan.ports = {}
      /\ DOMAIN new \cap DOMAIN plan.factories = {}
  BY <1>2, <1>4 DEF IsBuiltPort, Issued
<1>10. /\ DOMAIN q.ports = DOMAIN plan.ports \cup DOMAIN new
       /\ \A p \in DOMAIN new : q.ports[p] = new[p]
       /\ \A p \in DOMAIN plan.ports : q.ports[p] = plan.ports[p]
       /\ DOMAIN q.factories = DOMAIN plan.factories \cup {f}
       /\ q.factories[f] = one
       /\ \A x \in DOMAIN plan.factories : q.factories[x] = plan.factories[x]
       /\ DOMAIN plan.groups \subseteq DOMAIN q.groups
       /\ DOMAIN plan.claims \subseteq DOMAIN q.claims
  BY <1>1, <1>6, <1>9 DEF PutAll, Put
<1>11. q.marks \subseteq Standing(q)
  BY <1>1, <1>10, RInvFacts DEF Linked, Linking, Standing
<1>12. Apart(q)
  <2>1. Apart(plan)
    BY <1>8 DEF Served
  <2>2. QED
    BY <1>6, <1>7, <1>9, <1>10, <2>1 DEF Apart
<1>13. /\ \A p \in DOMAIN q.ports :
            q.ports[p].route # None => p \in DOMAIN plan.ports /\ q.ports[p].route = plan.ports[p].route
       /\ \A p \in DOMAIN plan.ports :
            /\ p \in DOMAIN q.ports /\ SamePort(plan, q, p)
            /\ q.ports[p].route = plan.ports[p].route
  BY <1>9, <1>10 DEF SamePort
<1>14. Grown(plan, q)
  BY <1>1, <1>3, <1>6, <1>10, <1>11, <1>12, <1>13 DEF Grown
<1>15. Lists(q)
  BY <1>5 DEF Wired
<1>16. Served(q, n) /\ Linked(q)
  BY <1>8, <1>14, <1>15, RInvFacts, GrownServed
<1>17. QED
  BY <1>1, <1>5, <1>16 DEF Synced, Linked, q

(* What dissolves at the end of an accepted item: links to factories that are
   gone, and marks.                                                        *)
LEMMA AcceptServed ==
  ASSUME RInv, NEW pl, Synced(pl), Accept(pl)
  PROVE  /\ Served(plan', n) /\ Linked(plan') /\ imports' = imports + 1
         /\ DOMAIN plan'.routes = DOMAIN pl.routes
         /\ DOMAIN plan'.factories = DOMAIN pl.factories
<1> DEFINE q == DropStaleLinks(pl)
<1>1. Wired(pl, n) /\ Shape(pl) /\ Lists(pl) /\ Served(pl, n) /\ Linking(pl)
  BY DEF Synced, Wired
<1>2. Same(pl, q)
  BY <1>1, DropStaleLinksSame
<1>3. /\ DOMAIN q = PlanFields
      /\ q.groups = pl.groups /\ q.ports = pl.ports /\ q.claims = pl.claims
      /\ q.routes = pl.routes /\ q.switches = pl.switches
      /\ q.guides = pl.guides /\ q.marks = pl.marks
      /\ q.factories = [f \in DOMAIN pl.factories |->
                          IF pl.factories[f].replaces \in DOMAIN pl.factories \cup {None}
                          THEN pl.factories[f]
                          ELSE [pl.factories[f] EXCEPT !.replaces = None]]
  BY <1>1 DEF DropStaleLinks, Shape, PlanFields, Collection
<1>4. /\ imports' = imports + 1
      /\ \E caughtUp \in SUBSET pl.marks :
           plan' = [q EXCEPT !.marks = (q.marks \cap Steps(pl)) \ caughtUp]
  BY DEF Accept, Import, Issue
<1> HIDE DEF q
<1>5. PICK marks : marks \subseteq pl.marks /\ plan' = [q EXCEPT !.marks = marks]
  BY <1>3, <1>4
<1>6. /\ plan'.factories = q.factories /\ plan'.groups = q.groups /\ plan'.ports = q.ports
      /\ plan'.claims = q.claims /\ plan'.routes = q.routes /\ plan'.switches = q.switches
      /\ plan'.guides = q.guides /\ plan'.marks = marks
  BY <1>3, <1>5 DEF PlanFields, Collection
<1>7. DOMAIN q.factories = DOMAIN pl.factories
  BY <1>3
<1>8. ASSUME NEW f \in DOMAIN pl.factories
      PROVE  /\ q.factories[f].at = pl.factories[f].at
             /\ q.factories[f].guide = pl.factories[f].guide
             /\ q.factories[f].built = pl.factories[f].built
             /\ pl.factories[f].replaces \in DOMAIN pl.factories \cup {None}
                  => q.factories[f].replaces = pl.factories[f].replaces
             /\ pl.factories[f].replaces \notin DOMAIN pl.factories \cup {None}
                  => q.factories[f].replaces = None
  <2>1. DOMAIN pl.factories[f] = FactoryFields
    BY <1>1 DEF Shape
  <2>2. /\ pl.factories[f].replaces \in DOMAIN pl.factories \cup {None}
             => q.factories[f] = pl.factories[f]
        /\ pl.factories[f].replaces \notin DOMAIN pl.factories \cup {None}
             => q.factories[f] = [pl.factories[f] EXCEPT !.replaces = None]
    BY <1>3
  <2>3. QED
    BY <2>1, <2>2 DEF FactoryFields
<1>9. Linked(plan')
  <2>1. \A f \in DOMAIN plan'.factories : plan'.factories[f].guide \in plan'.guides \cup {None}
    BY SMTT(30), <1>1, <1>3, <1>6, <1>7, <1>8 DEF Linking
  <2>2. ASSUME NEW f \in DOMAIN plan'.factories
        PROVE  /\ plan'.factories[f].replaces \in DOMAIN plan'.factories \cup {None}
               /\ plan'.factories[f].replaces # None =>
                    /\ plan'.factories[f].replaces # f
                    /\ plan'.factories[plan'.factories[f].replaces].built
    BY <1>1, <1>6, <1>7, <1>8 DEF Linking
  <2>3. plan'.marks \subseteq Standing(plan')
    BY <1>1, <1>3, <1>5, <1>6, <1>7 DEF Linking, Standing
  <2>4. QED
    BY <2>1, <2>2, <2>3 DEF Linked, Linking
<1>10. Wired(plan', n)
  BY <1>1, AcceptWired
<1>11. Served(plan', n)
  <2>1. Apart(plan')
    BY <1>1, <1>3, <1>6, <1>7 DEF Apart, Served
  <2>2. Keeps(pl, plan')
    <3>1. /\ plan'.routes = pl.routes /\ plan'.switches = pl.switches /\ plan'.ports = pl.ports
          /\ \A f \in DOMAIN pl.factories :
               f \in DOMAIN plan'.factories /\ plan'.factories[f].at = pl.factories[f].at
      BY <1>3, <1>6, <1>7, <1>8
    <3>2. QED
      BY <1>1, <2>1, <3>1, UntouchedKeeps
  <2>3. QED
    BY <1>1, <1>10, <2>2, KeepsServed DEF Wired
<1>12. QED
  BY <1>3, <1>4, <1>6, <1>7, <1>9, <1>11

(* An import keeps all routes, or takes a factory with its own.            *)
ImportStep ==
  /\ Served(plan', made') /\ Linked(plan') /\ imports' = imports + 1
  /\ \/ DOMAIN plan'.routes = DOMAIN plan.routes
     \/ \E f \in DOMAIN plan.factories \ DOMAIN plan'.factories :
          DOMAIN plan.routes \ DOMAIN plan'.routes \subseteq RoutesAt(plan, f)

(* An accepted item that keeps the routes is an import step. *)
LEMMA AcceptImports ==
  ASSUME RInv, NEW pl, Synced(pl), Accept(pl), DOMAIN pl.routes = DOMAIN plan.routes
  PROVE  ImportStep
<1>1. made' = n
  BY DEF Accept, Import, Issue
<1>2. QED
  BY <1>1, AcceptServed DEF ImportStep

(* The first import of a save is an import step. *)
LEMMA ImportSaveServes ==
  ASSUME RInv, NEW c, ImportSave(c)
  PROVE  ImportStep
<1>1. plan' = WriteBuiltLayer(plan, n, c) /\ made' = n /\ imports' = imports + 1
  BY DEF ImportSave, Import, Issue
<1>2. /\ Served(WriteBuiltLayer(plan, n, c), n) /\ Linked(WriteBuiltLayer(plan, n, c))
      /\ DOMAIN WriteBuiltLayer(plan, n, c).routes = DOMAIN plan.routes
  BY WriteBuiltSynced DEF Synced
<1>3. QED
  BY <1>1, <1>2 DEF ImportStep

(* Accepting a factory built in game is an import step. *)
LEMMA SyncCreateServes ==
  ASSUME RInv, NEW c, SyncCreate(c)
  PROVE  ImportStep
<1>1. Accept(WriteBuiltLayer(plan, n, c))
  BY DEF SyncCreate
<1>2. QED
  BY <1>1, WriteBuiltSynced, AcceptImports

(* A built factory, and a group of it that an item names.                  *)
LEMMA SyncNames ==
  ASSUME RInv, NEW f \in Built("factories")
  PROVE  /\ f \in DOMAIN plan.factories /\ plan.factories[f].built = TRUE
         /\ \A r : Keyed(plan, f, r) \subseteq DOMAIN plan.groups
<1>1. f \in DOMAIN plan.factories /\ plan.factories[f].built
  BY DEF Built
<1>2. plan.factories[f].built = TRUE
  BY <1>1, RInvFacts DEF Shape
<1>3. \A r : Keyed(plan, f, r) \subseteq DOMAIN plan.groups
  BY <1>1, RInvFacts DEF Keyed, Lists
<1>4. QED
  BY <1>1, <1>2, <1>3

(* Accepting a changed group is an import step. *)
LEMMA SyncUpdateServes ==
  ASSUME RInv, NEW f, NEW r, NEW count, NEW takeSave, SyncUpdate(f, r, count, takeSave)
  PROVE  ImportStep
<1>1. /\ f \in DOMAIN plan.factories /\ plan.factories[f].built = TRUE /\ plan.factories[f].built
      /\ Keyed(plan, f, r) \subseteq DOMAIN plan.groups
  BY SyncNames DEF SyncUpdate
<1>2. CASE Keyed(plan, f, r) = {}
  <2>1. Accept(SyncNewGroup(plan, f, r, count, n))
    BY <1>2 DEF SyncUpdate
  <2>2. QED
    BY <1>1, <2>1, SyncNewGroupSynced, AcceptImports
<1>3. CASE Keyed(plan, f, r) # {}
  <2>1. PICK g \in Keyed(plan, f, r) : Accept(SyncGroup(plan, f, g, count, takeSave, n))
    BY <1>3 DEF SyncUpdate
  <2>2. g \in DOMAIN plan.groups
    BY <1>1
  <2>3. QED
    BY <1>1, <2>1, <2>2, SyncGroupSynced, AcceptImports
<1>4. QED
  BY <1>2, <1>3

(* Accepting a refuelled generator is an import step. *)
LEMMA SyncRetuneServes ==
  ASSUME RInv, NEW f, NEW r, NEW to, NEW count, NEW takeSave,
         SyncRetune(f, r, to, count, takeSave)
  PROVE  ImportStep
<1>1. /\ f \in DOMAIN plan.factories /\ plan.factories[f].built = TRUE /\ plan.factories[f].built
      /\ Keyed(plan, f, r) \subseteq DOMAIN plan.groups
  BY SyncNames DEF SyncRetune
<1>2. PICK g \in Keyed(plan, f, r) : Accept(Retune(plan, f, g, to, count, takeSave, n))
  BY DEF SyncRetune
<1>3. g \in DOMAIN plan.groups
  BY <1>1
<1>4. QED
  BY <1>1, <1>2, <1>3, RetuneSynced, AcceptImports

(* Accepting a demolished factory is an import step. *)
LEMMA SyncRemoveServes ==
  ASSUME RInv, NEW f, SyncRemove(f)
  PROVE  ImportStep
<1> DEFINE q == RemoveFactory(plan, f)
<1>1. f \in DOMAIN plan.factories /\ Accept(q) /\ made' = n
  BY DEF SyncRemove, Built, Accept, Import, Issue
<1>2. Synced(q)
  BY <1>1, RemoveFactorySynced
<1>3. /\ FactoryGone(plan, q, f) /\ q.routes = RemoveRoutes(plan, RoutesAt(plan, f)).routes
      /\ RoutesGone(plan, RemoveRoutes(plan, RoutesAt(plan, f)), RoutesAt(plan, f))
  BY RInvFacts, RemoveFactoryFields, RemoveRoutesGone
<1> HIDE DEF q
<1>4. /\ DOMAIN q.routes = DOMAIN plan.routes \ RoutesAt(plan, f)
      /\ f \notin DOMAIN q.factories
  BY <1>3 DEF FactoryGone, RoutesGone
<1>5. /\ Served(plan', n) /\ Linked(plan') /\ imports' = imports + 1
      /\ DOMAIN plan'.routes = DOMAIN q.routes /\ DOMAIN plan'.factories = DOMAIN q.factories
  BY <1>1, <1>2, AcceptServed
<1>6. QED
  BY <1>1, <1>4, <1>5 DEF ImportStep

------------------------------------------------------------------------------
(* The invariant                                                           *)

(* The empty plan has no route to serve. *)
LEMMA InitRInv ==
  ASSUME Init
  PROVE  RInv
<1>1. Inv
  BY InitInv
<1>2. /\ plan = EmptyPlan /\ made = 0 /\ imports = 0
  BY DEF Init
<1>3. /\ DOMAIN plan.factories = {} /\ DOMAIN plan.ports = {} /\ DOMAIN plan.routes = {}
      /\ DOMAIN plan.switches = {} /\ plan.marks = {}
  BY <1>2 DEF EmptyPlan
<1>4. Served(plan, made)
  BY <1>3 DEF Served, RouteShape, Apart, Bound, Pinned
<1>5. Linked(plan)
  BY <1>3 DEF Linked, Linking
<1>6. QED
  BY <1>1, <1>2, <1>4, <1>5 DEF RInv

(* A step is a command, which leaves the built layer, or an import: one step
   for each disjunct of Next.                                              *)
LEMMA NextKeeps ==
  ASSUME RInv, Inv', Next
  PROVE  EditStep \/ ImportStep
<1>0. n = made + 1
  BY DEF n
<1>a. AsideStep /\ made' \in {made, n} => EditStep
  BY <1>0, AsideStepEdits
<1>2. ASSUME NEW at, CreateFactory(at) PROVE EditStep
  BY <1>2, CreateFactoryEdits
<1>3. ASSUME NEW s, DeleteStyleGuide(s) PROVE EditStep
  BY <1>3, DeleteStyleGuideEdits
<1>4. CASE CreateStyleGuide
  BY <1>4, CreateStyleGuideEdits
<1>5. ASSUME NEW f, NEW at, MoveFactoryPin(f, at) PROVE EditStep
  BY <1>5, MoveFactoryPinEdits
<1>6. ASSUME NEW f, DeleteFactory(f) PROVE EditStep
  BY <1>6, DeleteFactoryEdits
<1>7. ASSUME NEW f, NEW old, SetFactoryReplaces(f, old) PROVE EditStep
  BY <1>7, SetFactoryReplacesEdits
<1>8. ASSUME NEW f, NEW s, SetFactoryTheme(f, s) PROVE EditStep
  BY <1>8, SetFactoryThemeEdits
<1>9. ASSUME NEW f, NEW recipe, NEW count, AddGroup(f, recipe, count) PROVE EditStep
  <2>1. made' = n
    BY <1>9 DEF AddGroup, Create, Issue
  <2>2. QED
    BY <1>9, <1>a, <2>1, AddGroupAside
<1>10. ASSUME NEW f, NEW dir, NEW item, AddPort(f, dir, item) PROVE EditStep
  BY <1>10, AddPortEdits
<1>11. ASSUME NEW f, NEW kind, AddJunction(f, kind) PROVE EditStep
  <2>1. made' = n
    BY <1>11 DEF AddJunction, Create, Issue
  <2>2. QED
    BY <1>11, <1>a, <2>1, AddJunctionAside
<1>12. ASSUME NEW f, NEW from, NEW to, NEW item, AddEdge(f, from, to, item) PROVE EditStep
  <2>1. made' = n
    BY <1>12 DEF AddEdge, Create, Issue
  <2>2. QED
    BY <1>12, <1>a, <2>1, AddEdgeAside
<1>13. ASSUME NEW f, NEW node, ClaimNode(f, node) PROVE EditStep
  <2>1. made' = n
    BY <1>13 DEF ClaimNode, Create, Issue
  <2>2. QED
    BY <1>13, <1>a, <2>1, ClaimNodeAside
<1>14. ASSUME NEW from, NEW to, AddPowerLine(from, to) PROVE EditStep
  BY <1>14, AddPowerLineEdits
<1>15. ASSUME NEW g, NEW recipe, SetGroupRecipe(g, recipe) PROVE EditStep
  <2>1. made' = made
    BY <1>15 DEF SetGroupRecipe, Edit
  <2>2. QED
    BY <1>15, <1>a, <2>1, SetGroupRecipeAside
<1>16. ASSUME NEW g, NEW count, SetGroupCount(g, count) PROVE EditStep
  <2>1. made' = made
    BY <1>16 DEF SetGroupCount, Edit
  <2>2. QED
    BY <1>16, <1>a, <2>1, SetGroupCountAside
<1>17. ASSUME NEW g, DeleteGroup(g) PROVE EditStep
  <2>1. made' = made
    BY <1>17 DEF DeleteGroup, Edit
  <2>2. QED
    BY <1>17, <1>a, <2>1, DeleteGroupAside
<1>18. ASSUME NEW g, ExpandGroup(g) PROVE EditStep
  <2>1. made' = n
    BY <1>18 DEF ExpandGroup, Create, Issue
  <2>2. QED
    BY <1>18, <1>a, <2>1, ExpandGroupAside
<1>19. ASSUME NEW kind, kind # "power", NEW from, NEW to, AddCargoRoute(kind, from, to) PROVE EditStep
  BY <1>19, AddCargoRouteEdits
<1>20. ASSUME NEW p, DeletePort(p) PROVE EditStep
  BY <1>20, DeletePortEdits
<1>21. ASSUME NEW e, DeleteEdge(e) PROVE EditStep
  <2>1. made' = made
    BY <1>21 DEF DeleteEdge, Edit
  <2>2. QED
    BY <1>21, <1>a, <2>1, DeleteEdgeAside
<1>22. ASSUME NEW j, DeleteJunction(j) PROVE EditStep
  <2>1. made' = made
    BY <1>22 DEF DeleteJunction, Edit
  <2>2. QED
    BY <1>22, <1>a, <2>1, DeleteJunctionAside
<1>23. ASSUME NEW r, NEW kind, SetRouteSpec(r, kind) PROVE EditStep
  BY <1>23, SetRouteSpecEdits
<1>24. ASSUME NEW r, DeleteRoute(r) PROVE EditStep
  BY <1>24, DeleteRouteEdits
<1>25. ASSUME NEW r, AddPrioritySwitch(r) PROVE EditStep
  BY <1>25, AddPrioritySwitchEdits
<1>26. ASSUME NEW s, DeleteSwitch(s) PROVE EditStep
  BY <1>26, DeleteSwitchEdits
<1>27. ASSUME NEW c, ReleaseNode(c) PROVE EditStep
  <2>1. made' = made
    BY <1>27 DEF ReleaseNode, Edit
  <2>2. QED
    BY <1>27, <1>a, <2>1, ReleaseNodeAside
<1>28. ASSUME NEW c, SetClaim(c) PROVE EditStep
  <2>1. made' = made
    BY <1>28 DEF SetClaim, Edit
  <2>2. QED
    BY <1>28, <1>a, <2>1, SetClaimAside
<1>29. ASSUME NEW x, NEW kept, SetBuildDone(x, kept) PROVE EditStep
  <2>1. made' = made
    BY <1>29 DEF SetBuildDone, Edit
  <2>2. QED
    BY <1>29, <1>a, <2>1, SetBuildDoneAside
<1>30. ASSUME NEW c, ImportSave(c) \/ SyncCreate(c) PROVE ImportStep
  BY <1>30, ImportSaveServes, SyncCreateServes
<1>31. ASSUME NEW f, NEW r, NEW count, NEW takeSave, SyncUpdate(f, r, count, takeSave)
       PROVE  ImportStep
  BY <1>31, SyncUpdateServes
<1>32. ASSUME NEW f, NEW r, NEW to, NEW count, NEW takeSave, SyncRetune(f, r, to, count, takeSave)
       PROVE  ImportStep
  BY <1>32, SyncRetuneServes
<1>33. ASSUME NEW f, SyncRemove(f) PROVE ImportStep
  BY <1>33, SyncRemoveServes
<1>34. QED
  BY <1>2, <1>3, <1>4, <1>5, <1>6, <1>7, <1>8, <1>9, <1>10, <1>11, <1>12, <1>13, <1>14,
     <1>15, <1>16, <1>17, <1>18, <1>19, <1>20, <1>21, <1>22, <1>23, <1>24, <1>25, <1>26, <1>27,
     <1>28, <1>29, <1>30, <1>31, <1>32, <1>33 DEF Next

(* Every step is an edit or an import step. *)
LEMMA NextRInv ==
  ASSUME RInv, [Next]_vars
  PROVE  RInv'
<1>1. Inv'
  BY NextInv DEF RInv
<1>2. CASE UNCHANGED vars
  BY <1>1, <1>2 DEF vars, RInv
<1>3. CASE Next
  <2>1. /\ Served(plan', made') /\ Linked(plan')
        /\ imports' = imports \/ imports' = imports + 1
    BY <1>1, <1>3, NextKeeps DEF EditStep, ImportStep
  <2>2. imports' \in Nat
    BY <2>1 DEF RInv
  <2>3. QED
    BY <1>1, <2>1, <2>2 DEF RInv
<1>4. QED
  BY <1>2, <1>3

(* The inductive invariant holds of every behaviour: with the wiring, what
   routes, pins, themes, replacements and overrides name is there.         *)
THEOREM RoutesInvariant == Spec => []RInv
<1>1. Init => RInv
  BY InitRInv
<1>2. RInv /\ [Next]_vars => RInv'
  BY NextRInv
<1>3. QED
  BY <1>1, <1>2, PTL DEF Spec

(* The two ends of a route of the plan.                                    *)
LEMMA RouteEnds ==
  ASSUME RInv, NEW r \in DOMAIN plan.routes
  PROVE  Range(plan.routes[r].ends) = {plan.routes[r].ends[1], plan.routes[r].ends[2]}
<1>1. plan.routes[r].ends = <<plan.routes[r].ends[1], plan.routes[r].ends[2]>>
  BY DEF RInv, Served, RouteShape
<1>2. Range(<<plan.routes[r].ends[1], plan.routes[r].ends[2]>>)
        = {plan.routes[r].ends[1], plan.routes[r].ends[2]}
  BY PairRange
<1>3. QED
  BY <1>1, <1>2

(* Ports and routes agree on who is bound to whom; two factories share at
   most one power line; lines end at pins, and switches sit on their lines. *)
THEOREM RoutesAlwaysServe == Spec => []RoutesServe
<1>1. ASSUME RInv PROVE RoutesBind
  <2>0. Bound(plan)
    BY <1>1 DEF RInv, Served
  <2>1. ASSUME NEW r \in DOMAIN plan.routes, IsPower(r)
        PROVE  PowerJoined(r)
    <3> DEFINE a == plan.routes[r].ends[1]
               b == plan.routes[r].ends[2]
    <3>1. Power(plan, r, a, b)
      BY <2>0, <2>1 DEF Bound, IsPower
    <3>2. Range(plan.routes[r].ends) = {a, b}
      BY <1>1, RouteEnds
    <3>3. ASSUME NEW q \in DOMAIN plan.routes, IsPower(q),
                 Range(plan.routes[q].ends) = Range(plan.routes[r].ends)
          PROVE  q = r
      <4> DEFINE c == plan.routes[q].ends[1]
                 d == plan.routes[q].ends[2]
      <4>1. {c, d} = {a, b}
        BY <1>1, <3>2, <3>3, RouteEnds
      <4>2. (c = a /\ d = b) \/ (c = b /\ d = a)
        <5> HIDE DEF a, b, c, d
        <5>1. QED
          BY <4>1
      <4>3. QED
        BY <3>1, <3>3, <4>2 DEF Power, IsPower
    <3>4. a \in DOMAIN plan.factories /\ b \in DOMAIN plan.factories /\ a # b
      BY <3>1 DEF Power
    <3>5. QED
      BY <3>2, <3>3, <3>4 DEF PowerJoined
  <2>2. ASSUME NEW r \in DOMAIN plan.routes, ~IsPower(r)
        PROVE  CargoBound(r)
    <3>1. Cargo(plan, r, plan.routes[r].ends[1], plan.routes[r].ends[2])
      BY <2>0, <2>2 DEF Bound, IsPower
    <3>2. QED
      BY <3>1 DEF Cargo, CargoBound
  <2>3. ASSUME NEW p \in DOMAIN plan.ports, plan.ports[p].route # None
        PROVE  /\ plan.ports[p].route \in DOMAIN plan.routes
               /\ p \in Range(plan.routes[plan.ports[p].route].ends)
    <3>1. /\ plan.ports[p].route \in DOMAIN plan.routes
          /\ p \in {plan.routes[plan.ports[p].route].ends[1], plan.routes[plan.ports[p].route].ends[2]}
      BY <2>0, <2>3 DEF Bound
    <3>2. QED
      BY <1>1, <3>1, RouteEnds
  <2>4. QED
    BY <2>1, <2>2, <2>3 DEF RoutesBind
<1>2. ASSUME RInv PROVE LinesFollowPins
  <2>1. Pinned(plan)
    BY <1>2 DEF RInv, Served
  <2>2. \A end, at : IsPin(plan, end, at) => at = PinOf(end)
    BY DEF IsPin, PinOf
  <2>3. ASSUME NEW r \in DOMAIN plan.routes, NEW i \in 1..2
        PROVE  plan.routes[r].path[i] = PinOf(plan.routes[r].ends[i])
    <3>1. /\ plan.routes[r].path[1] = PinOf(plan.routes[r].ends[1])
          /\ plan.routes[r].path[2] = PinOf(plan.routes[r].ends[2])
      BY <2>1, <2>2 DEF Pinned
    <3>2. i = 1 \/ i = 2
      OBVIOUS
    <3>3. QED
      BY <3>1, <3>2
  <2>4. QED
    BY <2>1, <2>3 DEF Pinned, LinesFollowPins, IsPower
<1>3. RInv => RoutesServe
  BY <1>1, <1>2 DEF RoutesServe
<1>4. QED
  BY <1>3, RoutesInvariant, PTL

(* A theme names a guide, a replaced factory is another one that runs, and no
   override outlives what it tracks.                                       *)
THEOREM LinksAlwaysResolve == Spec => []LinksResolve
<1>1. ASSUME RInv PROVE LinksResolve
  <2>1. Linked(plan)
    BY <1>1 DEF RInv
  <2>2. ASSUME NEW f \in DOMAIN plan.factories
        PROVE  /\ plan.factories[f].guide \in plan.guides \cup {None}
               /\ plan.factories[f].replaces \in (Built("factories") \ {f}) \cup {None}
    BY <2>1 DEF Linked, Linking, Built
  <2>3. UNION {DOMAIN plan[coll] : coll \in {"factories", "groups", "routes", "claims"}} = Standing(plan)
    BY DEF Standing
  <2>4. plan.marks \subseteq Standing(plan)
    BY <2>1 DEF Linked, Linking
  <2>5. QED
    BY <2>2, <2>3, <2>4 DEF LinksResolve
<1>2. QED
  BY <1>1, RoutesInvariant, PTL

(* No command of the user's changes the built layer, whatever it deletes.  *)
THEOREM BuiltAlwaysStands == Spec => BuiltStands
<1>1. ASSUME RInv, RInv', [Next]_vars
      PROVE  [imports' = imports =>
                /\ Baseline(plan') = Baseline(plan)
                /\ Built("claims") \subseteq DOMAIN plan'.claims]_vars
  <2>1. CASE UNCHANGED vars
    BY <2>1
  <2>2. CASE Next /\ imports' = imports
    <3>1. imports' # imports + 1
      BY <1>1, <2>2 DEF RInv
    <3>2. LayerStays(plan, plan')
      BY <1>1, <2>2, <3>1, NextKeeps DEF EditStep, ImportStep, RInv
    <3>3. QED
      BY <3>2, StayBaseline DEF Built
  <2>3. QED
    BY <1>1, <2>1, <2>2
<1>2. QED
  BY <1>1, RoutesInvariant, PTL DEF Spec, BuiltStands

(* A sync takes a route with one of its factories only.                    *)
THEOREM RoutesAlwaysSurvive == Spec => RoutesSurviveSync
<1> DEFINE owner(end) == IF end \in DOMAIN plan.ports THEN plan.ports[end].factory ELSE end
<1>1. ASSUME RInv, RInv', Next, imports' # imports,
             NEW r \in DOMAIN plan.routes \ DOMAIN plan'.routes
      PROVE  \E i \in 1..2 : owner(plan.routes[r].ends[i]) \notin DOMAIN plan'.factories
  <2>1. ImportStep
    BY <1>1, NextKeeps DEF EditStep, RInv
  <2>2. PICK f \in DOMAIN plan.factories \ DOMAIN plan'.factories : r \in RoutesAt(plan, f)
    BY <1>1, <2>1 DEF ImportStep
  <2>3. f \notin DOMAIN plan.ports
    BY <1>1, <2>2 DEF RInv, Served, Apart
  <2>4. PICK end : end \in Range(plan.routes[r].ends) /\ end \in Owned(plan, "ports", f) \cup {f}
    BY <2>2 DEF RoutesAt
  <2>5. owner(end) = f
    BY <2>3, <2>4 DEF Owned
  <2>6. end = plan.routes[r].ends[1] \/ end = plan.routes[r].ends[2]
    BY <1>1, <2>4, RouteEnds
  <2>7. QED
    BY <2>2, <2>5, <2>6
<1>2. ASSUME RInv, RInv', [Next]_vars
      PROVE  [imports' # imports =>
                \A r \in DOMAIN plan.routes \ DOMAIN plan'.routes :
                  \E i \in 1..2 : owner(plan.routes[r].ends[i]) \notin DOMAIN plan'.factories]_vars
  BY <1>1, <1>2
<1>3. QED
  BY <1>2, RoutesInvariant, PTL DEF Spec, RoutesSurviveSync

------------------------------------------------------------------------------
(* Expansion fans out *)

(* A set of numbers that has a member has a least one. *)
LEMMA LeastMember ==
  ASSUME NEW S \in SUBSET Nat, S # {}
  PROVE  \E m \in S : \A k \in S : m <= k
<1>1. \E x \in S : \A y \in S : ~ (<<y, x>> \in OpToRel(<, Nat))
  BY NatLessThanWellFounded, WFMin
<1>2. ASSUME NEW x \in Nat, NEW y \in Nat, y < x
      PROVE  <<y, x>> \in OpToRel(<, Nat)
  BY <1>2, Zenon DEF OpToRel
<1>3. PICK m \in S : \A y \in S : ~ (<<y, m>> \in OpToRel(<, Nat))
  BY <1>1
<1>4. \A y \in S : ~ (y < m)
  BY <1>2, <1>3
<1>5. \A y \in S : m <= y
  BY <1>4
<1>6. QED
  BY <1>5

(* A set that has the first junction of a chain and, with each but the last,
   the next one, has them all.                                             *)
LEMMA AlongChain ==
  ASSUME NEW count \in Nat, NEW e, NEW S,
         0 \in Chain(count) => <<n, 0, e>> \in S,
         \A k \in Chain(count) \ {0} : <<n, k - 1, e>> \in S => <<n, k, e>> \in S
  PROVE  \A k \in Chain(count) : <<n, k, e>> \in S
<1> DEFINE R == {k \in Chain(count) : <<n, k, e>> \notin S}
<1>1. SUFFICES ASSUME R # {} PROVE FALSE
  OBVIOUS
<1>2. Chain(count) \subseteq Nat /\ \A k \in Chain(count) \ {0} : k - 1 \in Chain(count) /\ k - 1 < k
  BY DEF Chain
<1>3. R \in SUBSET Nat
  BY <1>2
<1>4. PICK k \in R : \A j \in R : k <= j
  BY <1>1, <1>3, LeastMember
<1>5. k \in Chain(count) \ {0}
  BY <1>4
<1>6. k - 1 \in Chain(count) /\ k - 1 \notin R
  BY <1>2, <1>3, <1>4, <1>5
<1>7. QED
  BY <1>4, <1>5, <1>6

(* Every belt of the fan of e runs from its near end to its far one: along
   the chain, or from the chain to a machine.                              *)
Trunk(k, e)  == <<n, "trunk", k, e>>
Branch(i, e) == <<n, "branch", i, e>>

Runs(q, count, e, near, far) ==
  /\ \A k \in Chain(count) \ {0} :
       /\ Trunk(k, e) \in DOMAIN q.edges
       /\ q.edges[Trunk(k, e)][near] = Joint(k - 1, e)
       /\ q.edges[Trunk(k, e)][far] = Joint(k, e)
  /\ \A i \in 1..count :
       /\ Branch(i, e) \in DOMAIN q.edges
       /\ q.edges[Branch(i, e)][near] = Joint(Slot(i, count), e)
       /\ q.edges[Branch(i, e)][far] = GroupEnd(<<n, i>>)
  /\ \A d \in DOMAIN q.edges, k \in Chain(count) :
       q.edges[d][near] = Joint(k, e) =>
         \/ \E j \in Chain(count) : q.edges[d][far] = Joint(j, e)
         \/ \E i \in 1..count : q.edges[d][far] = GroupEnd(<<n, i>>)

(* What leaves a junction of the fan, away from its root. *)
LEMMA FarRuns ==
  ASSUME Inv, NEW g, NEW q, NEW count \in Nat, count >= 2,
         FannedBelts(q, g, count), NEW k \in Chain(count), NEW e \in Belts(g),
         NEW d \in DOMAIN q.edges, d \in Far(k, e, count)
  PROVE  \/ \E j \in Chain(count) \ {0} : d = Trunk(j, e)
         \/ \E i \in 1..count : d = Branch(i, e)
<1>1. DOMAIN q.edges = DOMAIN plan.edges \cup Trunks(g, count) \cup Branches(g, count)
  BY DEF FannedBelts
<1>2. d[1] = n /\ d \notin DOMAIN plan.edges
  <2>1. d[1] = n
    BY DEF Far
  <2>2. QED
    BY <2>1, NewIsFresh DEF Inv, Wired, Issued
<1>3. CASE d \in Trunks(g, count)
  <2>1. PICK j \in Chain(count) \ {0}, x \in Belts(g) : d = <<n, "trunk", j, x>>
    BY <1>3 DEF Trunks
  <2>2. x = e
    BY <2>1 DEF Far
  <2>3. QED
    BY <2>1, <2>2 DEF Trunk
<1>4. CASE d \in Branches(g, count)
  <2>1. PICK i \in 1..count, x \in Belts(g) : d = <<n, "branch", i, x>>
    BY <1>4 DEF Branches
  <2>2. x = e
    BY <2>1 DEF Far
  <2>3. QED
    BY <2>1, <2>2 DEF Branch
<1>5. QED
  BY <1>1, <1>2, <1>3, <1>4

(* The fan of a belt that fed the bank runs to the machines, that of a belt
   that drained it from them.                                              *)
LEMMA FanRuns ==
  ASSUME Inv, NEW g \in Planned("groups"), NEW q, NEW count \in Nat, count >= 2,
         FannedBelts(q, g, count), NEW e \in Belts(g)
  PROVE  /\ Splits(g, e) => Runs(q, count, e, "from", "to")
         /\ ~Splits(g, e) => Runs(q, count, e, "to", "from")
<1>1. ASSUME NEW k \in Chain(count) \ {0}
      PROVE  /\ Trunk(k, e) \in DOMAIN q.edges
             /\ Splits(g, e) => /\ q.edges[Trunk(k, e)]["from"] = Joint(k - 1, e)
                                /\ q.edges[Trunk(k, e)]["to"] = Joint(k, e)
             /\ ~Splits(g, e) => /\ q.edges[Trunk(k, e)]["to"] = Joint(k - 1, e)
                                 /\ q.edges[Trunk(k, e)]["from"] = Joint(k, e)
  <2>1. Trunk(k, e) \in Trunks(g, count)
    BY DEF Trunk, Trunks
  <2>2. IsFanBelt(q.edges[Trunk(k, e)], plan.groups[g].factory, plan.edges[e].item, Splits(g, e),
                  Joint(k - 1, e), Joint(k, e))
    BY DEF FannedBelts, Trunk
  <2>3. QED
    BY <2>1, <2>2 DEF FannedBelts, IsFanBelt
<1>2. ASSUME NEW i \in 1..count
      PROVE  /\ Branch(i, e) \in DOMAIN q.edges
             /\ Splits(g, e) => /\ q.edges[Branch(i, e)]["from"] = Joint(Slot(i, count), e)
                                /\ q.edges[Branch(i, e)]["to"] = GroupEnd(<<n, i>>)
             /\ ~Splits(g, e) => /\ q.edges[Branch(i, e)]["to"] = Joint(Slot(i, count), e)
                                 /\ q.edges[Branch(i, e)]["from"] = GroupEnd(<<n, i>>)
  <2>1. Branch(i, e) \in Branches(g, count)
    BY DEF Branch, Branches
  <2>2. IsFanBelt(q.edges[Branch(i, e)], plan.groups[g].factory, plan.edges[e].item, Splits(g, e),
                  Joint(Slot(i, count), e), GroupEnd(<<n, i>>))
    BY DEF FannedBelts, Branch
  <2>3. QED
    BY <2>1, <2>2 DEF FannedBelts, IsFanBelt
<1>3. ASSUME NEW d \in DOMAIN q.edges, NEW k \in Chain(count), d \in Far(k, e, count)
      PROVE  /\ Splits(g, e) => \/ \E j \in Chain(count) : q.edges[d]["to"] = Joint(j, e)
                                \/ \E i \in 1..count : q.edges[d]["to"] = GroupEnd(<<n, i>>)
             /\ ~Splits(g, e) => \/ \E j \in Chain(count) : q.edges[d]["from"] = Joint(j, e)
                                 \/ \E i \in 1..count : q.edges[d]["from"] = GroupEnd(<<n, i>>)
  <2>1. \/ \E j \in Chain(count) \ {0} : d = Trunk(j, e)
        \/ \E i \in 1..count : d = Branch(i, e)
    BY <1>3, FarRuns
  <2>2. QED
    BY <1>1, <1>2, <2>1
<1>4. ASSUME NEW d \in DOMAIN q.edges, NEW k \in Chain(count)
      PROVE  /\ Splits(g, e) /\ q.edges[d]["from"] = Joint(k, e) => d \in Far(k, e, count)
             /\ ~Splits(g, e) /\ q.edges[d]["to"] = Joint(k, e) => d \in Far(k, e, count)
  <2>1. AtJoint(q, g, count, k, e)
    BY FanAt
  <2>2. QED
    BY <2>1 DEF AtJoint, OutOf, Into
<1>5. QED
  BY <1>1, <1>2, <1>3, <1>4 DEF Runs

(* What lies beyond a set of junctions, and the sets that lead to no other. *)
EndsOf(S) == {JunctionEnd(j) : j \in S}
Beyond(pl, S, near, far) ==
  {pl.edges[e][far] : e \in {x \in DOMAIN pl.edges : pl.edges[x][near] \in EndsOf(S)}}
ClosedIn(pl, S, start, near, far) ==
  /\ S \in SUBSET DOMAIN pl.junctions
  /\ start \in EndsOf(S)
  /\ Beyond(pl, S, near, far) \cap EndsOf(DOMAIN pl.junctions) \subseteq EndsOf(S)

(* Reached, by these names. *)
LEMMA ReachedIs ==
  ASSUME NEW pl, NEW start, NEW near, NEW far
  PROVE  Reached(pl, start, near, far) =
           {g \in DOMAIN pl.groups :
              /\ start \in EndsOf(DOMAIN pl.junctions)
              /\ \A S : ClosedIn(pl, S, start, near, far) => GroupEnd(g) \in Beyond(pl, S, near, far)}
  BY DEF Reached, ClosedIn, Beyond, EndsOf

(* An end is of one thing only. *)
LEMMA EndsDiffer ==
  ASSUME NEW x, NEW y
  PROVE  /\ GroupEnd(x) = GroupEnd(y) => x = y
         /\ JunctionEnd(x) = JunctionEnd(y) => x = y
         /\ GroupEnd(x) # JunctionEnd(y)
  BY DEF GroupEnd, JunctionEnd

(* The machines and the junctions that the fan of e joins are there. *)
Stands(q, count, e) ==
  /\ \A k \in Chain(count) : <<n, k, e>> \in DOMAIN q.junctions
  /\ Machines(count) \subseteq DOMAIN q.groups

(* From the root of a fan exactly the new machines are reached. *)
LEMMA FanReaches ==
  ASSUME NEW q, NEW count \in Nat, count >= 2, NEW e, NEW near, NEW far,
         Runs(q, count, e, near, far), Stands(q, count, e)
  PROVE  Reached(q, Joint(0, e), near, far) = Machines(count)
<1> DEFINE C == {<<n, k, e>> : k \in Chain(count)}
           start == Joint(0, e)
<1>0. /\ \A k \in Chain(count) : <<n, k, e>> \in DOMAIN q.junctions
      /\ Machines(count) \subseteq DOMAIN q.groups
  BY DEF Stands
<1>1. 0 \in Chain(count) /\ \A i \in 1..count : Slot(i, count) \in Chain(count)
  <2>1. 1 \in 1..count
    OBVIOUS
  <2>2. QED
    BY <2>1, SlotFits
<1>2. start \in EndsOf(DOMAIN q.junctions) /\ C \in SUBSET DOMAIN q.junctions /\ start \in EndsOf(C)
  BY <1>0, <1>1 DEF EndsOf, Joint
<1>3. \A end \in EndsOf(C) : \E k \in Chain(count) : end = Joint(k, e)
  BY DEF EndsOf, Joint
<1>4. ASSUME NEW end \in Beyond(q, C, near, far)
      PROVE  end \in EndsOf(C) \/ \E i \in 1..count : end = GroupEnd(<<n, i>>)
  <2>1. PICK d \in DOMAIN q.edges : q.edges[d][near] \in EndsOf(C) /\ end = q.edges[d][far]
    BY DEF Beyond
  <2>2. PICK k \in Chain(count) : q.edges[d][near] = Joint(k, e)
    BY <1>3, <2>1
  <2>3. \/ \E j \in Chain(count) : end = Joint(j, e)
        \/ \E i \in 1..count : end = GroupEnd(<<n, i>>)
    BY <2>1, <2>2 DEF Runs
  <2>4. \A j \in Chain(count) : Joint(j, e) \in EndsOf(C)
    BY DEF EndsOf, Joint
  <2>5. QED
    BY <2>3, <2>4
<1> HIDE DEF C
<1>5. ClosedIn(q, C, start, near, far)
  <2>1. \A i, j : GroupEnd(<<n, i>>) # JunctionEnd(j)
    BY EndsDiffer
  <2>2. \A i : GroupEnd(<<n, i>>) \notin EndsOf(DOMAIN q.junctions)
    BY <2>1 DEF EndsOf
  <2>3. QED
    BY <1>2, <1>4, <2>2 DEF ClosedIn
<1>6. ASSUME NEW S, ClosedIn(q, S, start, near, far), NEW i \in 1..count
      PROVE  GroupEnd(<<n, i>>) \in Beyond(q, S, near, far)
  <2>1. <<n, 0, e>> \in S
    <3>1. PICK j \in S : start = JunctionEnd(j)
      BY <1>6 DEF ClosedIn, EndsOf
    <3>2. j = <<n, 0, e>>
      BY <3>1, EndsDiffer DEF Joint
    <3>3. QED
      BY <3>1, <3>2
  <2>2. ASSUME NEW k \in Chain(count) \ {0}, <<n, k - 1, e>> \in S
        PROVE  <<n, k, e>> \in S
    <3>1. /\ Trunk(k, e) \in DOMAIN q.edges
          /\ q.edges[Trunk(k, e)][near] = Joint(k - 1, e)
          /\ q.edges[Trunk(k, e)][far] = Joint(k, e)
      BY DEF Runs
    <3>2. Joint(k - 1, e) \in EndsOf(S)
      BY <2>2 DEF EndsOf, Joint
    <3>3. Joint(k, e) \in Beyond(q, S, near, far)
      BY <3>1, <3>2 DEF Beyond
    <3>4. Joint(k, e) \in EndsOf(DOMAIN q.junctions)
      BY <1>0 DEF EndsOf, Joint
    <3>5. Joint(k, e) \in EndsOf(S)
      BY <1>6, <3>3, <3>4 DEF ClosedIn
    <3>6. PICK j \in S : Joint(k, e) = JunctionEnd(j)
      BY <3>5 DEF EndsOf
    <3>7. j = <<n, k, e>>
      BY <3>6, EndsDiffer DEF Joint
    <3>8. QED
      BY <3>6, <3>7
  <2>3. \A k \in Chain(count) : <<n, k, e>> \in S
    BY <2>1, <2>2, AlongChain
  <2>4. <<n, Slot(i, count), e>> \in S
    BY <1>1, <2>3
  <2>5. Joint(Slot(i, count), e) \in EndsOf(S)
    BY <2>4 DEF EndsOf, Joint
  <2>6. /\ Branch(i, e) \in DOMAIN q.edges
        /\ q.edges[Branch(i, e)][near] = Joint(Slot(i, count), e)
        /\ q.edges[Branch(i, e)][far] = GroupEnd(<<n, i>>)
    BY DEF Runs
  <2>7. QED
    BY <2>5, <2>6 DEF Beyond
<1>7. ASSUME NEW x \in Machines(count)
      PROVE  x \in Reached(q, start, near, far)
  <2>1. PICK i \in 1..count : x = <<n, i>>
    BY DEF Machines
  <2>2. \A S : ClosedIn(q, S, start, near, far) => GroupEnd(x) \in Beyond(q, S, near, far)
    BY <1>6, <2>1
  <2>3. QED
    BY <1>0, <1>2, <2>2, ReachedIs
<1>8. ASSUME NEW x \in Reached(q, start, near, far)
      PROVE  x \in Machines(count)
  <2>1. GroupEnd(x) \in Beyond(q, C, near, far)
    BY <1>5, ReachedIs
  <2>2. GroupEnd(x) \notin EndsOf(C)
    BY EndsDiffer DEF EndsOf
  <2>3. PICK i \in 1..count : GroupEnd(x) = GroupEnd(<<n, i>>)
    BY <1>4, <2>1, <2>2
  <2>4. x = <<n, i>>
    BY <2>3, EndsDiffer
  <2>5. QED
    BY <2>4 DEF Machines
<1>9. QED
  BY <1>7, <1>8

(* As many machines as the bank counted. *)
LEMMA MachinesCount ==
  ASSUME NEW count \in Nat
  PROVE  Cardinality(Machines(count)) = count
<1> DEFINE b == [i \in 1..count |-> <<n, i>>]
<1>1. b \in Bijection(1..count, Machines(count))
  BY DEF Bijection, Injection, Surjection, IsInjective, Machines
<1>2. ExistsBijection(1..count, Machines(count))
  BY <1>1 DEF ExistsBijection
<1>3. QED
  BY <1>2, FS_CountingElements

(* What an expansion does to the bank and its belts. *)
Fans(pl, q, g) ==
  LET new == DOMAIN q.groups \ DOMAIN pl.groups
  IN  /\ DOMAIN pl.groups \ DOMAIN q.groups = {g}
      /\ Cardinality(new) = EffectiveCount(pl.groups[g])
      /\ \A e \in Into(pl, GroupEnd(g)) : Reached(q, q.edges[e].to, "from", "to") = new
      /\ \A e \in OutOf(pl, GroupEnd(g)) : Reached(q, q.edges[e].from, "to", "from") = new

(* An expansion fans out. *)
LEMMA ExpandGroupFans ==
  ASSUME Inv, NEW g, ExpandGroup(g)
  PROVE  Fans(plan, plan', g)
<1> DEFINE count == EffectiveCount(plan.groups[g])
           q     == plan'
<1>0. g \in Planned("groups") /\ g \in DOMAIN plan.groups
  BY DEF ExpandGroup, Planned
<1>1. FannedGroups(q, g, count) /\ FannedJunctions(q, g, count) /\ FannedBelts(q, g, count)
  <2>1. q = Expanded(g)
    BY DEF ExpandGroup, Create, Issue
  <2>2. QED
    BY <1>0, <2>1, ExpandedIs
<1>2. count \in Nat /\ count >= 2
  BY DEF ExpandGroup, ExpandMax
<1> HIDE DEF count, q
<1>3. \A x \in Machines(count) : x \notin DOMAIN plan.groups
  BY NewIsFresh DEF Machines, Inv, Wired, Issued
<1>4. DOMAIN q.groups = (DOMAIN plan.groups \ {g}) \cup Machines(count)
  BY <1>1 DEF FannedGroups
<1>5. /\ DOMAIN plan.groups \ DOMAIN q.groups = {g}
      /\ DOMAIN q.groups \ DOMAIN plan.groups = Machines(count)
      /\ Machines(count) \subseteq DOMAIN q.groups
  BY <1>0, <1>3, <1>4
<1>6. Cardinality(Machines(count)) = count
  BY <1>2, MachinesCount
<1>7. ASSUME NEW e \in Belts(g)
      PROVE  Stands(q, count, e)
  BY <1>1, <1>5 DEF FannedJunctions, Joints, Stands
<1>8. ASSUME NEW e \in Into(plan, GroupEnd(g))
      PROVE  Reached(q, q.edges[e].to, "from", "to") = Machines(count)
  <2>1. e \in Belts(g) /\ Splits(g, e)
    BY DEF Belts, Touching, Splits, Into
  <2>2. Runs(q, count, e, "from", "to")
    BY <1>0, <1>1, <1>2, <2>1, FanRuns
  <2>3. Reached(q, Joint(0, e), "from", "to") = Machines(count)
    BY <1>2, <1>7, <2>1, <2>2, FanReaches
  <2>4. q.edges[e].to = Joint(0, e)
    BY <1>1, <2>1 DEF FannedBelts
  <2>5. QED
    BY <2>3, <2>4
<1>9. ASSUME NEW e \in OutOf(plan, GroupEnd(g))
      PROVE  Reached(q, q.edges[e].from, "to", "from") = Machines(count)
  <2>1. e \in Belts(g)
    BY DEF Belts, Touching, OutOf
  <2>2. ~Splits(g, e)
    BY <1>0, <2>1, BankBelts DEF OutOf
  <2>3. Runs(q, count, e, "to", "from")
    BY <1>0, <1>1, <1>2, <2>1, <2>2, FanRuns
  <2>4. Reached(q, Joint(0, e), "to", "from") = Machines(count)
    BY <1>2, <1>7, <2>1, <2>3, FanReaches
  <2>5. q.edges[e].from = Joint(0, e)
    BY <1>1, <2>1, <2>2 DEF FannedBelts
  <2>6. QED
    BY <2>4, <2>5
<1>10. QED
  BY <1>5, <1>6, <1>8, <1>9 DEF Fans, count, q

(* Banks come or banks go, not both. *)
OneWay(pl, q) ==
  DOMAIN pl.groups \subseteq DOMAIN q.groups \/ DOMAIN q.groups \subseteq DOMAIN pl.groups

(* Commands that add, take away or change in place are one-way. *)
LEMMA OneWays ==
  ASSUME NEW pl, NEW q, Same(pl, q) \/ Less(pl, q) \/ More(pl, q)
  PROVE  OneWay(pl, q)
  BY DEF Same, SameGroups, Less, LessParts, More, MoreKept, OneWay

(* A resync is about ports and belts. *)
LEMMA ResyncGroups ==
  ASSUME NEW pl, Shape(pl), NEW f \in DOMAIN pl.factories, NEW k
  PROVE  Resync(pl, f, k).groups = pl.groups
<1> DEFINE ps == Dried(pl, f, BuiltGroups(pl, f))
           r  == RemovePorts(pl, f, ps)
<1>1. r.groups = pl.groups /\ DOMAIN r = PlanFields
  <2> HIDE DEF ps
  <2>1. Portless(pl, r, f, ps)
    BY RemovePortsFields
  <2>2. DOMAIN pl = PlanFields
    BY DEF Shape
  <2> HIDE DEF r
  <2>3. QED
    BY <2>1, <2>2 DEF Portless
<1>2. Resync(pl, f, k).groups = r.groups
  BY <1>1 DEF Resync, PlanFields, Collection
<1>3. QED
  BY <1>1, <1>2

(* So is what dissolves at the end of an accepted item. *)
LEMMA AcceptGroups ==
  ASSUME NEW pl, Shape(pl), Accept(pl)
  PROVE  plan'.groups = pl.groups
<1>1. PICK marks : plan' = [DropStaleLinks(pl) EXCEPT !.marks = marks]
  BY DEF Accept, Import, Issue
<1>2. DropStaleLinks(pl).groups = pl.groups /\ DOMAIN DropStaleLinks(pl) = PlanFields
  BY DEF DropStaleLinks, Shape, PlanFields, Collection
<1>3. QED
  BY <1>1, <1>2 DEF PlanFields

(* Banks only come with a site of a save. *)
LEMMA WriteBuiltGroups ==
  ASSUME NEW pl, Shape(pl), NEW k, NEW c
  PROVE  OneWay(pl, WriteBuiltLayer(pl, k, c))
<1> DEFINE gs == [x \in {<<k, i>> : i \in DOMAIN c.groups} |->
                    NewGroup(<<k>>, c.groups[x[2]].recipe, c.groups[x[2]].count, TRUE)]
<1>1. WriteBuiltLayer(pl, k, c).groups = PutAll(pl.groups, gs)
  BY DEF WriteBuiltLayer, Shape, PlanFields, Collection
<1> HIDE DEF gs
<1>2. QED
  BY <1>1 DEF PutAll, OneWay

(* Imports and accepted items are one-way. *)
LEMMA ImportsOneWay ==
  ASSUME Inv
  PROVE  /\ \A c : ImportSave(c) \/ SyncCreate(c) => OneWay(plan, plan')
         /\ \A f, r, count, takeSave : SyncUpdate(f, r, count, takeSave) => OneWay(plan, plan')
         /\ \A f, r, to, count, takeSave : SyncRetune(f, r, to, count, takeSave) => OneWay(plan, plan')
         /\ \A f : SyncRemove(f) => OneWay(plan, plan')
<1>0. /\ made \in Nat /\ n = made + 1 /\ n \in Nat /\ Wired(plan, made) /\ Wired(plan, n)
      /\ Shape(plan) /\ Lists(plan) /\ DOMAIN plan = PlanFields
  BY WiredLater, NewIsFresh DEF Inv, Wired, Shape
<1>a. ASSUME NEW pl, Wired(pl, n), Accept(pl), OneWay(plan, pl)
      PROVE  OneWay(plan, plan')
  BY <1>a, AcceptGroups DEF Wired, OneWay
<1>1. ASSUME NEW c, ImportSave(c) \/ SyncCreate(c)
      PROVE  OneWay(plan, plan')
  <2>1. Wired(WriteBuiltLayer(plan, n, c), n) /\ OneWay(plan, WriteBuiltLayer(plan, n, c))
    BY <1>0, WriteBuiltWired, WriteBuiltGroups
  <2>2. plan' = WriteBuiltLayer(plan, n, c) \/ Accept(WriteBuiltLayer(plan, n, c))
    BY <1>1 DEF ImportSave, SyncCreate, Import, Issue
  <2>3. QED
    BY <1>a, <2>1, <2>2
<1>k. ASSUME NEW f \in Built("factories")
      PROVE  /\ f \in DOMAIN plan.factories /\ plan.factories[f].built /\ plan.factories[f].built = TRUE
             /\ \A r : Keyed(plan, f, r) \subseteq DOMAIN plan.groups
  <2>1. f \in DOMAIN plan.factories /\ plan.factories[f].built
    BY DEF Built
  <2>2. QED
    BY <1>0, <2>1 DEF Shape, Lists, Keyed
<1>2. ASSUME NEW f \in Built("factories"), NEW r, NEW count
      PROVE  OneWay(plan, SyncNewGroup(plan, f, r, count, n))
  <2> DEFINE one == NewGroup(f, r, count, TRUE)
             q == [plan EXCEPT !.groups = Put(@, <<n>>, one),
                               !.factories[f].groups = @ \cup {<<n>>}]
  <2>1. More(plan, q)
    <3>1. <<n>> \notin DOMAIN plan.groups
      BY NewIsFresh DEF New
    <3>2. DOMAIN one = GroupFields /\ one.factory = f /\ one.built = TRUE
      BY DEF NewGroup, GroupFields
    <3>3. q = [plan EXCEPT !.groups = Put(plan.groups, <<n>>, one),
                           !.factories[f].groups = @ \cup {<<n>>}]
      BY <1>0 DEF PlanFields, Collection
    <3> HIDE DEF q, one
    <3>4. QED
      BY <1>0, <1>k, <3>1, <3>2, <3>3, GroupPutMore
  <2>2. SyncNewGroup(plan, f, r, count, n) = Resync(q, f, n)
    BY DEF SyncNewGroup
  <2> HIDE DEF q
  <2>3. Shape(q) /\ f \in DOMAIN q.factories
    BY <1>k, <2>1 DEF More, MoreKept
  <2>4. QED
    BY <2>1, <2>2, <2>3, ResyncGroups, OneWays DEF OneWay
<1>3. ASSUME NEW f \in Built("factories"), NEW g \in DOMAIN plan.groups, NEW count, NEW takeSave
      PROVE  OneWay(plan, SyncGroup(plan, f, g, count, takeSave, n))
  <2>1. CASE count = 0
    <3> DEFINE q == RemoveGroup(plan, g)
    <3>1. Less(plan, q)
      BY <1>0, RemoveGroupLess
    <3>2. DOMAIN q.factories = DOMAIN plan.factories
      BY <1>0 DEF RemoveGroup, PlanFields, Collection
    <3>3. SyncGroup(plan, f, g, count, takeSave, n) = Resync(q, f, n)
      BY <2>1 DEF SyncGroup
    <3> HIDE DEF q
    <3>4. Shape(q) /\ f \in DOMAIN q.factories
      BY <1>k, <3>1, <3>2 DEF Less
    <3>5. QED
      BY <3>1, <3>3, <3>4, ResyncGroups, OneWays DEF OneWay
  <2>2. CASE count # 0
    <3> DEFINE one == [plan.groups[g] EXCEPT !.count = count,
                                             !.mine = Rest(plan.groups[g].mine, count, takeSave)]
               q == [plan EXCEPT !.groups[g].count = count,
                                 !.groups[g].mine = Rest(@, count, takeSave)]
    <3>1. q = [plan EXCEPT !.groups = [plan.groups EXCEPT ![g] = one]]
      BY <1>0 DEF Shape, PlanFields, Collection, GroupFields
    <3>2. DOMAIN one = GroupFields /\ one.factory = plan.groups[g].factory /\ one.built = plan.groups[g].built
      BY <1>0 DEF Shape, GroupFields
    <3>3. SyncGroup(plan, f, g, count, takeSave, n) = Resync(q, f, n)
      BY <2>2 DEF SyncGroup
    <3> HIDE DEF q, one
    <3>4. Same(plan, q)
      BY <1>0, <3>1, <3>2, GroupSetSame
    <3>5. Wired(q, n) /\ f \in DOMAIN q.factories
      BY <1>0, <1>k, <3>4, SameWired DEF Same, SameFactories
    <3>6. QED
      BY <3>3, <3>4, <3>5, ResyncGroups, OneWays DEF OneWay, Wired
  <2>3. QED
    BY <2>1, <2>2
<1>4. ASSUME NEW f \in Built("factories"), NEW g \in DOMAIN plan.groups, NEW to, NEW count, NEW takeSave
      PROVE  OneWay(plan, Retune(plan, f, g, to, count, takeSave, n))
  <2> DEFINE one == [plan.groups[g] EXCEPT !.recipe = to, !.count = count,
                                           !.mine = Rest(plan.groups[g].mine, count, takeSave)]
             q == [plan EXCEPT !.groups[g].recipe = to,
                               !.groups[g].count = count,
                               !.groups[g].mine = Rest(@, count, takeSave)]
  <2>1. q = [plan EXCEPT !.groups = [plan.groups EXCEPT ![g] = one]]
    BY <1>0 DEF Shape, PlanFields, Collection, GroupFields
  <2>2. DOMAIN one = GroupFields /\ one.factory = plan.groups[g].factory /\ one.built = plan.groups[g].built
    BY <1>0 DEF Shape, GroupFields
  <2>3. Retune(plan, f, g, to, count, takeSave, n) = Resync(q, f, n)
    BY DEF Retune
  <2> HIDE DEF q, one
  <2>4. Same(plan, q)
    BY <1>0, <2>1, <2>2, GroupSetSame
  <2>5. Wired(q, n) /\ f \in DOMAIN q.factories
    BY <1>0, <1>k, <2>4, SameWired DEF Same, SameFactories
  <2>6. QED
    BY <2>3, <2>4, <2>5, ResyncGroups, OneWays DEF OneWay, Wired
<1>5. ASSUME NEW f, NEW r, NEW count, NEW takeSave, SyncUpdate(f, r, count, takeSave)
      PROVE  OneWay(plan, plan')
  <2>1. f \in Built("factories")
    BY <1>5 DEF SyncUpdate
  <2>2. CASE Keyed(plan, f, r) = {}
    <3>1. Accept(SyncNewGroup(plan, f, r, count, n))
      BY <1>5, <2>2 DEF SyncUpdate
    <3>2. Wired(SyncNewGroup(plan, f, r, count, n), n)
      BY <1>0, <1>k, <2>1, SyncNewGroupWired
    <3>3. QED
      BY <1>2, <1>a, <2>1, <3>1, <3>2
  <2>3. CASE Keyed(plan, f, r) # {}
    <3>1. PICK g \in Keyed(plan, f, r) : Accept(SyncGroup(plan, f, g, count, takeSave, n))
      BY <1>5, <2>3 DEF SyncUpdate
    <3>2. g \in DOMAIN plan.groups
      BY <1>k, <2>1
    <3>3. Wired(SyncGroup(plan, f, g, count, takeSave, n), n)
      BY <1>0, <1>k, <2>1, <3>2, SyncGroupWired
    <3>4. QED
      BY <1>3, <1>a, <2>1, <3>1, <3>2, <3>3
  <2>4. QED
    BY <2>2, <2>3
<1>6. ASSUME NEW f, NEW r, NEW to, NEW count, NEW takeSave, SyncRetune(f, r, to, count, takeSave)
      PROVE  OneWay(plan, plan')
  <2>1. f \in Built("factories")
    BY <1>6 DEF SyncRetune
  <2>2. PICK g \in Keyed(plan, f, r) : Accept(Retune(plan, f, g, to, count, takeSave, n))
    BY <1>6 DEF SyncRetune
  <2>3. g \in DOMAIN plan.groups
    BY <1>k, <2>1
  <2>4. Wired(Retune(plan, f, g, to, count, takeSave, n), n)
    BY <1>0, <1>k, <2>1, <2>3, RetuneWired
  <2>5. QED
    BY <1>4, <1>a, <2>1, <2>2, <2>3, <2>4
<1>7. ASSUME NEW f, SyncRemove(f)
      PROVE  OneWay(plan, plan')
  <2>1. f \in DOMAIN plan.factories /\ Accept(RemoveFactory(plan, f))
    BY <1>7 DEF SyncRemove, Built
  <2>2. Less(plan, RemoveFactory(plan, f))
    BY <1>0, <2>1, RemoveFactoryLess
  <2>3. Wired(RemoveFactory(plan, f), n) /\ OneWay(plan, RemoveFactory(plan, f))
    BY <1>0, <2>2, LessWired, OneWays
  <2>4. QED
    BY <1>a, <2>1, <2>3
<1>8. QED
  BY <1>1, <1>5, <1>6, <1>7

(* Only an expansion takes a bank and adds others. *)
LEMMA NextOneWay ==
  ASSUME Inv, Next
  PROVE  OneWay(plan, plan') \/ \E g : ExpandGroup(g)
<1>0. scene \in Scenes
  BY DEF Inv
<1>a. Same(plan, plan') \/ Less(plan, plan') \/ More(plan, plan') => OneWay(plan, plan')
  BY OneWays
<1> DEFINE P == OneWay(plan, plan') \/ \E g : ExpandGroup(g)
<1>1. /\ \A at : CreateFactory(at) => P
      /\ \A f, recipe, count : AddGroup(f, recipe, count) => P
      /\ \A f, dir, item : AddPort(f, dir, item) => P
      /\ \A f, kind : kind \in scene.kinds /\ AddJunction(f, kind) => P
      /\ \A f, node : ClaimNode(f, node) => P
  <2>1. ASSUME NEW at, CreateFactory(at) PROVE P
    BY <1>a, <2>1, CreateFactoryMore
  <2>2. ASSUME NEW f, NEW recipe, NEW count, AddGroup(f, recipe, count) PROVE P
    BY <1>a, <2>2, AddGroupMore
  <2>3. ASSUME NEW f, NEW dir, NEW item, AddPort(f, dir, item) PROVE P
    BY <1>a, <2>3, AddPortMore
  <2>4. ASSUME NEW f, NEW kind \in scene.kinds, AddJunction(f, kind) PROVE P
    <3>1. kind \in JunctionKind
      BY <1>0, PlanAssumption
    <3>2. QED
      BY <1>a, <2>4, <3>1, AddJunctionMore
  <2>5. ASSUME NEW f, NEW node, ClaimNode(f, node) PROVE P
    BY <1>a, <2>5, ClaimNodeMore
  <2> HIDE DEF P
  <2>6. QED
    BY <2>1, <2>2, <2>3, <2>4, <2>5
<1>2. /\ \A s : DeleteStyleGuide(s) => P
      /\ \A f, at : MoveFactoryPin(f, at) => P
      /\ \A f, old : SetFactoryReplaces(f, old) => P
      /\ \A f, s : SetFactoryTheme(f, s) => P
      /\ \A g, recipe : SetGroupRecipe(g, recipe) => P
      /\ \A g, count : SetGroupCount(g, count) => P
      /\ \A kind, from, to : AddCargoRoute(kind, from, to) => P
      /\ \A c : SetClaim(c) => P
  BY <1>a, DeleteStyleGuideSame, MoveFactoryPinSame, SetFactoryReplacesSame, SetFactoryThemeSame,
     SetGroupRecipeSame, SetGroupCountSame, AddCargoRouteSame, SetClaimSame
<1>3. /\ CreateStyleGuide => P
      /\ \A from, to : AddPowerLine(from, to) => P
      /\ \A r, kind : SetRouteSpec(r, kind) => P
      /\ \A r : AddPrioritySwitch(r) => P
      /\ \A s : DeleteSwitch(s) => P
      /\ \A x, kept : SetBuildDone(x, kept) => P
  BY <1>a, UnwiredSteps
<1>4. /\ \A f : DeleteFactory(f) => P
      /\ \A g : DeleteGroup(g) => P
      /\ \A p : DeletePort(p) => P
      /\ \A e : DeleteEdge(e) => P
      /\ \A j : DeleteJunction(j) => P
      /\ \A r : DeleteRoute(r) => P
      /\ \A c : ReleaseNode(c) => P
  BY <1>a, DeleteSteps, DeleteEdgeLess, ReleaseNodeLess
<1>5. ASSUME NEW f \in DOMAIN plan.factories, NEW from \in End(plan), NEW to \in End(plan), NEW item,
             AddEdge(f, from, to, item)
      PROVE  P
  BY <1>a, <1>5, AddEdgeMore
<1>6. /\ \A c : ImportSave(c) \/ SyncCreate(c) => P
      /\ \A f, r, count, takeSave : SyncUpdate(f, r, count, takeSave) => P
      /\ \A f, r, to, count, takeSave : SyncRetune(f, r, to, count, takeSave) => P
      /\ \A f : SyncRemove(f) => P
  BY ImportsOneWay
<1>7. ASSUME NEW g, ExpandGroup(g) PROVE P
  BY <1>7
<1> HIDE DEF P
<1>8. P
  BY <1>1, <1>2, <1>3, <1>4, <1>5, <1>6, <1>7 DEF Next
<1>9. QED
  BY <1>8 DEF P

(* Each machine of an expanded bank is reached by each belt of the bank,
   through junctions, and nothing else is, whatever the bank's count.      *)
THEOREM ExpansionAlwaysFansOut == Spec => ExpansionFansOut
<1> DEFINE FansOut ==
             \A g \in DOMAIN plan.groups \ DOMAIN plan'.groups :
               LET new == DOMAIN plan'.groups \ DOMAIN plan.groups
               IN  new # {} =>
                     /\ Cardinality(new) = EffectiveCount(plan.groups[g])
                     /\ \A e \in Into(plan, GroupEnd(g)) :
                          Reached(plan', plan'.edges[e].to, "from", "to") = new
                     /\ \A e \in OutOf(plan, GroupEnd(g)) :
                          Reached(plan', plan'.edges[e].from, "to", "from") = new
<1>1. ASSUME Inv, [Next]_vars
      PROVE  [FansOut]_vars
  <2>1. CASE OneWay(plan, plan')
    BY <2>1 DEF OneWay
  <2>2. ASSUME NEW g, ExpandGroup(g) PROVE FansOut
    <3>1. Fans(plan, plan', g)
      BY <1>1, <2>2, ExpandGroupFans
    <3>2. QED
      BY <3>1 DEF Fans
  <2>3. CASE UNCHANGED vars
    BY <2>3
  <2> HIDE DEF FansOut
  <2>4. QED
    BY <1>1, <2>1, <2>2, <2>3, NextOneWay
<1>2. QED
  BY <1>1, Invariant, PTL DEF Spec, ExpansionFansOut
==============================================================================
