--------------------------- MODULE Advisor_proofs ----------------------------
(***************************************************************************)
(* What the advisor tells, for any scenes, debounce and acts of the user,  *)
(* and what circuits are, for any power lines.                             *)
(*                                                                         *)
(* A condition is steady when its events have the same key in all scenes:  *)
(* a circuit's may not be, for circuits are named by their place.  A       *)
(* steady condition that was told of or excused is accounted for: the gate *)
(* has its key (IInv).  So it is told of once, and an unmute never brings  *)
(* up what was seen while muted.                                           *)
(*                                                                         *)
(* Kept, Heard and Roots are recursive functions: each is unfolded to one  *)
(* pass, and what holds after all passes is handed on from pass to pass.   *)
(***************************************************************************)
EXTENDS Advisor, TLAPS, NaturalsInduction, WellFoundedInduction

------------------------------------------------------------------------------
(* Recursion over the prefixes of a list *)

(* A set of numbers that has a member has a least one. *)
LEMMA LeastMember ==
  ASSUME NEW S \in SUBSET Nat, S # {}
  PROVE  \E m \in S : \A k \in S : m <= k
<1>1. \E x \in S : \A y \in S : ~ (<<y, x>> \in OpToRel(<, Nat))
  BY NatLessThanWellFounded, WFMin
<1>2. ASSUME NEW x \in Nat, NEW y \in Nat, y < x
      PROVE  <<y, x>> \in OpToRel(<, Nat)
  BY <1>2, Zenon DEF OpToRel
<1>3. PICK m \in S : \A y \in S : ~ (<<y, m>> \in OpToRel(<, Nat))
  BY <1>1
<1>4. \A y \in S : ~ (y < m)
  BY <1>2, <1>3
<1>5. \A y \in S : m <= y
  BY <1>4
<1>6. QED
  BY <1>5

(* What holds at 0 and is handed on up to n holds up to n. *)
LEMMA HandedOn ==
  ASSUME NEW n \in Nat, NEW S, 0 \in S, \A k \in 1..n : k - 1 \in S => k \in S
  PROVE  \A k \in 0..n : k \in S
<1> DEFINE R == {k \in 0..n : k \notin S}
<1>1. SUFFICES ASSUME R # {} PROVE FALSE
  OBVIOUS
<1>2. R \in SUBSET Nat
  OBVIOUS
<1>3. PICK k \in R : \A j \in R : k <= j
  BY <1>1, <1>2, LeastMember
<1>4. k \in 1..n /\ k - 1 \in 0..n /\ k - 1 \notin R
  BY <1>3
<1>5. QED
  BY <1>3, <1>4

(* A recursion whose steps stay in T has a solution. *)
LEMMA StepsExist ==
  ASSUME NEW T, NEW x \in T, NEW n \in Nat, NEW step \in [1..n -> [T -> T]]
  PROVE  \E f \in [0..n -> T] : f[0] = x /\ \A k \in 1..n : f[k] = step[k][f[k - 1]]
<1> DEFINE Solves(f, m) == /\ f \in [0..m -> T] /\ f[0] = x
                           /\ \A k \in 1..m : f[k] = step[k][f[k - 1]]
           S == {m \in 0..n : \E f : Solves(f, m)}
<1>1. 0 \in S
  <2>1. Solves([k \in 0..0 |-> x], 0)
    OBVIOUS
  <2>2. \E f : Solves(f, 0)
    BY <2>1
  <2>3. 0 \in 0..n
    OBVIOUS
  <2> HIDE DEF Solves
  <2>4. QED
    BY <2>2, <2>3
<1>2. ASSUME NEW m \in 1..n, m - 1 \in S
      PROVE  m \in S
  <2>1. PICK f : Solves(f, m - 1)
    BY <1>2
  <2> DEFINE g == [k \in 0..m |-> IF k = m THEN step[m][f[m - 1]] ELSE f[k]]
  <2>2. \A k \in 0..(m - 1) : k \in 0..m /\ k # m /\ g[k] = f[k] /\ f[k] \in T
    BY <2>1
  <2>3. g[m] = step[m][f[m - 1]] /\ f[m - 1] \in T /\ g[m - 1] = f[m - 1]
    BY <2>1, <2>2
  <2>4. step[m][f[m - 1]] \in T
    BY <2>3
  <2>5. g \in [0..m -> T]
    <3>1. \A k \in 0..m : k = m \/ k \in 0..(m - 1)
      OBVIOUS
    <3>2. QED
      BY <2>2, <2>3, <2>4, <3>1
  <2>6. g[0] = x
    BY <2>1, <2>2
  <2>7. ASSUME NEW k \in 1..m
        PROVE  g[k] = step[k][g[k - 1]]
    <3>1. CASE k = m
      BY <2>3, <3>1
    <3>2. CASE k # m
      <4>1. k \in 1..(m - 1) /\ k \in 0..(m - 1) /\ k - 1 \in 0..(m - 1)
        BY <3>2
      <4>2. g[k] = f[k] /\ g[k - 1] = f[k - 1]
        BY <2>2, <4>1
      <4>3. f[k] = step[k][f[k - 1]]
        BY <2>1, <4>1
      <4>4. QED
        BY <4>2, <4>3
    <3>3. QED
      BY <3>1, <3>2
  <2> HIDE DEF g
  <2>8. Solves(g, m)
    BY <2>5, <2>6, <2>7
  <2>9. m \in 0..n
    OBVIOUS
  <2> HIDE DEF Solves
  <2>10. QED
    BY <2>8, <2>9
<1>3. n \in S
  <2> HIDE DEF S
  <2>1. n \in 0..n
    OBVIOUS
  <2>2. QED
    BY <1>1, <1>2, <2>1, HandedOn
<1>4. PICK f : Solves(f, n)
  BY <1>3
<1>5. QED
  BY <1>4

(* What a solution is. *)
Solution(T, x, n, step, f) ==
  f \in [0..n -> T] /\ f[0] = x /\ \A k \in 1..n : f[k] = step[k][f[k - 1]]

(* There is one. *)
LEMMA StepsSolve ==
  ASSUME NEW T, NEW x \in T, NEW n \in Nat, NEW step \in [1..n -> [T -> T]]
  PROVE  \E f : Solution(T, x, n, step, f)
BY StepsExist DEF Solution

------------------------------------------------------------------------------
(* Kept *)

(* The loop of Kept, pass by pass. *)
Keeps(seq, S, f) ==
  f = [k \in 0..Len(seq) |->
         IF k = 0 THEN <<>>
         ELSE IF seq[k] \in S THEN Append(f[k - 1], seq[k]) ELSE f[k - 1]]

(* There is such a loop, and Kept is what it ends with. *)
LEMMA KeptLoops ==
  ASSUME NEW T, NEW seq \in Seq(T), NEW S
  PROVE  \E f : Keeps(seq, S, f) /\ Kept(seq, S) = f[Len(seq)]
<1> DEFINE n == Len(seq)
           step == [k \in 1..n |-> [s \in Seq(T) |-> IF seq[k] \in S THEN Append(s, seq[k]) ELSE s]]
<1>1. n \in Nat /\ <<>> \in Seq(T) /\ \A k \in 1..n : seq[k] \in T
  OBVIOUS
<1>2. step \in [1..n -> [Seq(T) -> Seq(T)]]
  BY <1>1
<1>3. \A k \in 1..n, s \in Seq(T) :
        step[k][s] = IF seq[k] \in S THEN Append(s, seq[k]) ELSE s
  OBVIOUS
<1>4. \E f : Keeps(seq, S, f)
  <2> HIDE DEF step, n
  <2>1. PICK f \in [0..n -> Seq(T)] : f[0] = <<>> /\ \A k \in 1..n : f[k] = step[k][f[k - 1]]
    <3> DEFINE Q == Seq(T)
               none == <<>>
    <3>1. none \in Q /\ step \in [1..n -> [Q -> Q]] /\ n \in Nat
      BY <1>1, <1>2
    <3> HIDE DEF Q, none
    <3>2. \E f \in [0..n -> Q] : f[0] = none /\ \A k \in 1..n : f[k] = step[k][f[k - 1]]
      BY <3>1, StepsExist
    <3>3. QED
      BY <3>2 DEF Q, none
  <2>2. ASSUME NEW k \in 0..n
        PROVE  f[k] = IF k = 0 THEN <<>>
                      ELSE IF seq[k] \in S THEN Append(f[k - 1], seq[k]) ELSE f[k - 1]
    <3>1. CASE k = 0
      BY <2>1, <3>1
    <3>2. CASE k # 0
      <4>1. k \in 1..n /\ k - 1 \in 0..n
        BY <1>1, <3>2
      <4>2. f[k - 1] \in Seq(T) /\ f[k] = step[k][f[k - 1]]
        BY <2>1, <3>2, <4>1
      <4>3. QED
        BY <1>3, <3>2, <4>1, <4>2
    <3>3. QED
      BY <3>1, <3>2
  <2>3. Keeps(seq, S, f)
    BY <2>1, <2>2 DEF Keeps, n
  <2>4. QED
    BY <2>3
<1> DEFINE g == CHOOSE f : Keeps(seq, S, f)
<1>5. Keeps(seq, S, g)
  BY <1>4
<1>6. Kept(seq, S) = g[Len(seq)]
  BY DEF Kept, Keeps
<1>7. QED
  BY <1>5, <1>6

(* Sequences of members of seq that come in its order. *)
InOrder(s, seq) ==
  \A i, j \in DOMAIN s : i < j =>
    \E a, b \in DOMAIN seq : a < b /\ s[i] = seq[a] /\ s[j] = seq[b]

(* What is kept: the members in S, in the order of seq. *)
LEMMA KeptIs ==
  ASSUME NEW T, NEW seq \in Seq(T), NEW S
  PROVE  /\ Kept(seq, S) \in Seq(T)
         /\ Range(Kept(seq, S)) = Range(seq) \cap S
         /\ InOrder(Kept(seq, S), seq)
<1> DEFINE n == Len(seq)
<1>1. PICK f : Keeps(seq, S, f) /\ Kept(seq, S) = f[Len(seq)]
  BY KeptLoops
<1>2. n \in Nat /\ DOMAIN seq = 1..n /\ \A k \in 1..n : seq[k] \in T
  OBVIOUS
<1>3. f[0] = <<>>
  BY <1>1, <1>2 DEF Keeps
<1>4. ASSUME NEW k \in 1..n
      PROVE  f[k] = IF seq[k] \in S THEN Append(f[k - 1], seq[k]) ELSE f[k - 1]
  <2>1. k \in 0..Len(seq) /\ k # 0
    BY <1>2
  <2>2. QED
    BY <1>1, <2>1 DEF Keeps
<1> DEFINE Upto(k) == {seq[i] : i \in 1..k}
           Good(k) == /\ f[k] \in Seq(T)
                      /\ Range(f[k]) = Upto(k) \cap S
                      /\ \A i, j \in DOMAIN f[k] : i < j =>
                           \E a, b \in 1..k : a < b /\ f[k][i] = seq[a] /\ f[k][j] = seq[b]
<1>5. Good(0)
  <2>1. f[0] \in Seq(T) /\ DOMAIN f[0] = {}
    BY <1>3
  <2>2. QED
    BY <2>1 DEF Range
<1>6. ASSUME NEW k \in 1..n, Good(k - 1)
      PROVE  Good(k)
  <2> DEFINE old == f[k - 1]
  <2>1. Upto(k) = Upto(k - 1) \cup {seq[k]}
    <3>1. \A i : i \in 1..k <=> i \in 1..(k - 1) \/ i = k
      OBVIOUS
    <3>2. QED
      BY <3>1
  <2>2. old \in Seq(T) /\ Range(old) = Upto(k - 1) \cap S
    BY <1>6
  <2>3. \A i, j \in DOMAIN old : i < j =>
          \E a, b \in 1..(k - 1) : a < b /\ old[i] = seq[a] /\ old[j] = seq[b]
    BY <1>6
  <2>4. 1..(k - 1) \subseteq 1..k
    OBVIOUS
  <2>5. CASE seq[k] \notin S
    <3>1. f[k] = old
      BY <1>4, <2>5
    <3>2. Upto(k) \cap S = Upto(k - 1) \cap S
      BY <2>1, <2>5
    <3> HIDE DEF old, Upto
    <3>3. QED
      BY <2>2, <2>3, <2>4, <3>1, <3>2
  <2>6. CASE seq[k] \in S
    <3> DEFINE new == f[k]
    <3>1. new = Append(old, seq[k])
      BY <1>4, <2>6
    <3>2. seq[k] \in T
      BY <1>2
    <3> HIDE DEF old, new
    <3>3. /\ new \in Seq(T) /\ Len(new) = Len(old) + 1 /\ Len(old) \in Nat
          /\ DOMAIN old = 1..Len(old) /\ DOMAIN new = 1..(Len(old) + 1)
          /\ new[Len(old) + 1] = seq[k] /\ \A i \in DOMAIN old : new[i] = old[i]
      BY <2>2, <3>1, <3>2
    <3>4. \A i \in DOMAIN new : i \in DOMAIN old \/ i = Len(old) + 1
      BY <3>3
    <3>5. DOMAIN old \subseteq DOMAIN new /\ Len(old) + 1 \in DOMAIN new
      BY <3>3
    <3>6. Range(new) = Range(old) \cup {seq[k]}
      BY <3>3, <3>4, <3>5 DEF Range
    <3>7. Range(new) = Upto(k) \cap S
      <4> HIDE DEF Upto
      <4>1. QED
        BY <2>1, <2>2, <2>6, <3>6
    <3>8. ASSUME NEW i \in DOMAIN new, NEW j \in DOMAIN new, i < j
          PROVE  \E a, b \in 1..k : a < b /\ new[i] = seq[a] /\ new[j] = seq[b]
      <4>1. i \in DOMAIN old
        BY <3>3, <3>4, <3>8
      <4>2. CASE j \in DOMAIN old
        <5>1. PICK a, b \in 1..(k - 1) : a < b /\ old[i] = seq[a] /\ old[j] = seq[b]
          BY <2>3, <3>8, <4>1, <4>2
        <5>2. QED
          BY <2>4, <3>3, <4>1, <4>2, <5>1
      <4>3. CASE j = Len(old) + 1
        <5>1. new[i] \in Upto(k - 1)
          BY <2>2, <3>3, <4>1 DEF Range
        <5>2. PICK a \in 1..(k - 1) : new[i] = seq[a]
          BY <5>1
        <5>3. a \in 1..k /\ k \in 1..k /\ a < k
          OBVIOUS
        <5>4. QED
          BY <3>3, <4>3, <5>2, <5>3
      <4>4. QED
        BY <3>4, <4>2, <4>3
    <3>9. QED
      BY <3>3, <3>7, <3>8 DEF new
  <2>7. QED
    BY <2>5, <2>6
<1>7. Good(n)
  <2> DEFINE G == {k \in 0..n : Good(k)}
  <2>1. 0 \in G
    BY <1>2, <1>5
  <2>2. \A k \in 1..n : k - 1 \in G => k \in G
    <3> HIDE DEF Good, n
    <3>1. \A k \in 1..n : k \in 0..n
      BY <1>2
    <3>2. QED
      BY <1>6, <3>1
  <2>3. n \in G
    <3> HIDE DEF G
    <3>1. n \in 0..n
      BY <1>2
    <3> HIDE DEF n
    <3>2. QED
      BY <1>2, <2>1, <2>2, <3>1, HandedOn
  <2> HIDE DEF Good
  <2>4. QED
    BY <2>3
<1>8. Upto(n) = Range(seq)
  BY <1>2 DEF Range
<1>9. InOrder(f[n], seq)
  <2>1. \A i, j \in DOMAIN f[n] : i < j =>
          \E a, b \in 1..n : a < b /\ f[n][i] = seq[a] /\ f[n][j] = seq[b]
    BY <1>7
  <2>2. QED
    BY <1>2, <2>1 DEF InOrder
<1>10. f[n] \in Seq(T) /\ Range(f[n]) = Upto(n) \cap S
  BY <1>7
<1> HIDE DEF Good, Upto
<1>11. QED
  BY <1>1, <1>8, <1>9, <1>10

(* What a function on 1..n is as a list. *)
LEMMA ListIf ==
  ASSUME NEW n \in Nat, NEW x, x = [k \in 1..n |-> x[k]]
  PROVE  IsList(x) /\ Len(x) = n
<1>1. DOMAIN x = 1..n
  OBVIOUS
<1>2. \A k \in 1..n : x[k] \in Range(x)
  BY <1>1 DEF Range
<1>3. x \in [1..n -> Range(x)]
  BY <1>2
<1>4. x \in Seq(Range(x))
  BY <1>3
<1>5. QED
  BY <1>1, <1>4 DEF IsList

(* What is kept of a list is a list of its members. *)
LEMMA KeptList ==
  ASSUME NEW seq, IsList(seq), NEW S
  PROVE  /\ IsList(Kept(seq, S))
         /\ Range(Kept(seq, S)) = Range(seq) \cap S
         /\ InOrder(Kept(seq, S), seq)
<1> DEFINE kept == Kept(seq, S)
<1>1. seq \in Seq(Range(seq))
  BY DEF IsList
<1>2. kept \in Seq(Range(seq)) /\ Range(kept) = Range(seq) \cap S /\ InOrder(kept, seq)
  BY <1>1, KeptIs
<1> HIDE DEF kept
<1>3. DOMAIN kept = 1..Len(kept) /\ Len(kept) \in Nat /\ kept = [k \in 1..Len(kept) |-> kept[k]]
  BY <1>2
<1>4. IsList(kept)
  BY <1>3, ListIf
<1>5. QED
  BY <1>2, <1>4 DEF kept

------------------------------------------------------------------------------
(* Circuits *)

(* The loop of Roots, line by line. *)
RootLoops(p, root) ==
  root = [k \in 0..Len(p.lines) |->
            IF k = 0 THEN [f \in Factory |-> f] ELSE Union(root[k - 1], p.lines[k])]

(* There is such a loop, it maps factories to factories, and Roots is what *)
(* it ends with. *)
LEMMA RootsLoop ==
  ASSUME NEW p, p.lines \in Seq(Factory \X Factory)
  PROVE  \E root \in [0..Len(p.lines) -> [Factory -> Factory]] :
           /\ root[0] = [f \in Factory |-> f]
           /\ \A k \in 1..Len(p.lines) : root[k] = Union(root[k - 1], p.lines[k])
           /\ Roots(p) = root[Len(p.lines)]
<1> DEFINE n == Len(p.lines)
           R == [Factory -> Factory]
           id == [f \in Factory |-> f]
           step == [k \in 1..n |-> [r \in R |-> Union(r, p.lines[k])]]
<1>1. n \in Nat /\ id \in R /\ \A k \in 1..n : p.lines[k] \in Factory \X Factory
  OBVIOUS
<1>2. ASSUME NEW r \in R, NEW k \in 1..n
      PROVE  Union(r, p.lines[k]) \in R
  <2>1. p.lines[k][1] \in Factory /\ p.lines[k][2] \in Factory
    BY <1>1
  <2>2. QED
    BY <2>1 DEF Union
<1>3. step \in [1..n -> [R -> R]]
  <2> HIDE DEF R, n
  <2>1. QED
    BY <1>2
<1>4. \A k \in 1..n, r \in R : step[k][r] = Union(r, p.lines[k])
  OBVIOUS
<1> HIDE DEF step, n, R, id
<1>5. PICK f \in [0..n -> R] : f[0] = id /\ \A k \in 1..n : f[k] = step[k][f[k - 1]]
  BY <1>1, <1>3, StepsExist
<1>6. ASSUME NEW k \in 0..n
      PROVE  f[k] = IF k = 0 THEN id ELSE Union(f[k - 1], p.lines[k])
  <2>1. CASE k = 0
    BY <1>5, <2>1
  <2>2. CASE k # 0
    <3>1. k \in 1..n /\ k - 1 \in 0..n
      BY <1>1, <2>2
    <3>2. f[k - 1] \in R /\ f[k] = step[k][f[k - 1]]
      BY <1>5, <3>1
    <3>3. QED
      BY <1>4, <2>2, <3>1, <3>2
  <2>3. QED
    BY <2>1, <2>2
<1>7. RootLoops(p, f)
  BY <1>5, <1>6 DEF RootLoops, n, id
<1> DEFINE g == CHOOSE root : RootLoops(p, root)
<1>8. RootLoops(p, g)
  BY <1>7
<1>9. Roots(p) = g[n]
  BY DEF Roots, RootLoops, n
<1> HIDE DEF g
<1>10. g = [k \in 0..n |-> IF k = 0 THEN id ELSE Union(g[k - 1], p.lines[k])]
  BY <1>8 DEF RootLoops, n, id
<1>11. g[0] = id /\ \A k \in 1..n : g[k] = Union(g[k - 1], p.lines[k])
  <2>1. 0 \in 0..n /\ \A k \in 1..n : k \in 0..n /\ k # 0
    BY <1>1
  <2>2. QED
    BY <1>10, <2>1
<1>12. \A k \in 0..n : g[k] \in R
  <2> DEFINE T == {k \in 0..n : g[k] \in R}
  <2>1. 0 \in T
    BY <1>1, <1>11
  <2>2. \A k \in 1..n : k - 1 \in T => k \in T
    <3>1. SUFFICES ASSUME NEW k \in 1..n, g[k - 1] \in R PROVE k \in T
      OBVIOUS
    <3>2. g[k] \in R /\ k \in 0..n
      BY <1>1, <1>2, <1>11, <3>1
    <3>3. QED
      BY <3>2
  <2>3. \A k \in 0..n : k \in T
    <3> HIDE DEF T
    <3>1. QED
      BY <1>1, <2>1, <2>2, HandedOn
  <2>4. QED
    BY <2>3
<1>13. g \in [0..n -> R]
  BY <1>10, <1>12
<1>14. QED
  BY <1>9, <1>11, <1>13 DEF n, R, id

(* What shares a root with a member of s is in s. *)
Together(r, s) == \A f, g \in Factory : r[f] = r[g] /\ f \in s => g \in s

(* A line gives both of its ends one root, and leaves ends of one root     *)
(* together. *)
LEMMA UnionJoins ==
  ASSUME NEW r \in [Factory -> Factory], NEW a \in Factory, NEW b \in Factory,
         NEW line, line[1] = a, line[2] = b
  PROVE  /\ Union(r, line)[a] = Union(r, line)[b]
         /\ \A f, g \in Factory : r[f] = r[g] => Union(r, line)[f] = Union(r, line)[g]
         /\ \A s : (a \in s <=> b \in s) /\ Together(r, s) => Together(Union(r, line), s)
<1>1. \A f \in Factory : /\ r[f] = r[a] => Union(r, line)[f] = r[b]
                         /\ r[f] # r[a] => Union(r, line)[f] = r[f]
  BY DEF Union
<1>2. ASSUME NEW s, a \in s <=> b \in s,
             \A f, g \in Factory : r[f] = r[g] /\ f \in s => g \in s,
             NEW f \in Factory, NEW g \in Factory,
             Union(r, line)[f] = Union(r, line)[g], f \in s
      PROVE  g \in s
  <2>1. CASE r[f] = r[g]
    BY <1>2, <2>1
  <2>2. CASE r[f] = r[a] /\ r[g] # r[a]
    <3>1. r[b] = r[g] /\ a \in s
      BY <1>1, <1>2, <2>2
    <3>2. QED
      BY <1>2, <3>1
  <2>3. CASE r[g] = r[a] /\ r[f] # r[a]
    <3>1. r[f] = r[b]
      BY <1>1, <1>2, <2>3
    <3>2. b \in s
      BY <1>2, <3>1
    <3>3. QED
      BY <1>2, <2>3, <3>2
  <2>4. CASE r[f] # r[a] /\ r[g] # r[a]
    BY <1>1, <1>2, <2>1, <2>4
  <2>5. QED
    BY <2>1, <2>2, <2>3, <2>4
<1>3. \A s : (a \in s <=> b \in s) /\ Together(r, s) => Together(Union(r, line), s)
  BY <1>2 DEF Together
<1>4. QED
  BY <1>1, <1>3

(* Lines have one root at both ends, and what shares a root shares every   *)
(* set that no line leaves. *)
LEMMA RootsAre ==
  ASSUME NEW p, p.lines \in Seq(Factory \X Factory)
  PROVE  /\ Roots(p) \in [Factory -> Factory]
         /\ \A k \in DOMAIN p.lines : Roots(p)[p.lines[k][1]] = Roots(p)[p.lines[k][2]]
         /\ \A s : Closed(p, DOMAIN p.lines, s) => Together(Roots(p), s)
<1> DEFINE n == Len(p.lines)
           R == [Factory -> Factory]
           a(k) == p.lines[k][1]
           b(k) == p.lines[k][2]
<1>1. n \in Nat /\ DOMAIN p.lines = 1..n /\ \A k \in 1..n : a(k) \in Factory /\ b(k) \in Factory
  OBVIOUS
<1>2. PICK root \in [0..n -> R] :
        /\ root[0] = [f \in Factory |-> f]
        /\ \A k \in 1..n : root[k] = Union(root[k - 1], p.lines[k])
        /\ Roots(p) = root[n]
  BY RootsLoop
<1> DEFINE Sound(k) ==
      /\ \A j \in 1..k : root[k][a(j)] = root[k][b(j)]
      /\ \A s : Closed(p, 1..n, s) => Together(root[k], s)
<1>3. Sound(0)
  BY <1>2 DEF Together
<1>4. ASSUME NEW k \in 1..n, Sound(k - 1)
      PROVE  Sound(k)
  <2> DEFINE old == root[k - 1]
             new == root[k]
  <2>1. old \in R /\ new = Union(old, p.lines[k]) /\ a(k) \in Factory /\ b(k) \in Factory
    <3>1. k - 1 \in 0..n
      BY <1>1
    <3>2. QED
      BY <1>1, <1>2, <3>1
  <2>2. \A j \in 1..(k - 1) : old[a(j)] = old[b(j)]
    BY <1>4
  <2>3. \A s : Closed(p, 1..n, s) => Together(old, s)
    BY <1>4
  <2>4. \A j \in 1..k : j = k \/ j \in 1..(k - 1)
    OBVIOUS
  <2>5. \A j \in 1..k : j \in 1..n
    BY <1>1
  <2>6. \A s : Closed(p, 1..n, s) => (a(k) \in s <=> b(k) \in s)
    BY DEF Closed
  <2> DEFINE A == a(k)
             B == b(k)
             line == p.lines[k]
  <2>7. A \in Factory /\ B \in Factory /\ line[1] = A /\ line[2] = B /\ old \in [Factory -> Factory]
    BY <2>1
  <2>8. new = Union(old, line)
    BY <2>1
  <2> HIDE DEF old, new, A, B, line
  <2>9. /\ new[A] = new[B]
        /\ \A f, g \in Factory : old[f] = old[g] => new[f] = new[g]
        /\ \A s : (A \in s <=> B \in s) /\ Together(old, s) => Together(new, s)
    BY <2>7, <2>8, UnionJoins
  <2>10. \A j \in 1..k : new[a(j)] = new[b(j)]
    <3>1. ASSUME NEW j \in 1..(k - 1) PROVE new[a(j)] = new[b(j)]
      <4>1. a(j) \in Factory /\ b(j) \in Factory
        BY <1>1, <2>5
      <4>2. old[a(j)] = old[b(j)]
        BY <2>2
      <4>3. QED
        BY <2>9, <4>1, <4>2
    <3>2. new[a(k)] = new[b(k)]
      BY <2>9 DEF A, B
    <3>3. QED
      BY <2>4, <3>1, <3>2
  <2>11. \A s : Closed(p, 1..n, s) => Together(new, s)
    <3>1. \A s : Closed(p, 1..n, s) => (A \in s <=> B \in s)
      BY <2>6 DEF A, B
    <3>2. QED
      BY <2>3, <2>9, <3>1
  <2>12. QED
    BY <2>10, <2>11 DEF new
<1>5. Sound(n)
  <2> DEFINE T == {k \in 0..n : Sound(k)}
  <2>1. 0 \in T
    BY <1>1, <1>3
  <2>2. \A k \in 1..n : k - 1 \in T => k \in T
    <3> HIDE DEF Sound, n
    <3>1. \A k \in 1..n : k \in 0..n
      BY <1>1
    <3>2. QED
      BY <1>4, <3>1
  <2>3. \A k \in 0..n : k \in T
    <3> HIDE DEF T
    <3>1. QED
      BY <1>1, <2>1, <2>2, HandedOn
  <2> HIDE DEF Sound, n
  <2>4. n \in 0..n
    BY <1>1
  <2>5. QED
    BY <2>3, <2>4
<1>6. root[n] \in R
  BY <1>1, <1>2
<1>7. QED
  BY <1>1, <1>2, <1>5, <1>6

(* Kept keeps every factory once. *)
LEMMA KeptOnce ==
  ASSUME NEW S, NEW i \in DOMAIN Kept(FactoryOrder, S), NEW j \in DOMAIN Kept(FactoryOrder, S),
         i # j
  PROVE  Kept(FactoryOrder, S)[i] # Kept(FactoryOrder, S)[j]
<1> DEFINE kept == Kept(FactoryOrder, S)
<1>1. kept \in Seq(Factory) /\ InOrder(kept, FactoryOrder)
  BY FactoryAssumption, KeptIs
<1>2. \A x, y \in DOMAIN FactoryOrder : FactoryOrder[x] = FactoryOrder[y] => x = y
  BY FactoryAssumption DEF IsInjective
<1>3. DOMAIN FactoryOrder \subseteq Nat
  BY FactoryAssumption
<1> HIDE DEF kept
<1>4. ASSUME NEW x \in DOMAIN kept, NEW y \in DOMAIN kept, x < y
      PROVE  kept[x] # kept[y]
  <2>1. PICK u \in DOMAIN FactoryOrder, v \in DOMAIN FactoryOrder :
          u < v /\ kept[x] = FactoryOrder[u] /\ kept[y] = FactoryOrder[v]
    BY <1>1, <1>4 DEF InOrder
  <2>2. u # v
    BY <1>3, <2>1
  <2>3. QED
    BY <1>2, <2>1, <2>2
<1>5. i \in DOMAIN kept /\ j \in DOMAIN kept
  BY DEF kept
<1>6. i \in Nat /\ j \in Nat
  BY <1>1, <1>5
<1>7. i < j \/ j < i
  BY <1>6
<1>8. QED
  BY <1>4, <1>5, <1>7 DEF kept

(* The members of a circuit: the factories on the grid with one root. *)
LEMMA MembersAre ==
  ASSUME NEW p, NEW k \in DOMAIN Circuits(p)
  PROVE  LET S == {Roots(p)[f] : f \in InGrid(p)} IN
         /\ k \in DOMAIN Kept(FactoryOrder, S)
         /\ Circuits(p)[k].members
              = {f \in InGrid(p) : Roots(p)[f] = Kept(FactoryOrder, S)[k]}
<1> DEFINE S     == {Roots(p)[f] : f \in InGrid(p)}
           roots == Kept(FactoryOrder, S)
           Of(i) == {f \in InGrid(p) : Roots(p)[f] = roots[i]}
<1>1. Circuits(p) = [i \in DOMAIN roots |->
        [name |-> i, members |-> Of(i),
         gen |-> Total(p.gen, Of(i)), draw |-> Total(p.draw, Of(i))]]
  BY Zenon DEF Circuits
<1> HIDE DEF roots, Of
<1>2. k \in DOMAIN roots
  BY <1>1
<1>3. Circuits(p)[k].members = Of(k)
  BY <1>1, <1>2
<1>4. QED
  BY <1>2, <1>3 DEF roots, Of

(* Circuits are what power lines join: no two share a factory, each is all *)
(* that is joined to any of its members, and none on the grid is left out. *)
THEOREM CircuitsAreComponents ==
  ASSUME NEW p, p.lines \in Seq(Factory \X Factory)
  PROVE  /\ AreComponents(p)
         /\ \A f \in InGrid(p) : \E k \in DOMAIN Circuits(p) : f \in Circuits(p)[k].members
<1> DEFINE on    == DOMAIN p.lines
           r     == Roots(p)
           G     == InGrid(p)
           S     == {r[f] : f \in G}
           roots == Kept(FactoryOrder, S)
           cs    == Circuits(p)
<1>1. /\ r \in [Factory -> Factory]
      /\ \A k \in on : r[p.lines[k][1]] = r[p.lines[k][2]]
      /\ \A s : Closed(p, on, s) => Together(r, s)
  BY RootsAre
<1>2. \A k \in on : p.lines[k][1] \in Factory /\ p.lines[k][2] \in Factory
  OBVIOUS
<1>3. \A f : f \in G <=> \E k \in on : f = p.lines[k][1] \/ f = p.lines[k][2]
  BY DEF InGrid
<1>4. G \subseteq Factory
  <2> HIDE DEF on, G
  <2>1. QED
    BY <1>2, <1>3
<1>5. Closed(p, on, G)
  <2> HIDE DEF on, G
  <2>1. QED
    BY <1>3 DEF Closed
<1>6. ASSUME NEW k \in DOMAIN cs
      PROVE  /\ k \in DOMAIN roots
             /\ \A f : f \in cs[k].members <=> f \in G /\ r[f] = roots[k]
  <2>1. k \in DOMAIN roots /\ cs[k].members = {f \in G : r[f] = roots[k]}
    BY MembersAre, Zenon
  <2> HIDE DEF r, G, S, roots, cs
  <2>2. QED
    BY <2>1
<1>7. DOMAIN cs = DOMAIN roots
  BY Zenon DEF Circuits
<1>8. \A i, j \in DOMAIN roots : i # j => roots[i] # roots[j]
  BY KeptOnce
<1>9. Range(roots) = Factory \cap S
  BY FactoryAssumption, KeptIs DEF Factory
<1> HIDE DEF on, r, G, S, roots, cs
<1>10. ASSUME NEW i \in DOMAIN cs, NEW j \in DOMAIN cs, i # j
       PROVE  cs[i].members \cap cs[j].members = {}
  BY <1>6, <1>7, <1>8, <1>10
<1>11. ASSUME NEW i \in DOMAIN cs, NEW f \in cs[i].members
       PROVE  cs[i].members = Joined(p, on, f)
  <2>1. f \in G /\ r[f] = roots[i] /\ f \in Factory
    BY <1>4, <1>6
  <2> DEFINE same == {g \in Factory : r[g] = r[f]}
  <2>2. Closed(p, on, same)
    BY <1>1, <1>2 DEF Closed
  <2>3. same \in SUBSET Factory /\ f \in same /\ G \in SUBSET Factory
    BY <1>4, <2>1
  <2>4. ASSUME NEW g \in Joined(p, on, f)
        PROVE  g \in cs[i].members
    <3>1. \A s \in SUBSET Factory : f \in s /\ Closed(p, on, s) => g \in s
      BY DEF Joined
    <3>2. g \in same /\ g \in G
      <4> HIDE DEF same
      <4>1. QED
        BY <1>5, <2>1, <2>2, <2>3, <3>1
    <3>3. QED
      BY <1>6, <2>1, <3>2
  <2>5. ASSUME NEW g \in cs[i].members
        PROVE  g \in Joined(p, on, f)
    <3>1. g \in Factory /\ r[f] = r[g]
      BY <1>4, <1>6, <2>1
    <3>2. \A s \in SUBSET Factory : f \in s /\ Closed(p, on, s) => g \in s
      BY <1>1, <2>1, <3>1 DEF Together
    <3>3. QED
      BY <3>1, <3>2 DEF Joined
  <2>6. QED
    BY <2>4, <2>5
<1>12. AreComponents(p)
  BY <1>10, <1>11 DEF AreComponents, cs, on
<1>13. ASSUME NEW f \in G
       PROVE  \E k \in DOMAIN cs : f \in cs[k].members
  <2>1. r[f] \in Factory /\ r[f] \in S
    BY <1>1, <1>4 DEF S
  <2>2. PICK k \in DOMAIN roots : roots[k] = r[f]
    BY <1>9, <2>1 DEF Range
  <2>3. QED
    BY <1>6, <1>7, <2>2
<1>14. QED
  BY <1>12, <1>13 DEF cs, G

------------------------------------------------------------------------------
(* Sums *)

(* One pass of Total: the sum with the k-th factory, if it is a member. *)
Adds(mw, members, k, sum) ==
  IF FactoryOrder[k] \in members THEN sum + mw[FactoryOrder[k]] ELSE sum

(* The loop of Total, factory by factory. *)
TotalLoops(mw, members, f) ==
  f = [k \in 0..Len(FactoryOrder) |-> IF k = 0 THEN 0 ELSE Adds(mw, members, k, f[k - 1])]

(* There is such a loop over natural numbers, and Total is what it ends with. *)
LEMMA TotalLoop ==
  ASSUME NEW mw \in [Factory -> Nat], NEW members
  PROVE  \E f \in [0..Len(FactoryOrder) -> Nat] :
           /\ f[0] = 0
           /\ \A k \in 1..Len(FactoryOrder) : f[k] = Adds(mw, members, k, f[k - 1])
           /\ Total(mw, members) = f[Len(FactoryOrder)]
<1> DEFINE n == Len(FactoryOrder)
           step == [k \in 1..n |-> [x \in Nat |-> Adds(mw, members, k, x)]]
<1>1. n \in Nat /\ 0 \in Nat /\ \A k \in 1..n : FactoryOrder[k] \in Factory
  BY FactoryAssumption
<1>2. ASSUME NEW k \in 1..n, NEW x \in Nat
      PROVE  Adds(mw, members, k, x) \in Nat
  <2>1. mw[FactoryOrder[k]] \in Nat
    BY <1>1
  <2>2. QED
    BY <2>1 DEF Adds
<1>3. step \in [1..n -> [Nat -> Nat]]
  <2> HIDE DEF n
  <2>1. QED
    BY <1>2
<1>4. \A k \in 1..n, x \in Nat : step[k][x] = Adds(mw, members, k, x)
  OBVIOUS
<1> HIDE DEF step, n
<1>5. PICK f \in [0..n -> Nat] : f[0] = 0 /\ \A k \in 1..n : f[k] = step[k][f[k - 1]]
  <2> DEFINE N == Nat
             none == 0
  <2>1. none \in N /\ step \in [1..n -> [N -> N]]
    BY <1>1, <1>3
  <2> HIDE DEF N, none
  <2>2. \E f \in [0..n -> N] : f[0] = none /\ \A k \in 1..n : f[k] = step[k][f[k - 1]]
    BY <1>1, <2>1, StepsExist
  <2>3. QED
    BY <2>2 DEF N, none
<1>6. ASSUME NEW k \in 0..n
      PROVE  f[k] = IF k = 0 THEN 0 ELSE Adds(mw, members, k, f[k - 1])
  <2>1. CASE k = 0
    BY <1>5, <2>1
  <2>2. CASE k # 0
    <3>1. k \in 1..n /\ k - 1 \in 0..n
      BY <1>1, <2>2
    <3>2. f[k - 1] \in Nat /\ f[k] = step[k][f[k - 1]]
      BY <1>5, <3>1
    <3>3. QED
      BY <1>4, <2>2, <3>1, <3>2
  <2>3. QED
    BY <2>1, <2>2
<1>7. TotalLoops(mw, members, f)
  BY <1>5, <1>6 DEF TotalLoops, n
<1> DEFINE g == CHOOSE h : TotalLoops(mw, members, h)
<1>8. TotalLoops(mw, members, g)
  BY <1>7
<1>9. Total(mw, members) = g[n]
  BY DEF Total, TotalLoops, Adds, n
<1> HIDE DEF g
<1>10. g = [k \in 0..n |-> IF k = 0 THEN 0 ELSE Adds(mw, members, k, g[k - 1])]
  BY <1>8 DEF TotalLoops, n
<1>11. g[0] = 0 /\ \A k \in 1..n : g[k] = Adds(mw, members, k, g[k - 1])
  <2>1. 0 \in 0..n /\ \A k \in 1..n : k \in 0..n /\ k # 0
    BY <1>1
  <2>2. QED
    BY <1>10, <2>1
<1>12. \A k \in 0..n : g[k] \in Nat
  <2> DEFINE T == {k \in 0..n : g[k] \in Nat}
  <2>1. 0 \in T
    BY <1>1, <1>11
  <2>2. \A k \in 1..n : k - 1 \in T => k \in T
    <3>1. SUFFICES ASSUME NEW k \in 1..n, g[k - 1] \in Nat PROVE k \in T
      OBVIOUS
    <3>2. g[k] = Adds(mw, members, k, g[k - 1])
      BY <1>11
    <3>3. g[k] \in Nat
      BY <1>2, <3>1, <3>2
    <3>4. k \in 0..n
      BY <1>1
    <3>5. QED
      BY <3>3, <3>4
  <2>3. \A k \in 0..n : k \in T
    <3> HIDE DEF T
    <3>1. QED
      BY <1>1, <2>1, <2>2, HandedOn
  <2>4. QED
    BY <2>3
<1>13. g \in [0..n -> Nat]
  BY <1>10, <1>12
<1>14. QED
  BY <1>9, <1>11, <1>13 DEF n

(* A sum over no factory is 0; over two disjoint sets it is the sum of both. *)
LEMMA TotalAdds ==
  ASSUME NEW mw \in [Factory -> Nat], NEW A, NEW B, A \cap B = {}
  PROVE  /\ Total(mw, A) \in Nat /\ Total(mw, B) \in Nat /\ Total(mw, {}) = 0
         /\ Total(mw, A \cup B) = Total(mw, A) + Total(mw, B)
<1> DEFINE n == Len(FactoryOrder)
           C == A \cup B
           E == {}
<1>1. n \in Nat /\ \A k \in 1..n : FactoryOrder[k] \in Factory
  BY FactoryAssumption
<1>2. \A x : (x \in C <=> x \in A \/ x \in B) /\ ~(x \in A /\ x \in B) /\ x \notin E
  OBVIOUS
<1> HIDE DEF C, E
<1>3. PICK a \in [0..n -> Nat] :
        a[0] = 0 /\ (\A k \in 1..n : a[k] = Adds(mw, A, k, a[k - 1])) /\ Total(mw, A) = a[n]
  BY TotalLoop
<1>4. PICK b \in [0..n -> Nat] :
        b[0] = 0 /\ (\A k \in 1..n : b[k] = Adds(mw, B, k, b[k - 1])) /\ Total(mw, B) = b[n]
  BY TotalLoop
<1>5. PICK c \in [0..n -> Nat] :
        c[0] = 0 /\ (\A k \in 1..n : c[k] = Adds(mw, C, k, c[k - 1])) /\ Total(mw, C) = c[n]
  BY TotalLoop
<1>6. PICK e \in [0..n -> Nat] :
        e[0] = 0 /\ (\A k \in 1..n : e[k] = Adds(mw, E, k, e[k - 1])) /\ Total(mw, E) = e[n]
  BY TotalLoop
<1> HIDE DEF n
<1> DEFINE T == {k \in 0..n : c[k] = a[k] + b[k] /\ e[k] = 0}
<1>7. 0 \in T
  BY <1>1, <1>3, <1>4, <1>5, <1>6
<1>8. \A k \in 1..n : k - 1 \in T => k \in T
  <2>1. SUFFICES ASSUME NEW k \in 1..n, c[k - 1] = a[k - 1] + b[k - 1], e[k - 1] = 0
                 PROVE  k \in T
    OBVIOUS
  <2> DEFINE x == FactoryOrder[k]
             y == mw[x]
             a0 == a[k - 1]
             b0 == b[k - 1]
  <2>2. k \in 0..n /\ k - 1 \in 0..n
    BY <1>1
  <2>3. y \in Nat /\ a0 \in Nat /\ b0 \in Nat
    BY <1>1, <2>2
  <2>4. /\ a[k] = IF x \in A THEN a0 + y ELSE a0
        /\ b[k] = IF x \in B THEN b0 + y ELSE b0
        /\ c[k] = IF x \in C THEN (a0 + b0) + y ELSE a0 + b0
        /\ e[k] = IF x \in E THEN y ELSE 0
    BY <1>3, <1>4, <1>5, <1>6, <2>1, <2>3 DEF Adds
  <2> HIDE DEF x, y, a0, b0
  <2>5. c[k] = a[k] + b[k] /\ e[k] = 0
    BY <1>2, <2>3, <2>4
  <2>6. QED
    BY <2>2, <2>5
<1>9. n \in T
  <2> HIDE DEF T
  <2>1. n \in 0..n
    BY <1>1
  <2>2. QED
    BY <1>1, <1>7, <1>8, <2>1, HandedOn
<1>10. a[n] \in Nat /\ b[n] \in Nat
  BY <1>1
<1>11. QED
  BY <1>3, <1>4, <1>5, <1>6, <1>9, <1>10 DEF C, E

(* Sums are natural numbers, that of no factory is 0. *)
LEMMA TotalNat ==
  ASSUME NEW mw \in [Factory -> Nat], NEW A
  PROVE  Total(mw, A) \in Nat /\ Total(mw, {}) = 0
<1> DEFINE none == {}
<1>1. A \cap none = {}
  OBVIOUS
<1> HIDE DEF none
<1>2. QED
  BY <1>1, TotalAdds

------------------------------------------------------------------------------
(* Shedding *)

(* A map of power in the form that the scenes have. *)
IsMap(p) ==
  /\ p.lines \in Seq(Factory \X Factory)
  /\ p.switches \subseteq [line : DOMAIN p.lines, priority : 1..8]
  /\ p.gen \in [Factory -> Nat] /\ p.draw \in [Factory -> Nat]

(* M is cut out by no line of `on`, and what no line leaves has all of M or *)
(* nothing of it. *)
Whole(p, on, M) ==
  /\ Closed(p, on, M)
  /\ \A f \in M : \A s \in SUBSET Factory : f \in s /\ Closed(p, on, s) => M \subseteq s

(* The members of a circuit are factories, whole under its own lines. *)
LEMMA CircuitIs ==
  ASSUME NEW p, IsMap(p), NEW c \in Range(Circuits(p))
  PROVE  /\ c.members \subseteq Factory
         /\ OnCircuit(p, c) \subseteq DOMAIN p.lines
         /\ \A k \in OnCircuit(p, c) : p.lines[k][1] \in c.members /\ p.lines[k][2] \in c.members
         /\ Whole(p, OnCircuit(p, c), c.members)
         /\ c.gen = Total(p.gen, c.members) /\ c.draw = Total(p.draw, c.members)
<1> DEFINE M    == c.members
           all  == DOMAIN p.lines
           on   == OnCircuit(p, c)
           S     == {Roots(p)[f] : f \in InGrid(p)}
           roots == Kept(FactoryOrder, S)
           Of(i) == {f \in InGrid(p) : Roots(p)[f] = roots[i]}
<1>1. PICK i \in DOMAIN Circuits(p) : c = Circuits(p)[i]
  BY Zenon DEF Range
<1>2. /\ \A j \in DOMAIN Circuits(p) : \A f \in Circuits(p)[j].members :
           Circuits(p)[j].members = Joined(p, all, f)
  BY CircuitsAreComponents DEF AreComponents, IsMap
<1>3. \A f \in M : M = Joined(p, all, f)
  BY <1>1, <1>2
<1>4. p.lines \in Seq(Factory \X Factory)
  BY DEF IsMap
<1>5. \A k \in all : p.lines[k][1] \in Factory /\ p.lines[k][2] \in Factory
  BY <1>4
<1>6. Circuits(p) = [j \in DOMAIN roots |->
        [name |-> j, members |-> Of(j),
         gen |-> Total(p.gen, Of(j)), draw |-> Total(p.draw, Of(j))]]
  BY Zenon DEF Circuits
<1>7. c.members = Of(i) /\ c.gen = Total(p.gen, Of(i)) /\ c.draw = Total(p.draw, Of(i))
  <2> HIDE DEF roots, Of
  <2>1. QED
    BY <1>1, <1>6
<1>8. \A f : f \in M <=> f \in InGrid(p) /\ Roots(p)[f] = roots[i]
  BY <1>7
<1>9. \A k \in all : Roots(p)[p.lines[k][1]] = Roots(p)[p.lines[k][2]]
  BY <1>4, RootsAre
<1>10. \A f : f \in InGrid(p) <=> \E k \in all : f = p.lines[k][1] \/ f = p.lines[k][2]
  BY DEF InGrid
<1> HIDE DEF roots, all, Of
<1>11. \A k \in all : p.lines[k][1] \in M <=> p.lines[k][2] \in M
  <2> HIDE DEF M
  <2>1. QED
    BY <1>8, <1>9, <1>10
<1>12. M \subseteq Factory
  BY <1>3 DEF Joined
<1>13. \A k : k \in on <=> k \in all /\ p.lines[k][1] \in M
  BY DEF OnCircuit, all
<1> HIDE DEF M, on
<1>14. Closed(p, on, M)
  BY <1>11, <1>13 DEF Closed
<1>15. ASSUME NEW f \in M, NEW s \in SUBSET Factory, f \in s, Closed(p, on, s)
       PROVE  M \subseteq s
  <2> DEFINE t == s \cap M
  <2>1. Closed(p, all, t)
    BY <1>11, <1>13, <1>15 DEF Closed
  <2>2. t \in SUBSET Factory /\ f \in t
    BY <1>15
  <2> HIDE DEF t
  <2>3. \A g \in M : g \in t
    BY <1>3, <2>1, <2>2 DEF Joined
  <2>4. QED
    BY <2>3 DEF t
<1>16. Whole(p, on, M)
  BY <1>14, <1>15 DEF Whole
<1>17. QED
  BY <1>7, <1>11, <1>12, <1>13, <1>16 DEF M, on, all

(* What a switch that splits its circuit cuts off: a part of it that only  *)
(* the switch's line leaves, and that generates no more than the rest. *)
LEMMA LoadIs ==
  ASSUME NEW p, IsMap(p), NEW c \in Range(Circuits(p)), NEW sw, sw.line \in OnCircuit(p, c),
         Splits(p, c, sw.line)
  PROVE  LET L == LoadSide(p, c, sw) IN
         /\ L \subseteq c.members
         /\ Closed(p, OnCircuit(p, c) \ {sw.line}, L)
         /\ ~ (p.lines[sw.line][1] \in L <=> p.lines[sw.line][2] \in L)
         /\ 2 * Total(p.gen, L) <= c.gen
<1> DEFINE M    == c.members
           on   == OnCircuit(p, c)
           rest == on \ {sw.line}
           a    == p.lines[sw.line][1]
           b    == p.lines[sw.line][2]
           far  == Joined(p, rest, b)
           L    == LoadSide(p, c, sw)
<1>1. /\ M \subseteq Factory /\ a \in M /\ b \in M /\ Closed(p, on, M)
      /\ c.gen = Total(p.gen, M)
      /\ \A k \in on : p.lines[k][1] \in M /\ p.lines[k][2] \in M
  BY CircuitIs DEF Whole
<1>2. a \notin far
  BY DEF Splits
<1>3. p.gen \in [Factory -> Nat]
  BY DEF IsMap
<1>4. L = IF 2 * Total(p.gen, far) <= c.gen THEN far ELSE M \ far
  BY Zenon DEF LoadSide
<1> HIDE DEF L, M, on, a, b
<1>5. b \in far
  BY <1>1 DEF Joined
<1>6. Closed(p, rest, far)
  <2>1. ASSUME NEW k \in rest, NEW x \in Factory, NEW y \in Factory, x \in far,
               \/ x = p.lines[k][1] /\ y = p.lines[k][2]
               \/ y = p.lines[k][1] /\ x = p.lines[k][2]
        PROVE  y \in far
    <3>1. \A s \in SUBSET Factory : b \in s /\ Closed(p, rest, s) => x \in s
      BY <2>1 DEF Joined
    <3>2. \A s : Closed(p, rest, s) => (x \in s <=> y \in s)
      BY <2>1 DEF Closed
    <3>3. \A s \in SUBSET Factory : b \in s /\ Closed(p, rest, s) => y \in s
      BY <3>1, <3>2
    <3>4. QED
      BY <3>3 DEF Joined
  <2>2. \A k \in rest : p.lines[k][1] \in Factory /\ p.lines[k][2] \in Factory
    BY <1>1
  <2> HIDE DEF far, rest
  <2>3. \A k \in rest : p.lines[k][1] \in far <=> p.lines[k][2] \in far
    BY <2>1, <2>2
  <2>4. QED
    BY <2>3 DEF Closed
<1>7. Closed(p, rest, M)
  BY <1>1 DEF Closed
<1>8. far \subseteq M
  <2>1. M \in SUBSET Factory /\ b \in M
    BY <1>1
  <2>2. QED
    BY <1>7, <2>1 DEF Joined
<1> HIDE DEF far
<1>9. Closed(p, rest, M \ far)
  BY <1>6, <1>7 DEF Closed
<1>10. /\ Total(p.gen, far) \in Nat /\ Total(p.gen, M \ far) \in Nat
       /\ c.gen = Total(p.gen, far) + Total(p.gen, M \ far)
  <2> DEFINE other == M \ far
  <2>1. far \cap other = {} /\ far \cup other = M
    BY <1>8
  <2> HIDE DEF other
  <2>2. /\ Total(p.gen, far) \in Nat /\ Total(p.gen, other) \in Nat
        /\ Total(p.gen, far \cup other) = Total(p.gen, far) + Total(p.gen, other)
    BY <1>3, <2>1, TotalAdds
  <2>3. QED
    BY <1>1, <2>1, <2>2 DEF other
<1>11. CASE 2 * Total(p.gen, far) <= c.gen
  <2>1. L = far
    BY <1>4, <1>11
  <2>2. QED
    BY <1>2, <1>5, <1>6, <1>8, <1>11, <2>1 DEF L, M, on, rest, a, b
<1>12. CASE ~ (2 * Total(p.gen, far) <= c.gen)
  <2>1. L = M \ far
    BY <1>4, <1>12
  <2>2. a \in L /\ b \notin L
    BY <1>1, <1>2, <1>5, <2>1
  <2> DEFINE x == Total(p.gen, far)
             y == Total(p.gen, M \ far)
  <2>3. x \in Nat /\ y \in Nat /\ c.gen = x + y /\ ~ (2 * x <= c.gen)
    BY <1>10, <1>12
  <2> HIDE DEF x, y
  <2>4. 2 * y <= c.gen
    BY <2>3
  <2>5. L \subseteq M /\ Closed(p, rest, L) /\ 2 * Total(p.gen, L) <= c.gen
    BY <1>9, <2>1, <2>4 DEF y
  <2>6. QED
    BY <2>2, <2>5 DEF L, M, on, rest, a, b
<1>13. QED
  BY <1>11, <1>12

(* Parts of M that keep out of each other's way, each hanging on a line of  *)
(* its own. *)
Parts(p, on, M, J, line, L) ==
  /\ \A j \in J : line[j] \in on
  /\ \A i, j \in J : i # j => line[i] # line[j] /\ L[i] \cap L[j] = {}
  /\ \A j \in J : /\ L[j] \subseteq M /\ Closed(p, on \ {line[j]}, L[j])
                  /\ ~ (p.lines[line[j]][1] \in L[j] <=> p.lines[line[j]][2] \in L[j])

(* Cut such parts off a whole, and what remains is whole under the          *)
(* remaining lines. *)
LEMMA Cuts ==
  ASSUME NEW p, NEW on, NEW M \in SUBSET Factory, Whole(p, on, M),
         \A k \in on : p.lines[k][1] \in M /\ p.lines[k][2] \in M,
         NEW J, NEW line, NEW L, Parts(p, on, M, J, line, L)
  PROVE  Whole(p, on \ {line[j] : j \in J}, M \ UNION {L[j] : j \in J})
<1> DEFINE off  == {line[j] : j \in J}
           rest == on \ off
           kept == M \ UNION {L[j] : j \in J}
           x(k) == p.lines[k][1]
           y(k) == p.lines[k][2]
<1>1. \A k \in on : x(k) \in M /\ y(k) \in M
  OBVIOUS
<1>2. \A j \in J : \A k \in on : k # line[j] => (x(k) \in L[j] <=> y(k) \in L[j])
  BY DEF Parts, Closed
<1>3. \A j \in J : line[j] \in on /\ ~ (x(line[j]) \in L[j] <=> y(line[j]) \in L[j])
  BY DEF Parts
<1>4. \A f : f \in kept <=> f \in M /\ \A j \in J : f \notin L[j]
  OBVIOUS
<1>5. \A k : k \in rest <=> k \in on /\ \A j \in J : k # line[j]
  OBVIOUS
<1>6. \A j \in J : \A f \in L[j] : f \in M
  BY DEF Parts
<1>7. \A i, j \in J : i # j => line[i] # line[j] /\ \A f : ~ (f \in L[i] /\ f \in L[j])
  BY DEF Parts
<1>8. \A f \in M : \A s \in SUBSET Factory : f \in s /\ Closed(p, on, s) => M \subseteq s
  BY DEF Whole
<1> HIDE DEF rest, kept, off
<1>9. Closed(p, rest, kept)
  <2>1. \A k \in rest : x(k) \in kept <=> y(k) \in kept
    BY <1>1, <1>2, <1>4, <1>5
  <2>2. QED
    BY <2>1 DEF Closed
<1>10. ASSUME NEW f \in kept, NEW s \in SUBSET Factory, f \in s, Closed(p, rest, s)
       PROVE  kept \subseteq s
  <2> DEFINE in == s \cap kept
             Hangs(j) == x(line[j]) \in in \/ y(line[j]) \in in
             t == in \cup {g \in M : \E j \in J : g \in L[j] /\ Hangs(j)}
  <2>1. \A k \in rest : x(k) \in in <=> y(k) \in in
    BY <1>9, <1>10 DEF Closed
  <2>2. \A g \in in : g \in kept /\ \A j \in J : g \notin L[j]
    BY <1>4
  <2>3. \A g \in t : g \in in \/ \E j \in J : g \in L[j] /\ Hangs(j)
    OBVIOUS
  <2>4. \A g \in M : (\E j \in J : g \in L[j] /\ Hangs(j)) => g \in t
    OBVIOUS
  <2>5. \A g \in in : g \in t
    OBVIOUS
  <2>6. ASSUME NEW k \in rest
        PROVE  x(k) \in t <=> y(k) \in t
    <3>1. k \in on /\ \A j \in J : k # line[j]
      BY <1>5
    <3>2. x(k) \in M /\ y(k) \in M
      BY <1>1, <3>1
    <3>3. \A j \in J : x(k) \in L[j] <=> y(k) \in L[j]
      BY <1>2, <3>1
    <3> HIDE DEF in, Hangs, t
    <3>4. QED
      BY <2>1, <2>3, <2>4, <2>5, <3>2, <3>3
  <2>7. ASSUME NEW j \in J, NEW u, NEW v, u \in L[j], v \notin L[j],
               \/ u = x(line[j]) /\ v = y(line[j])
               \/ v = x(line[j]) /\ u = y(line[j])
        PROVE  u \in t <=> v \in t
    <3>1. line[j] \in on /\ u \in M /\ v \in M
      BY <1>1, <1>3, <2>7
    <3>2. ASSUME NEW i \in J, i # j PROVE v \notin L[i] /\ u \notin L[i]
      <4>1. line[i] # line[j] /\ u \notin L[i]
        BY <1>7, <2>7, <3>2
      <4>2. x(line[j]) \in L[i] <=> y(line[j]) \in L[i]
        BY <1>2, <3>1, <4>1
      <4>3. QED
        BY <2>7, <4>1, <4>2
    <3>3. \A i \in J : v \notin L[i]
      BY <2>7, <3>2
    <3>4. u \notin in
      BY <2>2, <2>7
    <3>5. Hangs(j) <=> v \in in
      BY <2>7, <3>4
    <3> HIDE DEF in, Hangs, t
    <3>6. v \in t <=> v \in in
      BY <2>3, <2>5, <3>3
    <3>7. u \in t <=> Hangs(j)
      BY <2>3, <2>4, <2>7, <3>1, <3>2, <3>4
    <3>8. QED
      BY <3>5, <3>6, <3>7
  <2>8. ASSUME NEW k \in on
        PROVE  x(k) \in t <=> y(k) \in t
    <3>1. CASE k \in rest
      BY <2>6, <3>1
    <3>2. CASE k \notin rest
      <4>1. PICK j \in J : k = line[j]
        BY <1>5, <3>2
      <4>2. \/ x(k) \in L[j] /\ y(k) \notin L[j]
            \/ y(k) \in L[j] /\ x(k) \notin L[j]
        BY <1>3, <4>1
      <4> HIDE DEF t
      <4>3. QED
        BY <2>7, <4>1, <4>2
    <3>3. QED
      BY <3>1, <3>2
  <2>9. t \in SUBSET Factory /\ f \in t /\ f \in M
    BY <1>4, <1>10
  <2> HIDE DEF t
  <2>10. Closed(p, on, t)
    BY <2>8 DEF Closed
  <2>11. M \subseteq t
    BY <1>8, <2>9, <2>10
  <2>12. ASSUME NEW g \in kept PROVE g \in s
    <3>1. g \in t /\ \A j \in J : g \notin L[j]
      BY <1>4, <2>11
    <3>2. g \in in
      <4> HIDE DEF in, Hangs
      <4>1. QED
        BY <2>3, <3>1
    <3>3. QED
      BY <3>2
  <2>13. QED
    BY <2>12
<1>11. Whole(p, rest, kept)
  BY <1>9, <1>10 DEF Whole
<1>12. QED
  BY <1>11 DEF rest, kept, off

(* What remains whole is what its members are joined to. *)
LEMMA WholeJoined ==
  ASSUME NEW p, NEW on, NEW M \in SUBSET Factory, Whole(p, on, M), NEW f \in M
  PROVE  Joined(p, on, f) = M
<1>1. Closed(p, on, M) /\ \A s \in SUBSET Factory : f \in s /\ Closed(p, on, s) => M \subseteq s
  BY DEF Whole
<1>2. \A g \in Joined(p, on, f) : g \in M
  BY <1>1 DEF Joined
<1>3. \A g \in M : g \in Joined(p, on, f)
  BY <1>1 DEF Joined
<1>4. QED
  BY <1>2, <1>3

(* The switches of a circuit are on its lines. *)
LEMMA OrderIs ==
  ASSUME NEW p, IsMap(p), NEW c
  PROVE  /\ ShedOrder(p, c) \in Seq(Range(ShedOrder(p, c)))
         /\ \A j \in DOMAIN ShedOrder(p, c) : ShedOrder(p, c)[j].line \in OnCircuit(p, c)
<1> DEFINE n   == Len(p.lines)
           any == AnySwitch(p)
           S   == {sw \in p.switches : sw.line \in OnCircuit(p, c)}
           order == ShedOrder(p, c)
<1>1. n \in Nat
  BY DEF IsMap
<1>2. any = [k \in 1..(8 * n) |-> any[k]]
  BY DEF AnySwitch
<1>3. 8 * n \in Nat
  BY <1>1
<1> HIDE DEF any, n
<1>4. IsList(any)
  BY <1>2, <1>3, ListIf
<1>5. order = Kept(any, S)
  BY DEF ShedOrder, any
<1> HIDE DEF order, S
<1>6. IsList(order) /\ Range(order) = Range(any) \cap S
  BY <1>4, <1>5, KeptList
<1>7. \A j \in DOMAIN order : order[j] \in S
  BY <1>6 DEF Range
<1>8. \A j \in DOMAIN order : order[j].line \in OnCircuit(p, c)
  BY <1>7 DEF S
<1>9. QED
  BY <1>6, <1>8 DEF IsList, order

(* What a switch sheds depends on its line alone. *)
LEMMA LoadByLine ==
  ASSUME NEW p, NEW c, NEW sw, NEW other, sw.line = other.line
  PROVE  LoadSide(p, c, sw) = LoadSide(p, c, other)
BY Zenon DEF LoadSide

(* The loop of ShedsAt, switch by switch. *)
ShedLoops(p, c, k, mw) ==
  mw = [j \in 0..(k - 1) |-> IF j = 0 THEN c.gen
                             ELSE mw[j - 1] + Downstream(p, c, ShedOrder(p, c)[j])]

(* What it computes, over natural numbers. *)
Sums(p, c, k, f) ==
  /\ f \in [0..(k - 1) -> Nat] /\ f[0] = c.gen
  /\ \A j \in 1..(k - 1) : f[j] = f[j - 1] + Downstream(p, c, ShedOrder(p, c)[j])
  /\ ShedsAt(p, c, k) = f[k - 1]

(* There is such a loop. *)
LEMMA ShedLoop ==
  ASSUME NEW p, IsMap(p), NEW c, NEW k \in Nat \ {0}, c.gen \in Nat
  PROVE  \E f : Sums(p, c, k, f)
<1> DEFINE n == k - 1
           D(j) == Downstream(p, c, ShedOrder(p, c)[j])
           gen == c.gen
           step == [j \in 1..n |-> [x \in Nat |-> x + D(j)]]
<1>0. p.draw \in [Factory -> Nat]
  BY DEF IsMap
<1>1. n \in Nat /\ gen \in Nat /\ \A j \in 1..n : D(j) \in Nat
  BY <1>0, TotalNat DEF Downstream
<1> HIDE DEF D
<1>2. step \in [1..n -> [Nat -> Nat]]
  <2> HIDE DEF n
  <2>1. QED
    BY <1>1
<1>3. \A j \in 1..n, x \in Nat : step[j][x] = x + D(j)
  OBVIOUS
<1> HIDE DEF step, n, gen
<1>4. PICK f \in [0..n -> Nat] : f[0] = gen /\ \A j \in 1..n : f[j] = step[j][f[j - 1]]
  <2> DEFINE N == Nat
  <2>1. n \in Nat /\ gen \in N /\ step \in [1..n -> [N -> N]]
    BY <1>1, <1>2
  <2> HIDE DEF N
  <2>2. PICK f : Solution(N, gen, n, step, f)
    BY <2>1, StepsSolve
  <2>3. f \in [0..n -> N] /\ f[0] = gen /\ \A j \in 1..n : f[j] = step[j][f[j - 1]]
    BY <2>2 DEF Solution
  <2>4. QED
    BY <2>3 DEF N
<1>5. ASSUME NEW j \in 0..n
      PROVE  f[j] = IF j = 0 THEN gen ELSE f[j - 1] + D(j)
  <2>1. CASE j = 0
    BY <1>4, <2>1
  <2>2. CASE j # 0
    <3>1. j \in 1..n /\ j - 1 \in 0..n
      BY <1>1, <2>2
    <3>2. f[j - 1] \in Nat /\ f[j] = step[j][f[j - 1]]
      BY <1>4, <3>1
    <3>3. QED
      BY <1>3, <2>2, <3>1, <3>2
  <2>3. QED
    BY <2>1, <2>2
<1>6. ShedLoops(p, c, k, f)
  BY <1>4, <1>5 DEF ShedLoops, n, D, gen
<1> DEFINE g == CHOOSE h : ShedLoops(p, c, k, h)
<1>7. ShedLoops(p, c, k, g)
  BY <1>6
<1>8. ShedsAt(p, c, k) = g[n]
  BY DEF ShedsAt, ShedLoops, n
<1> HIDE DEF g
<1>9. g = [j \in 0..n |-> IF j = 0 THEN gen ELSE g[j - 1] + D(j)]
  BY <1>7 DEF ShedLoops, n, D, gen
<1>10. g[0] = gen /\ \A j \in 1..n : g[j] = g[j - 1] + D(j)
  <2>1. 0 \in 0..n /\ \A j \in 1..n : j \in 0..n /\ j # 0
    BY <1>1
  <2>2. QED
    BY <1>9, <2>1
<1>11. \A j \in 0..n : g[j] \in Nat
  <2> DEFINE T == {j \in 0..n : g[j] \in Nat}
  <2>1. 0 \in T
    BY <1>1, <1>10
  <2>2. \A j \in 1..n : j - 1 \in T => j \in T
    <3>1. SUFFICES ASSUME NEW j \in 1..n, g[j - 1] \in Nat PROVE j \in T
      OBVIOUS
    <3>2. g[j] = g[j - 1] + D(j) /\ D(j) \in Nat
      BY <1>1, <1>10
    <3>3. g[j] \in Nat
      BY <3>1, <3>2
    <3>4. j \in 0..n
      BY <1>1
    <3>5. QED
      BY <3>3, <3>4
  <2>3. \A j \in 0..n : j \in T
    <3> HIDE DEF T
    <3>1. QED
      BY <1>1, <2>1, <2>2, HandedOn
  <2>4. QED
    BY <2>3
<1>12. g \in [0..n -> Nat]
  BY <1>9, <1>11
<1>13. QED
  BY <1>8, <1>10, <1>12 DEF Sums, n, D, gen

(* The loads of the first m switches, and that no two of them overlap. *)
CutOff(p, c, m) == UNION {LoadSide(p, c, ShedOrder(p, c)[j]) : j \in 1..m}
KeepOut(p, c, m) ==
  \A i, j \in 1..m : i # j =>
    LoadSide(p, c, ShedOrder(p, c)[i]) \cap LoadSide(p, c, ShedOrder(p, c)[j]) = {}

(* The demand of all loads that keep out of each other's way is what the    *)
(* sheds have come to. *)
LEMMA ShedsAdd ==
  ASSUME NEW p, IsMap(p), NEW c, c.gen \in Nat, NEW k \in Nat \ {0}, KeepOut(p, c, k - 1)
  PROVE  ShedsAt(p, c, k) = c.gen + Total(p.draw, CutOff(p, c, k - 1))
<1> DEFINE n == k - 1
           L(j) == LoadSide(p, c, ShedOrder(p, c)[j])
           D(j) == Downstream(p, c, ShedOrder(p, c)[j])
           U(m) == CutOff(p, c, m)
           gen == c.gen
           draw == p.draw
<1>1. n \in Nat /\ gen \in Nat /\ draw \in [Factory -> Nat]
  BY DEF IsMap
<1>2. \A i, j \in 1..n : i # j => L(i) \cap L(j) = {}
  BY DEF KeepOut
<1>20. \A m : U(m) = UNION {L(j) : j \in 1..m}
  BY DEF CutOff
<1>3. \A j : D(j) = Total(draw, L(j))
  BY DEF Downstream
<1> HIDE DEF L
<1>4. PICK f : Sums(p, c, k, f)
  BY ShedLoop
<1>5. /\ f \in [0..n -> Nat] /\ f[0] = gen
      /\ \A j \in 1..n : f[j] = f[j - 1] + D(j)
      /\ ShedsAt(p, c, k) = f[n]
  BY <1>4 DEF Sums
<1> HIDE DEF D, n, gen, draw, U
<1> DEFINE T == {m \in 0..n : f[m] = gen + Total(draw, U(m))}
<1>6. 0 \in T
  <2>1. U(0) = {}
    BY <1>20
  <2>2. Total(draw, {}) = 0
    BY <1>1, TotalNat
  <2>3. QED
    <3>1. f[0] = gen /\ 0 \in 0..n
      BY <1>1, <1>5
    <3>2. gen + Total(draw, U(0)) = gen
      BY <1>1, <2>1, <2>2
    <3>3. QED
      BY <3>1, <3>2
<1>7. \A m \in 1..n : m - 1 \in T => m \in T
  <2>1. SUFFICES ASSUME NEW m \in 1..n, f[m - 1] = gen + Total(draw, U(m - 1)) PROVE m \in T
    OBVIOUS
  <2> DEFINE old == U(m - 1)
             new == L(m)
  <2>2. \A j : j \in 1..m <=> j \in 1..(m - 1) \/ j = m
    BY <1>1
  <2>3. U(m) = old \cup new
    BY <1>20, <2>2
  <2>4. old \cap new = {}
    <3>1. \A j \in 1..(m - 1) : j \in 1..n /\ j # m
      BY <1>1
    <3>2. \A j \in 1..(m - 1) : L(j) \cap L(m) = {}
      BY <1>2, <3>1
    <3>3. QED
      BY <1>20, <3>2
  <2> HIDE DEF old, new
  <2>5. /\ Total(draw, old) \in Nat /\ Total(draw, new) \in Nat
        /\ Total(draw, old \cup new) = Total(draw, old) + Total(draw, new)
    BY <1>1, <2>4, TotalAdds
  <2>6. f[m] = f[m - 1] + Total(draw, new)
    BY <1>3, <1>5 DEF new
  <2>7. f[m] = gen + Total(draw, U(m))
    BY <1>1, <2>1, <2>3, <2>5, <2>6 DEF old
  <2>8. m \in 0..n
    BY <1>1
  <2>9. QED
    BY <2>7, <2>8
<1>8. n \in T
  <2> HIDE DEF T
  <2>1. n \in 0..n
    BY <1>1
  <2>2. QED
    BY <1>1, <1>6, <1>7, <2>1, HandedOn
<1>9. f[n] = gen + Total(draw, U(n))
  BY <1>8
<1>10. QED
  BY <1>5, <1>9 DEF U, n, gen, draw

(* What a switch says it sheds at is right: opened in their order, switches *)
(* that split the circuit and keep out of each other's loads drop what the  *)
(* later ones count with, and leave the rest whole. *)
THEOREM ShedsAreRight ==
  ASSUME NEW p, IsMap(p), NEW c \in Range(Circuits(p))
  PROVE  ShedsWhatItSays(p, c)
<1> DEFINE order == ShedOrder(p, c)
           on    == OnCircuit(p, c)
           M     == c.members
           Load(j) == LoadSide(p, c, order[j])
<1>1. /\ M \in SUBSET Factory
      /\ \A k \in on : p.lines[k][1] \in M /\ p.lines[k][2] \in M
      /\ Whole(p, on, M)
      /\ c.gen = Total(p.gen, M) /\ c.draw = Total(p.draw, M)
  BY CircuitIs
<1>2. DOMAIN order = 1..Len(order) /\ Len(order) \in Nat
  <2> HIDE DEF order
  <2>1. order \in Seq(Range(order))
    BY OrderIs DEF order
  <2>2. QED
    BY <2>1
<1>3. \A j \in DOMAIN order : order[j].line \in on
  BY OrderIs
<1>4. p.gen \in [Factory -> Nat] /\ p.draw \in [Factory -> Nat]
  BY DEF IsMap
<1>5. c.gen \in Nat /\ c.draw \in Nat
  BY <1>1, <1>4, TotalNat
<1> HIDE DEF order
<1>6. ASSUME NEW j \in DOMAIN order, Splits(p, c, order[j].line)
      PROVE  /\ Load(j) \subseteq M
             /\ Closed(p, on \ {order[j].line}, Load(j))
             /\ ~ (p.lines[order[j].line][1] \in Load(j) <=> p.lines[order[j].line][2] \in Load(j))
             /\ 2 * Total(p.gen, Load(j)) <= c.gen
  <2> DEFINE sw == order[j]
  <2>1. sw.line \in on /\ Splits(p, c, sw.line)
    BY <1>3, <1>6
  <2> HIDE DEF sw
  <2>2. /\ LoadSide(p, c, sw) \subseteq M
        /\ Closed(p, on \ {sw.line}, LoadSide(p, c, sw))
        /\ ~ (p.lines[sw.line][1] \in LoadSide(p, c, sw) <=> p.lines[sw.line][2] \in LoadSide(p, c, sw))
        /\ 2 * Total(p.gen, LoadSide(p, c, sw)) <= c.gen
    BY <2>1, LoadIs
  <2>3. QED
    BY <2>2 DEF sw
<1>7. ASSUME NEW k \in DOMAIN order,
             \A j \in 1..k : Splits(p, c, order[j].line),
             \A i, j \in 1..k : i # j => Load(i) \cap Load(j) = {}
      PROVE  LET off  == {order[j].line : j \in 1..(k - 1)}
                 kept == M \ UNION {Load(j) : j \in 1..(k - 1)}
             IN  /\ ShedsAt(p, c, k) - c.gen = c.draw - Total(p.draw, kept)
                 /\ \A f \in kept : Joined(p, on \ off, f) = kept
  <2> DEFINE J == 1..(k - 1)
             line == [j \in J |-> order[j].line]
             L == [j \in J |-> Load(j)]
             off  == {order[j].line : j \in J}
             cut  == UNION {Load(j) : j \in J}
             kept == M \ cut
  <2>1. k \in Nat \ {0} /\ \A j \in J : j \in DOMAIN order /\ j \in 1..k
    BY <1>2
  <2>2. \A j \in J : Splits(p, c, order[j].line) /\ order[j].line \in on
    BY <1>3, <1>7, <2>1
  <2>3. \A j \in J : /\ Load(j) \subseteq M
                     /\ Closed(p, on \ {order[j].line}, Load(j))
                     /\ ~ (p.lines[order[j].line][1] \in Load(j)
                             <=> p.lines[order[j].line][2] \in Load(j))
    BY <1>6, <2>1, <2>2
  <2>4. \A i, j \in J : i # j => Load(i) \cap Load(j) = {}
    BY <1>7, <2>1
  <2>5. ASSUME NEW i \in J, NEW j \in J, i # j
        PROVE  order[i].line # order[j].line
    <3>1. SUFFICES ASSUME order[i].line = order[j].line PROVE FALSE
      OBVIOUS
    <3>2. Load(i) = Load(j)
      BY <3>1, LoadByLine
    <3>3. Load(i) # {}
      BY <2>3
    <3>4. QED
      BY <2>4, <2>5, <3>2, <3>3
  <2>6. \A j \in J : line[j] = order[j].line /\ L[j] = Load(j)
    OBVIOUS
  <2>7. off = {line[j] : j \in J} /\ cut = UNION {L[j] : j \in J}
    OBVIOUS
  <2> HIDE DEF Load, on, M
  <2>8. \A j \in J : line[j] \in on
    BY <2>2, <2>6
  <2> HIDE DEF J, line, L
  <2>9. \A i, j \in J : i # j => line[i] # line[j] /\ L[i] \cap L[j] = {}
    BY <2>4, <2>5, <2>6
  <2>10. \A j \in J : /\ L[j] \subseteq M /\ Closed(p, on \ {line[j]}, L[j])
                      /\ ~ (p.lines[line[j]][1] \in L[j] <=> p.lines[line[j]][2] \in L[j])
    BY <2>3, <2>6
  <2>11. Whole(p, on \ {line[j] : j \in J}, M \ UNION {L[j] : j \in J})
    <3>1. Parts(p, on, M, J, line, L)
      BY <2>8, <2>9, <2>10 DEF Parts
    <3>2. QED
      BY <1>1, <3>1, Cuts
  <2>12. Whole(p, on \ off, kept)
    BY <2>7, <2>11
  <2>13. \A f \in kept : Joined(p, on \ off, f) = kept
    <3>1. kept \in SUBSET Factory
      BY <1>1
    <3> HIDE DEF kept, off
    <3>2. QED
      BY <2>12, <3>1, WholeJoined
  <2>14. ShedsAt(p, c, k) = c.gen + Total(p.draw, cut)
    <3>1. KeepOut(p, c, k - 1)
      BY <2>4 DEF KeepOut, J, Load, order
    <3>2. ShedsAt(p, c, k) = c.gen + Total(p.draw, CutOff(p, c, k - 1))
      BY <1>5, <2>1, <3>1, ShedsAdd
    <3>3. CutOff(p, c, k - 1) = cut
      BY DEF CutOff, J, Load, order
    <3>4. QED
      BY <3>2, <3>3
  <2>15. /\ Total(p.draw, cut) \in Nat /\ Total(p.draw, kept) \in Nat
         /\ c.draw = Total(p.draw, cut) + Total(p.draw, kept)
    <3>1. cut \subseteq M
      BY <2>3
    <3> HIDE DEF cut
    <3>2. cut \cap kept = {} /\ cut \cup kept = M
      BY <3>1
    <3> HIDE DEF kept
    <3>3. /\ Total(p.draw, cut) \in Nat /\ Total(p.draw, kept) \in Nat
          /\ Total(p.draw, cut \cup kept) = Total(p.draw, cut) + Total(p.draw, kept)
      BY <1>4, <3>2, TotalAdds
    <3>4. QED
      BY <1>1, <3>2, <3>3
  <2> HIDE DEF cut, kept, off
  <2>16. ShedsAt(p, c, k) - c.gen = c.draw - Total(p.draw, kept)
    BY <1>5, <2>14, <2>15
  <2>17. QED
    BY <2>13, <2>16 DEF off, kept, cut, J
<1> HIDE DEF Load, on, M
<1>8. \A j \in DOMAIN order : Splits(p, c, order[j].line) => 2 * Total(p.gen, Load(j)) <= c.gen
  BY <1>6
<1>9. QED
  BY <1>7, <1>8 DEF ShedsWhatItSays, Load, on, M, order

------------------------------------------------------------------------------
(* Lists of events *)

(* Lists one after the other. *)
LEMMA Joins ==
  ASSUME NEW a, NEW b, IsList(a), IsList(b)
  PROVE  /\ IsList(a \o b)
         /\ \A e \in Range(a \o b) : e \in Range(a) \/ e \in Range(b)
<1> DEFINE T == Range(a) \cup Range(b)
           c == a \o b
<1>1. a \in Seq(T) /\ b \in Seq(T)
  BY DEF IsList
<1> HIDE DEF T
<1>2. c \in Seq(T)
  BY <1>1
<1> HIDE DEF c
<1>3. \A k \in DOMAIN c : c[k] \in T
  BY <1>2
<1>4. DOMAIN c = 1..Len(c) /\ Len(c) \in Nat /\ c = [k \in 1..Len(c) |-> c[k]]
  BY <1>2
<1>5. IsList(c)
  BY <1>4, ListIf
<1>6. \A e \in Range(c) : e \in Range(a) \/ e \in Range(b)
  BY <1>3 DEF Range, T
<1>7. QED
  BY <1>5, <1>6 DEF c

(* An event's condition has its rule, and is its key except for circuits. *)
Good(e) == /\ e.rule \in RuleNames /\ e.cond[1] = e.rule
           /\ e.rule # "power_swing" => e.cond = e.key

GoodList(x) == IsList(x) /\ \A e \in Range(x) : Good(e)

(* Events of plain rules are good. *)
LEMMA PlainGood ==
  ASSUME NEW rule \in RuleNames, NEW ids, IsList(ids)
  PROVE  GoodList(Plain(rule, ids))
<1> DEFINE x == Plain(rule, ids)
<1>1. DOMAIN ids = 1..Len(ids) /\ Len(ids) \in Nat
  BY DEF IsList
<1>2. x = [k \in 1..Len(ids) |-> Event(rule, ids[k], ids[k])]
  BY <1>1 DEF Plain
<1>3. \A k \in DOMAIN x : Good(x[k])
  BY <1>2 DEF Good, Event
<1>4. x = [k \in 1..Len(ids) |-> x[k]]
  BY <1>2
<1> HIDE DEF x
<1>5. IsList(x)
  BY <1>1, <1>4, ListIf
<1>6. GoodList(x)
  BY <1>3, <1>5 DEF GoodList, Range
<1>7. QED
  BY <1>6 DEF x

(* The circuits of a map are a list. *)
LEMMA CircuitsList ==
  ASSUME NEW p
  PROVE  IsList(Circuits(p))
<1> DEFINE root  == Roots(p)
           S     == {root[f] : f \in InGrid(p)}
           roots == Kept(FactoryOrder, S)
           cs    == Circuits(p)
<1>1. IsList(FactoryOrder)
  BY FactoryAssumption DEF IsList, Factory
<1>2. IsList(roots)
  BY <1>1, KeptList
<1>3. DOMAIN roots = 1..Len(roots) /\ Len(roots) \in Nat
  <2> HIDE DEF roots
  <2>1. QED
    BY <1>2 DEF IsList
<1>4. DOMAIN cs = DOMAIN roots /\ cs = [k \in DOMAIN roots |-> cs[k]]
  BY DEF Circuits
<1> HIDE DEF roots, cs
<1>5. IsList(cs)
  BY <1>3, <1>4, ListIf
<1>6. QED
  BY <1>5 DEF cs

(* What the rules raise over a scene. *)
LEMMA EvaluateGood ==
  ASSUME NEW n \in Scenes \cup {Blank}
  PROVE  GoodList(Evaluate(Scene[n]))
<1> DEFINE s == Scene[n]
<1>1. IsList(s.doubled) /\ IsList(s.short) /\ IsList(s.full) /\ IsList(s.drift)
  BY SceneAssumption
<1> HIDE DEF s
<1>2. GoodList(NodeConflicts(s))
  BY <1>1, PlainGood DEF NodeConflicts, RuleNames
<1>3. GoodList(NewDeficits(s))
  <2> DEFINE ids == [k \in DOMAIN s.short |-> s.short[k].factory]
  <2>1. DOMAIN s.short = 1..Len(s.short) /\ Len(s.short) \in Nat
    BY <1>1 DEF IsList
  <2>2. ids = [k \in 1..Len(s.short) |-> ids[k]]
    BY <2>1
  <2>3. NewDeficits(s) = Plain("new_deficit", ids)
    BY DEF NewDeficits
  <2> HIDE DEF ids
  <2>4. IsList(ids)
    BY <2>1, <2>2, ListIf
  <2>5. QED
    BY <2>3, <2>4, PlainGood DEF RuleNames
<1>4. GoodList(RouteBottlenecks(s))
  <2> DEFINE S == {s.short[k].route : k \in DOMAIN s.short}
             kept == Kept(s.full, S)
  <2>1. IsList(kept)
    BY <1>1, KeptList
  <2>2. RouteBottlenecks(s) = Plain("route_bottleneck", kept)
    BY DEF RouteBottlenecks
  <2> HIDE DEF kept
  <2>3. QED
    BY <2>1, <2>2, PlainGood DEF RuleNames
<1>5. GoodList(PowerSwings(s))
  <2> DEFINE S == {c \in Range(Circuits(s)) : Level(c) # "ok"}
             cs == Kept(Circuits(s), S)
             x == [k \in DOMAIN cs |-> Event("power_swing", cs[k].name, cs[k].members)]
  <2>1. IsList(cs)
    BY CircuitsList, KeptList
  <2>2. PowerSwings(s) = x
    BY DEF PowerSwings
  <2> HIDE DEF cs
  <2>3. DOMAIN cs = 1..Len(cs) /\ Len(cs) \in Nat
    BY <2>1 DEF IsList
  <2>4. x = [k \in 1..Len(cs) |-> x[k]]
    BY <2>3
  <2>5. \A k \in DOMAIN x : Good(x[k])
    BY DEF Good, Event, RuleNames
  <2> HIDE DEF x
  <2>6. IsList(x)
    BY <2>3, <2>4, ListIf
  <2>7. QED
    BY <2>2, <2>5, <2>6 DEF GoodList, Range
<1>6. GoodList(UnpoweredFactories(s))
  <2> DEFINE dark == {f \in Factory : s.draw[f] > 0 /\ f \notin InGrid(s) /\ s.gen[f] = 0}
             kept == Kept(FactoryOrder, dark)
  <2>1. IsList(FactoryOrder)
    BY FactoryAssumption DEF IsList, Factory
  <2>2. IsList(kept)
    BY <2>1, KeptList
  <2>3. \/ UnpoweredFactories(s) = Plain("unpowered_factory", kept)
        \/ UnpoweredFactories(s) = <<>>
    BY DEF UnpoweredFactories
  <2> HIDE DEF kept
  <2>4. GoodList(<<>>)
    BY DEF GoodList, IsList, Range
  <2>5. QED
    BY <2>2, <2>3, <2>4, PlainGood DEF RuleNames
<1>7. GoodList(DriftDetected(s))
  BY <1>1, PlainGood DEF DriftDetected, RuleNames
<1>8. ASSUME NEW a, NEW b, GoodList(a), GoodList(b)
      PROVE  GoodList(a \o b)
  BY <1>8, Joins DEF GoodList
<1>9. QED
  BY <1>2, <1>3, <1>4, <1>5, <1>6, <1>7, <1>8 DEF Evaluate, s

(* The events of a scene by number. *)
LEMMA EventsAre ==
  ASSUME NEW s \in DOMAIN Events
  PROVE  /\ Len(Events[s]) \in Nat /\ DOMAIN Events[s] = 1..Len(Events[s])
         /\ \A k \in DOMAIN Events[s] : Good(Events[s][k])
<1>1. s \in Scenes \cup {Blank} /\ Events[s] = Evaluate(Scene[s])
  BY DEF Events
<1>2. GoodList(Events[s])
  BY <1>1, EvaluateGood
<1>3. QED
  BY <1>2 DEF GoodList, IsList, Range

------------------------------------------------------------------------------
(* The gate *)

Outcomes(s) == [next : SUBSET AllKeys, made : SUBSET Range(Events[s]), age : Ages]

(* What makes a card was not accounted for, and is now. *)
Fresh(out) == \A e \in out.made : e.key \notin active /\ e.key \in out.next

(* One event: nothing is lost, and what is known or muted is accounted for. *)
LEMMA HearIs ==
  ASSUME NEW s \in DOMAIN Events, NEW k \in DOMAIN Events[s], NEW out \in Outcomes(s),
         NEW heard, heard = Hear(out, Events[s][k])
  PROVE  /\ heard \in Outcomes(s) /\ out.next \subseteq heard.next
         /\ Fresh(out) => Fresh(heard)
         /\ Events[s][k].key \in active \/ Events[s][k].rule \in muted
              => Events[s][k].key \in heard.next
<1> DEFINE e == Events[s][k]
<1>1. e \in Range(Events[s]) /\ e.key \in AllKeys /\ e.rule \in RuleNames
  <2>1. Good(e)
    BY EventsAre
  <2>2. e.key \in Keys(s)
    BY DEF Keys
  <2>3. QED
    BY <2>1, <2>2 DEF Good, AllKeys, Range
<1>2. heard = Hear(out, e)
  OBVIOUS
<1> HIDE DEF e
<1>3. out.next \in SUBSET AllKeys /\ out.made \in SUBSET Range(Events[s]) /\ out.age \in Ages
  BY DEF Outcomes
<1>4. CASE e.key \in active \/ e.rule \in muted
  <2>1. heard = [out EXCEPT !.next = @ \cup {e.key}]
    BY <1>2, <1>4 DEF Hear
  <2>2. heard.next = out.next \cup {e.key} /\ heard.made = out.made /\ heard.age = out.age
        /\ heard = [next |-> heard.next, made |-> heard.made, age |-> heard.age]
    BY <2>1 DEF Outcomes
  <2>3. heard \in Outcomes(s)
    BY <1>1, <1>3, <2>2 DEF Outcomes
  <2>4. QED
    BY <2>2, <2>3 DEF Fresh, e
<1>5. CASE ~(e.key \in active \/ e.rule \in muted) /\ Debounced(out.age[e.rule])
  <2>1. heard = out
    BY <1>2, <1>5 DEF Hear
  <2>2. QED
    BY <1>5, <2>1 DEF e
<1>6. CASE ~(e.key \in active \/ e.rule \in muted) /\ ~Debounced(out.age[e.rule])
  <2>1. heard = [next |-> out.next \cup {e.key}, made |-> out.made \cup {e},
                 age |-> [out.age EXCEPT ![e.rule] = 0]]
    BY <1>2, <1>6 DEF Hear
  <2>2. [out.age EXCEPT ![e.rule] = 0] \in Ages
    BY <1>1, <1>3 DEF Ages
  <2>3. heard.next = out.next \cup {e.key} /\ heard.made = out.made \cup {e}
    BY <2>1
  <2>4. heard \in Outcomes(s)
    BY <1>1, <1>3, <2>1, <2>2 DEF Outcomes
  <2>5. Fresh(out) => Fresh(heard)
    BY <1>6, <2>3 DEF Fresh
  <2>6. QED
    BY <1>6, <2>3, <2>4, <2>5 DEF e
<1>7. QED
  BY <1>4, <1>5, <1>6

(* The loop of Heard, event by event. *)
Hears(s, acc) ==
  acc = [k \in 0..Len(Events[s]) |->
           IF k = 0 THEN [next |-> {}, made |-> {}, age |-> age]
           ELSE Hear(acc[k - 1], Events[s][k])]

(* There is such a loop, and Heard is what it ends with. *)
LEMMA HearLoops ==
  ASSUME age \in Ages, NEW s \in DOMAIN Events
  PROVE  \E acc : Hears(s, acc) /\ Heard(s) = acc[Len(Events[s])]
<1> DEFINE n == Len(Events[s])
           T == Outcomes(s)
           none == [next |-> {}, made |-> {}, age |-> age]
           step == [k \in 1..n |-> [a \in T |-> Hear(a, Events[s][k])]]
<1>1. n \in Nat /\ DOMAIN Events[s] = 1..n
  BY EventsAre
<1>2. none \in T
  BY DEF Outcomes
<1>3. \A k \in 1..n, a \in T : Hear(a, Events[s][k]) \in T
  BY <1>1, HearIs
<1> HIDE DEF T, none, n
<1>4. step \in [1..n -> [T -> T]]
  BY <1>3
<1>5. \A k \in 1..n, a \in T : step[k][a] = Hear(a, Events[s][k])
  OBVIOUS
<1> HIDE DEF step
<1>6. PICK acc \in [0..n -> T] : acc[0] = none /\ \A k \in 1..n : acc[k] = step[k][acc[k - 1]]
  <2>1. none \in T /\ step \in [1..n -> [T -> T]] /\ n \in Nat
    BY <1>1, <1>2, <1>4
  <2>2. ASSUME NEW A, NEW x \in A, NEW m \in Nat, NEW g \in [1..m -> [A -> A]]
        PROVE  \E acc \in [0..m -> A] : acc[0] = x /\ \A k \in 1..m : acc[k] = g[k][acc[k - 1]]
    BY StepsExist
  <2>3. \E acc \in [0..n -> T] : acc[0] = none /\ \A k \in 1..n : acc[k] = step[k][acc[k - 1]]
    BY <2>1, <2>2
  <2>4. QED
    BY <2>3
<1>7. ASSUME NEW k \in 0..n
      PROVE  acc[k] = IF k = 0 THEN none ELSE Hear(acc[k - 1], Events[s][k])
  <2>1. CASE k = 0
    BY <1>6, <2>1
  <2>2. CASE k # 0
    <3>1. k \in 1..n /\ k - 1 \in 0..n
      BY <1>1, <2>2
    <3>2. acc[k - 1] \in T /\ acc[k] = step[k][acc[k - 1]]
      BY <1>6, <3>1
    <3>3. QED
      BY <1>5, <2>2, <3>1, <3>2
  <2>3. QED
    BY <2>1, <2>2
<1>8. Hears(s, acc)
  BY <1>6, <1>7 DEF Hears, n, none
<1> DEFINE g == CHOOSE f : Hears(s, f)
<1>9. Hears(s, g)
  BY <1>8
<1>10. Heard(s) = g[Len(Events[s])]
  BY DEF Heard, Hears
<1>11. QED
  BY <1>9, <1>10

(* What the gate lets through was not accounted for, and is then; and what *)
(* was, or is muted, stays or is accounted for. *)
LEMMA HeardIs ==
  ASSUME age \in Ages, NEW s \in DOMAIN Events
  PROVE  /\ Heard(s) \in Outcomes(s) /\ Fresh(Heard(s))
         /\ \A k \in DOMAIN Events[s] :
              Events[s][k].key \in active \/ Events[s][k].rule \in muted
                => Events[s][k].key \in Heard(s).next
<1> DEFINE n == Len(Events[s])
           Known(k) == Events[s][k].key \in active \/ Events[s][k].rule \in muted
<1>1. n \in Nat /\ DOMAIN Events[s] = 1..n
  BY EventsAre
<1>2. PICK acc : Hears(s, acc) /\ Heard(s) = acc[n]
  BY HearLoops
<1>3. acc[0] = [next |-> {}, made |-> {}, age |-> age]
  BY <1>1, <1>2 DEF Hears
<1>4. ASSUME NEW k \in 1..n
      PROVE  acc[k] = Hear(acc[k - 1], Events[s][k])
  <2>1. k \in 0..Len(Events[s]) /\ k # 0
    BY <1>1
  <2>2. QED
    BY <1>2, <2>1 DEF Hears
<1> DEFINE Sound(k) == /\ acc[k] \in Outcomes(s) /\ Fresh(acc[k])
                       /\ \A j \in 1..k : Known(j) => Events[s][j].key \in acc[k].next
           S == {k \in 0..n : Sound(k)}
<1> HIDE DEF n
<1>5. 0 \in S
  <2>1. acc[0] \in Outcomes(s)
    BY <1>3 DEF Outcomes
  <2>2. Fresh(acc[0])
    BY <1>3 DEF Fresh
  <2>3. QED
    BY <1>1, <2>1, <2>2
<1>6. ASSUME NEW k \in 1..n, k - 1 \in S
      PROVE  k \in S
  <2> DEFINE out == acc[k - 1]
             heard == acc[k]
  <2>1. out \in Outcomes(s) /\ Fresh(out)
    BY <1>6
  <2>2. \A j \in 1..(k - 1) : Known(j) => Events[s][j].key \in out.next
    BY <1>6
  <2>3. heard = Hear(out, Events[s][k]) /\ k \in DOMAIN Events[s] /\ k \in 0..n
    BY <1>1, <1>4
  <2> HIDE DEF out, heard
  <2>4. /\ heard \in Outcomes(s) /\ out.next \subseteq heard.next /\ Fresh(heard)
        /\ Known(k) => Events[s][k].key \in heard.next
    BY <2>1, <2>3, HearIs
  <2>5. ASSUME NEW j \in 1..k, Known(j)
        PROVE  Events[s][j].key \in heard.next
    <3>1. j = k \/ j \in 1..(k - 1)
      OBVIOUS
    <3> HIDE DEF Known
    <3>2. QED
      BY <2>2, <2>4, <2>5, <3>1
  <2>6. Sound(k)
    <3> HIDE DEF Known
    <3>1. QED
      BY <2>4, <2>5 DEF heard
  <2> HIDE DEF Sound
  <2>7. QED
    BY <2>3, <2>6
<1>7. n \in S
  <2> HIDE DEF S
  <2>1. n \in 0..n
    BY <1>1
  <2>2. QED
    BY <1>1, <1>5, <1>6, <2>1, HandedOn
<1>8. QED
  BY <1>1, <1>2, <1>7

------------------------------------------------------------------------------
(* The invariant *)

(* A condition goes by one key in all scenes. *)
Steady(c) ==
  \A s, t \in DOMAIN Events : \A j \in DOMAIN Events[s], k \in DOMAIN Events[t] :
    Events[s][j].cond = c /\ Events[t][k].cond = c => Events[s][j].key = Events[t][k].key

(* The gate has the key of a condition. *)
Accounted(c) ==
  \A s \in DOMAIN Events : \A k \in DOMAIN Events[s] :
    Events[s][k].cond = c => Events[s][k].key \in active

SavedOnce == disk = [cards |-> cards, muted |-> muted, active |-> active, age |-> age]

KnownOnce(c) == /\ told[c] <= 1
                /\ told[c] > 0 \/ c \in excused => Accounted(c)

IInv == /\ TypeOK /\ SavedOnce
        /\ \A c \in AllConds : Steady(c) => KnownOnce(c)

(* A pass of the gate: what was told of or excused makes no second card,   *)
(* and what is told of or excused is accounted for. *)
LEMMA EpisodesKept ==
  ASSUME TypeOK, NEW s \in DOMAIN Events, NEW out \in Outcomes(s), Fresh(out),
         \A k \in DOMAIN Events[s] :
           /\ Events[s][k].key \in active => Events[s][k].key \in out.next
           /\ ~paused /\ Events[s][k].rule \in muted => Events[s][k].key \in out.next,
         active' = out.next, Episodes(s, out.made),
         NEW c \in AllConds, Steady(c), KnownOnce(c)
  PROVE  KnownOnce(c)' /\ (c \in excused => told'[c] <= told[c])
<1>1. told[c] \in Nat
  BY DEF TypeOK
<1>2. told'[c] = IF c \notin Conds(s) THEN 0
                 ELSE IF \E e \in out.made : e.cond = c THEN told[c] + 1 ELSE told[c]
  BY DEF Episodes
<1>3. excused' = {d \in Conds(s) : d \in excused \/ (~paused /\ d[1] \in muted)}
  BY DEF Episodes
<1>4. CASE c \notin Conds(s)
  <2>1. told'[c] = 0 /\ c \notin excused'
    BY <1>2, <1>3, <1>4
  <2>2. QED
    BY <1>1, <2>1 DEF KnownOnce
<1>5. ASSUME c \in Conds(s)
      PROVE  KnownOnce(c)' /\ (c \in excused => told'[c] <= told[c])
  <2>1. PICK k \in DOMAIN Events[s] : Events[s][k].cond = c
    BY <1>5 DEF Conds
  <2>2. Events[s][k].key \in out.next => Accounted(c)'
    BY <2>1 DEF Accounted, Steady
  <2>3. Accounted(c) => Accounted(c)'
    <3>1. Accounted(c) => Events[s][k].key \in active
      BY <2>1 DEF Accounted
    <3>2. QED
      BY <2>2, <3>1
  <2>4. ASSUME NEW e \in out.made, e.cond = c
        PROVE  ~Accounted(c) /\ Accounted(c)'
    <3>1. PICK j \in DOMAIN Events[s] : e = Events[s][j]
      BY DEF Outcomes, Range
    <3>2. e.key \notin active /\ e.key \in out.next
      BY DEF Fresh
    <3>3. e.key = Events[s][k].key
      BY <2>1, <2>4, <3>1 DEF Steady
    <3>4. ~Accounted(c)
      BY <2>4, <3>1, <3>2 DEF Accounted
    <3>5. QED
      BY <2>2, <3>2, <3>3, <3>4
  <2>5. c \in excused' => Accounted(c)'
    <3>1. ASSUME c \in excused'
          PROVE  c \in excused \/ (~paused /\ Events[s][k].rule \in muted)
      <4>1. c \in excused \/ (~paused /\ c[1] \in muted)
        BY <1>3, <3>1
      <4>2. Good(Events[s][k])
        BY EventsAre
      <4>3. c[1] = Events[s][k].rule
        BY <2>1, <4>2 DEF Good
      <4>4. QED
        BY <4>1, <4>3
    <3>2. QED
      BY <2>2, <2>3, <3>1 DEF KnownOnce
  <2>6. CASE \E e \in out.made : e.cond = c
    <3>1. ~Accounted(c) /\ Accounted(c)'
      BY <2>4, <2>6
    <3>2. told[c] = 0 /\ c \notin excused
      BY <1>1, <3>1 DEF KnownOnce
    <3>3. told'[c] = 1
      BY <1>2, <1>5, <2>6, <3>2
    <3>4. QED
      BY <3>1, <3>2, <3>3 DEF KnownOnce
  <2>7. CASE ~ \E e \in out.made : e.cond = c
    <3>1. told'[c] = told[c]
      BY <1>2, <1>5, <2>7
    <3>2. QED
      BY <1>1, <2>3, <2>5, <3>1 DEF KnownOnce
  <2>8. QED
    BY <2>6, <2>7
<1>6. QED
  BY <1>4, <1>5

------------------------------------------------------------------------------
(* Steps *)

(* A pass over a scene, running or paused. *)
LEMMA AdviseSound ==
  ASSUME IInv, NEW s \in DOMAIN Events, Advise(s)
  PROVE  /\ cards' \subseteq Cards /\ muted' = muted /\ paused' = paused
         /\ active' \subseteq AllKeys /\ age' \in Ages
         /\ told' \in [AllConds -> Nat] /\ excused' \subseteq AllConds
         /\ disk' \in [cards : SUBSET Cards, muted : SUBSET RuleNames,
                       active : SUBSET AllKeys, age : Ages]
         /\ SavedOnce'
         /\ \A c \in AllConds : Steady(c) =>
              KnownOnce(c)' /\ (c \in excused => told'[c] <= told[c])
<1> DEFINE out == IF paused THEN PausedGate(s) ELSE Heard(s)
           new == {Card(e) : e \in out.made}
<1>1. TypeOK /\ SavedOnce /\ \A c \in AllConds : Steady(c) => KnownOnce(c)
  BY DEF IInv
<1>2. /\ cards' = cards \cup new /\ active' = out.next /\ age' = out.age
      /\ disk' = [disk EXCEPT !.cards = @ \cup new, !.active = out.next, !.age = out.age]
      /\ Episodes(s, out.made) /\ muted' = muted /\ paused' = paused
  BY DEF Advise
<1>3. age \in Ages /\ active \subseteq AllKeys
  BY <1>1 DEF TypeOK
<1>4. /\ out \in Outcomes(s) /\ Fresh(out)
      /\ \A k \in DOMAIN Events[s] :
           /\ Events[s][k].key \in active => Events[s][k].key \in out.next
           /\ ~paused /\ Events[s][k].rule \in muted => Events[s][k].key \in out.next
  <2>1. CASE ~paused
    <3>1. out = Heard(s)
      BY <2>1
    <3> HIDE DEF out
    <3>2. QED
      BY <1>3, <3>1, HeardIs
  <2>2. CASE paused
    <3>1. out = [next |-> active \cap Keys(s), made |-> {}, age |-> age]
      BY <2>2 DEF PausedGate
    <3> HIDE DEF out
    <3>2. out \in Outcomes(s)
      BY <1>3, <3>1 DEF Outcomes
    <3>3. \A k \in DOMAIN Events[s] : Events[s][k].key \in Keys(s)
      BY DEF Keys
    <3>4. QED
      BY <2>2, <3>1, <3>2, <3>3 DEF Fresh
  <2>3. QED
    BY <2>1, <2>2
<1>5. new \subseteq Cards
  <2>1. ASSUME NEW e \in out.made
        PROVE  Card(e) \in Cards
    <3> HIDE DEF out
    <3>1. PICK k \in DOMAIN Events[s] : e = Events[s][k]
      BY <1>4 DEF Outcomes, Range
    <3>2. Good(e)
      BY <3>1, EventsAre
    <3>3. e.key \in AllKeys
      BY <3>1 DEF AllKeys, Keys
    <3>4. QED
      BY <3>2, <3>3 DEF Good, Card, Cards
  <2>2. QED
    BY <2>1
<1> HIDE DEF out, new
<1>6. ASSUME NEW c \in AllConds, Steady(c)
      PROVE  KnownOnce(c)' /\ (c \in excused => told'[c] <= told[c])
  BY <1>1, <1>2, <1>4, <1>6, EpisodesKept
<1>7. /\ out.next \subseteq AllKeys /\ out.age \in Ages
  BY <1>4 DEF Outcomes
<1>8. disk \in [cards : SUBSET Cards, muted : SUBSET RuleNames, active : SUBSET AllKeys, age : Ages]
  BY <1>1 DEF TypeOK
<1>9. disk' \in [cards : SUBSET Cards, muted : SUBSET RuleNames, active : SUBSET AllKeys, age : Ages]
  BY <1>2, <1>5, <1>7, <1>8
<1>10. disk' = [cards |-> disk.cards \cup new, muted |-> disk.muted,
                active |-> out.next, age |-> out.age]
  BY <1>2, <1>8
<1>11. SavedOnce'
  BY <1>1, <1>2, <1>10 DEF SavedOnce
<1>12. cards' \subseteq Cards /\ active' \subseteq AllKeys /\ age' \in Ages
  BY <1>1, <1>2, <1>5, <1>7 DEF TypeOK
<1>13. told' \in [AllConds -> Nat]
  <2>1. \A c \in AllConds : told[c] \in Nat
    BY <1>1 DEF TypeOK
  <2>2. told' = [c \in AllConds |->
                   IF c \notin Conds(s) THEN 0
                   ELSE IF \E e \in out.made : e.cond = c THEN told[c] + 1 ELSE told[c]]
    BY <1>2 DEF Episodes
  <2>3. QED
    BY <2>1, <2>2
<1>14. excused' \subseteq AllConds
  BY <1>2 DEF Episodes, AllConds
<1>15. QED
  BY <1>2, <1>6, <1>9, <1>11, <1>12, <1>13, <1>14

(* Edits, with the pass that each runs. *)
LEMMA EditSound ==
  ASSUME IInv, Commit \/ Touch
  PROVE  IInv' /\ \A c \in AllConds : Steady(c) /\ c \in excused => told'[c] <= told[c]
<1>1. TypeOK
  BY DEF IInv
<1>2. ASSUME NEW s \in DOMAIN Events, Advise(s), plan' = s,
             past' \in {past, Append(past, plan)}, future' = <<>>, acts' \in {acts, acts + 1}
      PROVE  IInv' /\ \A c \in AllConds : Steady(c) /\ c \in excused => told'[c] <= told[c]
  <2>1. /\ cards' \subseteq Cards /\ muted' = muted /\ paused' = paused
        /\ active' \subseteq AllKeys /\ age' \in Ages
        /\ told' \in [AllConds -> Nat] /\ excused' \subseteq AllConds
        /\ disk' \in [cards : SUBSET Cards, muted : SUBSET RuleNames,
                      active : SUBSET AllKeys, age : Ages]
        /\ SavedOnce'
        /\ \A c \in AllConds : Steady(c) =>
             KnownOnce(c)' /\ (c \in excused => told'[c] <= told[c])
    BY <1>2, AdviseSound
  <2>2. past' \in Seq(DOMAIN Events) /\ future' \in Seq(DOMAIN Events)
    <3>1. past \in Seq(DOMAIN Events) /\ plan \in DOMAIN Events
      BY <1>1 DEF TypeOK
    <3>2. Append(past, plan) \in Seq(DOMAIN Events) /\ <<>> \in Seq(DOMAIN Events)
      BY <3>1
    <3>3. QED
      BY <1>2, <3>1, <3>2
  <2>3. acts' \in Nat
    BY <1>1, <1>2 DEF TypeOK
  <2>4. TypeOK'
    BY <1>1, <1>2, <2>1, <2>2, <2>3 DEF TypeOK
  <2>5. QED
    BY <2>1, <2>4 DEF IInv
<1>3. CASE Touch
  <2>1. plan \in DOMAIN Events
    BY <1>1 DEF TypeOK
  <2>2. Advise(plan) /\ plan' = plan /\ past' = past /\ future' = <<>> /\ acts' = acts
    BY <1>3 DEF Touch
  <2>3. QED
    BY <1>2, <2>1, <2>2
<1>4. CASE Commit
  <2>1. PICK s \in Scenes \ {plan} :
          /\ Act /\ past' = Append(past, plan) /\ plan' = s /\ future' = <<>> /\ Advise(s)
    BY <1>4 DEF Commit
  <2>2. s \in DOMAIN Events
    BY DEF Events
  <2>3. QED
    BY <1>2, <2>1, <2>2 DEF Act
<1>5. QED
  BY <1>3, <1>4

(* What leaves the gate's keys and the episodes alone. *)
LEMMA GateKept ==
  ASSUME IInv, UNCHANGED <<active, ghosts>>
  PROVE  \A c \in AllConds : Steady(c) => KnownOnce(c)'
BY DEF IInv, KnownOnce, Accounted, ghosts

(* Undo and redo run no pass. *)
LEMMA HistorySound ==
  ASSUME IInv, Undo \/ Redo
  PROVE  IInv'
<1>1. TypeOK /\ SavedOnce /\ \A c \in AllConds : Steady(c) => KnownOnce(c)
  BY DEF IInv
<1>2. past \in Seq(DOMAIN Events) /\ plan \in DOMAIN Events /\ future \in Seq(DOMAIN Events)
  BY <1>1 DEF TypeOK
<1>3. acts' \in Nat /\ UNCHANGED <<advisor, disk, ghosts>>
  BY <1>1 DEF TypeOK, Undo, Redo, Act
<1>4. past' \in Seq(DOMAIN Events) /\ plan' \in DOMAIN Events /\ future' \in Seq(DOMAIN Events)
  <2>1. CASE Undo
    <3>1. /\ past # <<>> /\ plan' = Last(past) /\ past' = Front(past)
          /\ future' = <<plan>> \o future
      BY <2>1 DEF Undo
    <3>2. Len(past) \in DOMAIN past
      BY <1>2, <3>1
    <3>3. Last(past) \in DOMAIN Events
      BY <1>2, <3>2 DEF Last
    <3>4. Front(past) \in Seq(DOMAIN Events)
      BY <1>2, <3>1 DEF Front
    <3>5. <<plan>> \o future \in Seq(DOMAIN Events)
      BY <1>2
    <3>6. QED
      BY <3>1, <3>3, <3>4, <3>5
  <2>2. CASE Redo
    <3>1. /\ future # <<>> /\ plan' = Head(future) /\ future' = Tail(future)
          /\ past' = Append(past, plan)
      BY <2>2 DEF Redo
    <3>2. QED
      BY <1>2, <3>1
  <2>3. QED
    BY <2>1, <2>2
<1>5. TypeOK'
  BY <1>1, <1>3, <1>4 DEF TypeOK, advisor, ghosts
<1>6. SavedOnce'
  BY <1>1, <1>3 DEF SavedOnce, advisor
<1>7. \A c \in AllConds : Steady(c) => KnownOnce(c)'
  BY <1>3, GateKept DEF advisor
<1>8. QED
  BY <1>5, <1>6, <1>7 DEF IInv

(* What the user does to cards, mutes and pause; a restart; the clock. *)
LEMMA UserSound ==
  ASSUME IInv, Dismiss \/ Unmute \/ SetPaused \/ Reopen \/ Tick \/ SetClockBack
  PROVE  IInv'
<1>1. TypeOK /\ SavedOnce
  BY DEF IInv
<1>2. /\ cards \subseteq Cards /\ muted \subseteq RuleNames /\ paused \in BOOLEAN
      /\ active \subseteq AllKeys /\ age \in Ages /\ acts \in Nat
  BY <1>1 DEF TypeOK
<1>3. disk = [cards |-> cards, muted |-> muted, active |-> active, age |-> age]
  BY <1>1 DEF SavedOnce
<1>4. ASSUME cards' \subseteq Cards, muted' \subseteq RuleNames, paused' \in BOOLEAN, age' \in Ages,
             disk' = [cards |-> cards', muted |-> muted', active |-> active', age |-> age'],
             UNCHANGED <<history, active, ghosts>>, acts' \in {acts, acts + 1}
      PROVE  IInv'
  <2>1. TypeOK'
    <3>1. acts' \in Nat
      BY <1>2, <1>4
    <3>2. disk' \in [cards : SUBSET Cards, muted : SUBSET RuleNames,
                     active : SUBSET AllKeys, age : Ages]
      BY <1>2, <1>4
    <3>3. QED
      BY <1>1, <1>4, <3>1, <3>2 DEF TypeOK, history, ghosts
  <2>2. SavedOnce'
    BY <1>4 DEF SavedOnce
  <2>3. \A c \in AllConds : Steady(c) => KnownOnce(c)'
    BY <1>4, GateKept
  <2>4. QED
    BY <2>1, <2>2, <2>3 DEF IInv
<1>5. CASE Dismiss
  <2>1. PICK c \in Feed :
          LET gone(cs) == (cs \ {c}) \cup {[c EXCEPT !.dismissed = TRUE]} IN
          /\ Act
          /\ cards' = gone(cards) /\ muted' = muted \cup {c.rule}
          /\ disk' = [disk EXCEPT !.cards = gone(@), !.muted = @ \cup {c.rule}]
          /\ UNCHANGED <<history, paused, active, age, ghosts>>
    BY <1>5 DEF Dismiss
  <2>2. c \in Cards
    BY <1>2 DEF Feed
  <2>3. [c EXCEPT !.dismissed = TRUE] \in Cards /\ c.rule \in RuleNames
    BY <2>2 DEF Cards
  <2>4. cards' \subseteq Cards /\ muted' \subseteq RuleNames
    BY <1>2, <2>1, <2>3
  <2>5. disk' = [cards |-> cards', muted |-> muted', active |-> active', age |-> age']
    BY <1>3, <2>1
  <2>6. QED
    BY <1>2, <1>4, <2>1, <2>4, <2>5 DEF Act
<1>6. CASE Unmute
  <2>1. PICK r \in muted :
          /\ Act /\ muted' = muted \ {r} /\ disk' = [disk EXCEPT !.muted = @ \ {r}]
          /\ UNCHANGED <<history, cards, paused, active, age, ghosts>>
    BY <1>6 DEF Unmute
  <2>2. disk' = [cards |-> cards', muted |-> muted', active |-> active', age |-> age']
    BY <1>3, <2>1
  <2>3. QED
    BY <1>2, <1>4, <2>1, <2>2 DEF Act
<1>7. CASE SetPaused
  <2>1. /\ paused' = ~paused /\ acts' = acts + 1
        /\ UNCHANGED <<history, cards, muted, active, age, disk, ghosts>>
    BY <1>7 DEF SetPaused, Act
  <2>2. disk' = [cards |-> cards', muted |-> muted', active |-> active', age |-> age']
    BY <1>3, <2>1
  <2>3. paused' \in BOOLEAN
    BY <2>1
  <2>4. QED
    BY <1>2, <1>4, <2>1, <2>2, <2>3
<1>8. CASE Reopen
  <2>1. /\ cards' = disk.cards /\ muted' = disk.muted /\ active' = disk.active /\ age' = disk.age
        /\ paused' = FALSE /\ acts' = acts + 1 /\ UNCHANGED <<history, disk, ghosts>>
    BY <1>8 DEF Reopen, Act
  <2>2. cards' = cards /\ muted' = muted /\ active' = active /\ age' = age
    BY <1>3, <2>1
  <2>3. QED
    BY <1>2, <1>3, <1>4, <2>1, <2>2
<1>9. ASSUME NEW a \in Ages
      PROVE  Older(a) \in Ages /\ Ahead(a) \in Ages
  <2>1. \A r \in RuleNames : a[r] \in Int \cup {Never}
    BY DEF Ages
  <2>2. \A r \in RuleNames : Debounced(a[r]) => a[r] + 1 \in Int
    BY <2>1 DEF Debounced
  <2>3. QED
    BY <2>1, <2>2 DEF Older, Ahead, Ages
<1>10. CASE Tick
  <2>1. /\ age' = Older(age) /\ disk' = [disk EXCEPT !.age = Older(@)]
        /\ UNCHANGED <<history, cards, muted, paused, active, ghosts, acts>>
    BY <1>10 DEF Tick
  <2>2. disk' = [cards |-> cards', muted |-> muted', active |-> active', age |-> age']
    BY <1>3, <2>1
  <2>3. QED
    BY <1>2, <1>4, <1>9, <2>1, <2>2
<1>11. CASE SetClockBack
  <2>1. /\ age' = Ahead(age) /\ disk' = [disk EXCEPT !.age = Ahead(@)] /\ acts' = acts + 1
        /\ UNCHANGED <<history, cards, muted, paused, active, ghosts>>
    BY <1>11 DEF SetClockBack, Act
  <2>2. disk' = [cards |-> cards', muted |-> muted', active |-> active', age |-> age']
    BY <1>3, <2>1
  <2>3. QED
    BY <1>2, <1>4, <1>9, <2>1, <2>2
<1>12. QED
  BY <1>5, <1>6, <1>7, <1>8, <1>10, <1>11


(* A new empire starts over. *)
LEMMA NewEmpireSound ==
  ASSUME IInv, NewEmpire
  PROVE  IInv'
<1>1. /\ past' = <<>> /\ plan' = Blank /\ future' = <<>>
      /\ cards' = {} /\ muted' = {} /\ paused' = FALSE /\ active' = {} /\ age' = Fires
      /\ disk' = [cards |-> {}, muted |-> {}, active |-> {}, age |-> Fires]
      /\ told' = [c \in AllConds |-> 0] /\ excused' = {} /\ acts' = acts + 1 /\ acts \in Nat
  BY DEF NewEmpire, Act, IInv, TypeOK
<1>2. Fires \in Ages /\ Blank \in DOMAIN Events /\ <<>> \in Seq(DOMAIN Events)
  BY DEF Fires, Ages, Events
<1>3. TypeOK'
  <2>1. disk' \in [cards : SUBSET Cards, muted : SUBSET RuleNames, active : SUBSET AllKeys, age : Ages]
    BY <1>1, <1>2
  <2>2. told' \in [AllConds -> Nat] /\ acts' \in Nat
    BY <1>1
  <2>3. QED
    BY <1>1, <1>2, <2>1, <2>2 DEF TypeOK
<1>4. SavedOnce'
  BY <1>1 DEF SavedOnce
<1>5. \A c \in AllConds : KnownOnce(c)'
  BY <1>1 DEF KnownOnce
<1>6. QED
  BY <1>3, <1>4, <1>5 DEF IInv

------------------------------------------------------------------------------
(* Theorems *)

(* The inductive invariant: the plan file has what memory has, and a steady *)
(* condition that was told of or excused is known to the gate. *)
THEOREM Invariant ==
  Spec => []IInv
<1>1. Init => IInv
  <2>1. SUFFICES ASSUME Init PROVE IInv
    OBVIOUS
  <2>2. Fires \in Ages /\ Blank \in DOMAIN Events /\ <<>> \in Seq(DOMAIN Events)
    BY DEF Fires, Ages, Events
  <2>3. TypeOK
    BY <2>1, <2>2 DEF Init, Silent, TypeOK
  <2>4. SavedOnce
    BY <2>1 DEF Init, SavedOnce
  <2>5. \A c \in AllConds : KnownOnce(c)
    BY <2>1 DEF Init, Silent, KnownOnce
  <2>6. QED
    BY <2>3, <2>4, <2>5 DEF IInv
<1>2. IInv /\ [Next]_vars => IInv'
  <2>1. SUFFICES ASSUME IInv, [Next]_vars PROVE IInv'
    OBVIOUS
  <2>2. CASE UNCHANGED vars
    BY <2>1, <2>2 DEF vars, history, advisor, ghosts, IInv, TypeOK, SavedOnce, KnownOnce, Accounted
  <2>3. QED
    BY <2>1, <2>2, EditSound, HistorySound, UserSound, NewEmpireSound DEF Next
<1>3. QED
  BY <1>1, <1>2, PTL DEF Spec

(* Histories, cards, mutes, ages, the gate and its copy on disk keep their types. *)
THEOREM TypeCorrect ==
  Spec => []TypeOK
<1>1. IInv => TypeOK
  BY DEF IInv
<1>2. QED
  BY <1>1, Invariant, PTL

(* Only circuits may go by another key in another scene. *)
LEMMA PlainSteady ==
  ASSUME NEW c, c[1] # "power_swing"
  PROVE  Steady(c)
<1>1. ASSUME NEW s \in DOMAIN Events, NEW k \in DOMAIN Events[s], Events[s][k].cond = c
      PROVE  Events[s][k].key = c
  <2>1. Good(Events[s][k])
    BY EventsAre
  <2>2. QED
    BY <1>1, <2>1 DEF Good
<1>2. QED
  BY <1>1 DEF Steady

(* From the edit that brings it about to the first that finds it gone, a   *)
(* condition makes one card at most, unless it is a circuit's. *)
THEOREM PlainToldOnce ==
  Spec => [](\A c \in AllConds : c[1] # "power_swing" => told[c] <= 1)
<1>1. IInv => \A c \in AllConds : c[1] # "power_swing" => told[c] <= 1
  BY PlainSteady DEF IInv, KnownOnce
<1>2. QED
  BY <1>1, Invariant, PTL

(* Where circuits keep their names every condition makes one card at most. *)
THEOREM AlwaysToldOnce ==
  ASSUME \A c \in AllConds : Steady(c)
  PROVE  Spec => []ToldOnce
<1>1. IInv => ToldOnce
  BY DEF IInv, KnownOnce, ToldOnce
<1>2. QED
  BY <1>1, Invariant, PTL

(* What one step tells of excused conditions. *)
LEMMA ExcusedSilent ==
  ASSUME IInv, [Next]_vars, NEW c \in excused, Steady(c)
  PROVE  told'[c] <= told[c]
<1>1. c \in AllConds /\ told[c] \in Nat
  BY DEF IInv, TypeOK
<1>2. CASE Commit \/ Touch
  BY <1>1, <1>2, EditSound
<1>3. CASE NewEmpire
  BY <1>1, <1>3 DEF NewEmpire
<1>4. CASE told' = told
  BY <1>1, <1>4
<1>5. \/ Undo \/ Redo \/ Dismiss \/ Unmute \/ SetPaused \/ Reopen \/ Tick \/ SetClockBack
      \/ UNCHANGED vars
      => told' = told
  BY DEF Undo, Redo, Dismiss, Unmute, SetPaused, Reopen, Tick, SetClockBack, vars, ghosts
<1>6. QED
  BY <1>2, <1>3, <1>4, <1>5 DEF Next

(* What was seen while its rule was muted makes no card when the rule is   *)
(* unmuted, unless it is a circuit's. *)
THEOREM PlainNeverAmbushed ==
  Spec => [][\A c \in excused : c[1] # "power_swing" => told'[c] <= told[c]]_vars
<1> DEFINE Step == \A c \in excused : c[1] # "power_swing" => told'[c] <= told[c]
<1>1. IInv /\ [Next]_vars => [Step]_vars
  BY ExcusedSilent, PlainSteady
<1>2. Spec => [][Step]_vars
  BY <1>1, Invariant, PTL DEF Spec
<1>3. QED
  BY <1>2

(* Nor a circuit's, where circuits keep their names. *)
THEOREM NeverAmbushed ==
  ASSUME \A c \in AllConds : Steady(c)
  PROVE  Spec => NoAmbush
<1> DEFINE Step == \A c \in excused : told'[c] <= told[c]
<1>1. IInv /\ [Next]_vars => [Step]_vars
  <2>1. SUFFICES ASSUME IInv, [Next]_vars, NEW c \in excused PROVE told'[c] <= told[c]
    OBVIOUS
  <2>2. Steady(c)
    BY <2>1 DEF IInv, TypeOK
  <2>3. QED
    BY <2>1, <2>2, ExcusedSilent
<1>2. Spec => [][Step]_vars
  BY <1>1, Invariant, PTL DEF Spec
<1>3. QED
  BY <1>2 DEF NoAmbush

(* The circuits that the rules and the grid cards see are the components   *)
(* of the power lines in every state, and a switch sheds what it says. *)
THEOREM GridsAlwaysTrue ==
  Spec => []GridsTrue
<1>1. ASSUME NEW s \in DOMAIN Events
      PROVE  IsMap(Scene[s])
  <2>1. s \in Scenes \cup {Blank}
    BY DEF Events
  <2>2. QED
    BY <2>1, SceneAssumption DEF IsMap
<1>2. ASSUME NEW s \in DOMAIN Events
      PROVE  Connected[s]
  <2>1. Connected[s] = AreComponents(Scene[s])
    BY DEF Connected
  <2>2. QED
    BY <1>1, <2>1, CircuitsAreComponents DEF IsMap
<1>3. ASSUME NEW s \in DOMAIN Events
      PROVE  ShedsRight[s]
  <2>1. ShedsRight[s] = \A c \in Range(Circuits(Scene[s])) : ShedsWhatItSays(Scene[s], c)
    BY DEF ShedsRight
  <2>2. QED
    BY <1>1, <2>1, ShedsAreRight
<1>4. TypeOK => GridsTrue
  <2>1. TypeOK => plan \in DOMAIN Events
    BY DEF TypeOK
  <2>2. QED
    BY <1>2, <1>3, <2>1 DEF GridsTrue, GridsConnect, ShedsTrue
<1>5. QED
  BY <1>4, TypeCorrect, PTL
==============================================================================
