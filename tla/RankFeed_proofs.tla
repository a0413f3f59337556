--------------------------- MODULE RankFeed_proofs ---------------------------
(***************************************************************************)
(* The feed is honest, for any plans, evidence, replies and bounds: what   *)
(* the session derives, the model orders and the renderer merges is always *)
(* a list of the engine's, each card once, with prose about it.            *)
(*                                                                         *)
(* Kept and FirstOnly are recursive functions: each is unfolded to one     *)
(* pass, and what holds after all passes is handed on from pass to pass.   *)
(***************************************************************************)
EXTENDS RankFeed, TLAPS, NaturalsInduction, FunctionTheorems, FiniteSetTheorems

------------------------------------------------------------------------------
(* Recursion over the prefixes of a list *)

(* A set of numbers that has a member has a least one. *)
LEMMA LeastMember ==
  ASSUME NEW S \in SUBSET Nat, S # {}
  PROVE  \E m \in S : \A k \in S : m <= k
<1>1. \E x \in S : \A y \in S : ~ (<<y, x>> \in OpToRel(<, Nat))
  BY NatLessThanWellFounded, WFMin
<1>2. ASSUME NEW x \in Nat, NEW y \in Nat, y < x
      PROVE  <<y, x>> \in OpToRel(<, Nat)
  BY <1>2, Zenon DEF OpToRel
<1>3. PICK m \in S : \A y \in S : ~ (<<y, m>> \in OpToRel(<, Nat))
  BY <1>1
<1>4. \A y \in S : ~ (y < m)
  BY <1>2, <1>3
<1>5. \A y \in S : m <= y
  BY <1>4
<1>6. QED
  BY <1>5

(* What holds at 0 and is handed on up to n holds up to n. *)
LEMMA HandedOn ==
  ASSUME NEW n \in Nat, NEW S, 0 \in S, \A k \in 1..n : k - 1 \in S => k \in S
  PROVE  \A k \in 0..n : k \in S
<1> DEFINE R == {k \in 0..n : k \notin S}
<1>1. SUFFICES ASSUME R # {} PROVE FALSE
  OBVIOUS
<1>2. R \in SUBSET Nat
  OBVIOUS
<1>3. PICK k \in R : \A j \in R : k <= j
  BY <1>1, <1>2, LeastMember
<1>4. k \in 1..n /\ k - 1 \in 0..n /\ k - 1 \notin R
  BY <1>3
<1>5. QED
  BY <1>3, <1>4

(* A recursion whose steps stay in T has a solution. *)
LEMMA StepsExist ==
  ASSUME NEW T, NEW x \in T, NEW n \in Nat, NEW step \in [1..n -> [T -> T]]
  PROVE  \E f \in [0..n -> T] : f[0] = x /\ \A k \in 1..n : f[k] = step[k][f[k - 1]]
<1> DEFINE Solves(f, m) == /\ f \in [0..m -> T] /\ f[0] = x
                           /\ \A k \in 1..m : f[k] = step[k][f[k - 1]]
           S == {m \in 0..n : \E f : Solves(f, m)}
<1>1. 0 \in S
  <2>1. Solves([k \in 0..0 |-> x], 0)
    OBVIOUS
  <2>2. \E f : Solves(f, 0)
    BY <2>1
  <2>3. 0 \in 0..n
    OBVIOUS
  <2> HIDE DEF Solves
  <2>4. QED
    BY <2>2, <2>3
<1>2. ASSUME NEW m \in 1..n, m - 1 \in S
      PROVE  m \in S
  <2>1. PICK f : Solves(f, m - 1)
    BY <1>2
  <2> DEFINE g == [k \in 0..m |-> IF k = m THEN step[m][f[m - 1]] ELSE f[k]]
  <2>2. \A k \in 0..(m - 1) : k \in 0..m /\ k # m /\ g[k] = f[k] /\ f[k] \in T
    BY <2>1
  <2>3. g[m] = step[m][f[m - 1]] /\ f[m - 1] \in T /\ g[m - 1] = f[m - 1]
    BY <2>1, <2>2
  <2>4. step[m][f[m - 1]] \in T
    BY <2>3
  <2>5. g \in [0..m -> T]
    <3>1. \A k \in 0..m : k = m \/ k \in 0..(m - 1)
      OBVIOUS
    <3>2. QED
      BY <2>2, <2>3, <2>4, <3>1
  <2>6. g[0] = x
    BY <2>1, <2>2
  <2>7. ASSUME NEW k \in 1..m
        PROVE  g[k] = step[k][g[k - 1]]
    <3>1. CASE k = m
      BY <2>3, <3>1
    <3>2. CASE k # m
      <4>1. k \in 1..(m - 1) /\ k \in 0..(m - 1) /\ k - 1 \in 0..(m - 1)
        BY <3>2
      <4>2. g[k] = f[k] /\ g[k - 1] = f[k - 1]
        BY <2>2, <4>1
      <4>3. f[k] = step[k][f[k - 1]]
        BY <2>1, <4>1
      <4>4. QED
        BY <4>2, <4>3
    <3>3. QED
      BY <3>1, <3>2
  <2> HIDE DEF g
  <2>8. Solves(g, m)
    BY <2>5, <2>6, <2>7
  <2>9. m \in 0..n
    OBVIOUS
  <2> HIDE DEF Solves
  <2>10. QED
    BY <2>8, <2>9
<1>3. n \in S
  <2> HIDE DEF S
  <2>1. n \in 0..n
    OBVIOUS
  <2>2. QED
    BY <1>1, <1>2, <2>1, HandedOn
<1>4. PICK f : Solves(f, n)
  BY <1>3
<1>5. QED
  BY <1>4

------------------------------------------------------------------------------
(* Kept *)

(* The loop of Kept, pass by pass. *)
Keeps(seq, S, f) ==
  f = [k \in 0..Len(seq) |->
         IF k = 0 THEN <<>>
         ELSE IF seq[k] \in S THEN Append(f[k - 1], seq[k]) ELSE f[k - 1]]

(* There is such a loop, and Kept is what it ends with. *)
LEMMA KeptLoops ==
  ASSUME NEW T, NEW seq \in Seq(T), NEW S
  PROVE  \E f : Keeps(seq, S, f) /\ Kept(seq, S) = f[Len(seq)]
<1> DEFINE n == Len(seq)
           step == [k \in 1..n |-> [s \in Seq(T) |-> IF seq[k] \in S THEN Append(s, seq[k]) ELSE s]]
<1>1. n \in Nat /\ <<>> \in Seq(T) /\ \A k \in 1..n : seq[k] \in T
  OBVIOUS
<1>2. step \in [1..n -> [Seq(T) -> Seq(T)]]
  BY <1>1
<1>3. \A k \in 1..n, s \in Seq(T) :
        step[k][s] = IF seq[k] \in S THEN Append(s, seq[k]) ELSE s
  OBVIOUS
<1>4. \E f : Keeps(seq, S, f)
  <2> HIDE DEF step, n
  <2>1. PICK f \in [0..n -> Seq(T)] : f[0] = <<>> /\ \A k \in 1..n : f[k] = step[k][f[k - 1]]
    <3> DEFINE Q == Seq(T)
               none == <<>>
    <3>1. none \in Q /\ step \in [1..n -> [Q -> Q]] /\ n \in Nat
      BY <1>1, <1>2
    <3> HIDE DEF Q, none
    <3>2. \E f \in [0..n -> Q] : f[0] = none /\ \A k \in 1..n : f[k] = step[k][f[k - 1]]
      BY <3>1, StepsExist
    <3>3. QED
      BY <3>2 DEF Q, none
  <2>2. ASSUME NEW k \in 0..n
        PROVE  f[k] = IF k = 0 THEN <<>>
                      ELSE IF seq[k] \in S THEN Append(f[k - 1], seq[k]) ELSE f[k - 1]
    <3>1. CASE k = 0
      BY <2>1, <3>1
    <3>2. CASE k # 0
      <4>1. k \in 1..n /\ k - 1 \in 0..n
        BY <1>1, <3>2
      <4>2. f[k - 1] \in Seq(T) /\ f[k] = step[k][f[k - 1]]
        BY <2>1, <3>2, <4>1
      <4>3. QED
        BY <1>3, <3>2, <4>1, <4>2
    <3>3. QED
      BY <3>1, <3>2
  <2>3. Keeps(seq, S, f)
    BY <2>1, <2>2 DEF Keeps, n
  <2>4. QED
    BY <2>3
<1> DEFINE g == CHOOSE f : Keeps(seq, S, f)
<1>5. Keeps(seq, S, g)
  BY <1>4
<1>6. Kept(seq, S) = g[Len(seq)]
  BY DEF Kept, Keeps
<1>7. QED
  BY <1>5, <1>6

(* Sequences of members of seq that come in its order. *)
InOrder(s, seq) ==
  \A i, j \in DOMAIN s : i < j =>
    \E a, b \in DOMAIN seq : a < b /\ s[i] = seq[a] /\ s[j] = seq[b]

(* What is kept: the members in S, in the order of seq. *)
LEMMA KeptIs ==
  ASSUME NEW T, NEW seq \in Seq(T), NEW S
  PROVE  /\ Kept(seq, S) \in Seq(T)
         /\ Range(Kept(seq, S)) = Range(seq) \cap S
         /\ InOrder(Kept(seq, S), seq)
<1> DEFINE n == Len(seq)
<1>1. PICK f : Keeps(seq, S, f) /\ Kept(seq, S) = f[Len(seq)]
  BY KeptLoops
<1>2. n \in Nat /\ DOMAIN seq = 1..n /\ \A k \in 1..n : seq[k] \in T
  OBVIOUS
<1>3. f[0] = <<>>
  BY <1>1, <1>2 DEF Keeps
<1>4. ASSUME NEW k \in 1..n
      PROVE  f[k] = IF seq[k] \in S THEN Append(f[k - 1], seq[k]) ELSE f[k - 1]
  <2>1. k \in 0..Len(seq) /\ k # 0
    BY <1>2
  <2>2. QED
    BY <1>1, <2>1 DEF Keeps
<1> DEFINE Upto(k) == {seq[i] : i \in 1..k}
           Good(k) == /\ f[k] \in Seq(T)
                      /\ Range(f[k]) = Upto(k) \cap S
                      /\ \A i, j \in DOMAIN f[k] : i < j =>
                           \E a, b \in 1..k : a < b /\ f[k][i] = seq[a] /\ f[k][j] = seq[b]
<1>5. Good(0)
  <2>1. f[0] \in Seq(T) /\ DOMAIN f[0] = {}
    BY <1>3
  <2>2. QED
    BY <2>1 DEF Range
<1>6. ASSUME NEW k \in 1..n, Good(k - 1)
      PROVE  Good(k)
  <2> DEFINE old == f[k - 1]
  <2>1. Upto(k) = Upto(k - 1) \cup {seq[k]}
    <3>1. \A i : i \in 1..k <=> i \in 1..(k - 1) \/ i = k
      OBVIOUS
    <3>2. QED
      BY <3>1
  <2>2. old \in Seq(T) /\ Range(old) = Upto(k - 1) \cap S
    BY <1>6
  <2>3. \A i, j \in DOMAIN old : i < j =>
          \E a, b \in 1..(k - 1) : a < b /\ old[i] = seq[a] /\ old[j] = seq[b]
    BY <1>6
  <2>4. 1..(k - 1) \subseteq 1..k
    OBVIOUS
  <2>5. CASE seq[k] \notin S
    <3>1. f[k] = old
      BY <1>4, <2>5
    <3>2. Upto(k) \cap S = Upto(k - 1) \cap S
      BY <2>1, <2>5
    <3> HIDE DEF old, Upto
    <3>3. QED
      BY <2>2, <2>3, <2>4, <3>1, <3>2
  <2>6. CASE seq[k] \in S
    <3> DEFINE new == f[k]
    <3>1. new = Append(old, seq[k])
      BY <1>4, <2>6
    <3>2. seq[k] \in T
      BY <1>2
    <3> HIDE DEF old, new
    <3>3. /\ new \in Seq(T) /\ Len(new) = Len(old) + 1 /\ Len(old) \in Nat
          /\ DOMAIN old = 1..Len(old) /\ DOMAIN new = 1..(Len(old) + 1)
          /\ new[Len(old) + 1] = seq[k] /\ \A i \in DOMAIN old : new[i] = old[i]
      BY <2>2, <3>1, <3>2
    <3>4. \A i \in DOMAIN new : i \in DOMAIN old \/ i = Len(old) + 1
      BY <3>3
    <3>5. DOMAIN old \subseteq DOMAIN new /\ Len(old) + 1 \in DOMAIN new
      BY <3>3
    <3>6. Range(new) = Range(old) \cup {seq[k]}
      BY <3>3, <3>4, <3>5 DEF Range
    <3>7. Range(new) = Upto(k) \cap S
      <4> HIDE DEF Upto
      <4>1. QED
        BY <2>1, <2>2, <2>6, <3>6
    <3>8. ASSUME NEW i \in DOMAIN new, NEW j \in DOMAIN new, i < j
          PROVE  \E a, b \in 1..k : a < b /\ new[i] = seq[a] /\ new[j] = seq[b]
      <4>1. i \in DOMAIN old
        BY <3>3, <3>4, <3>8
      <4>2. CASE j \in DOMAIN old
        <5>1. PICK a, b \in 1..(k - 1) : a < b /\ old[i] = seq[a] /\ old[j] = seq[b]
          BY <2>3, <3>8, <4>1, <4>2
        <5>2. QED
          BY <2>4, <3>3, <4>1, <4>2, <5>1
      <4>3. CASE j = Len(old) + 1
        <5>1. new[i] \in Upto(k - 1)
          BY <2>2, <3>3, <4>1 DEF Range
        <5>2. PICK a \in 1..(k - 1) : new[i] = seq[a]
          BY <5>1
        <5>3. a \in 1..k /\ k \in 1..k /\ a < k
          OBVIOUS
        <5>4. QED
          BY <3>3, <4>3, <5>2, <5>3
      <4>4. QED
        BY <3>4, <4>2, <4>3
    <3>9. QED
      BY <3>3, <3>7, <3>8 DEF new
  <2>7. QED
    BY <2>5, <2>6
<1>7. Good(n)
  <2> DEFINE G == {k \in 0..n : Good(k)}
  <2>1. 0 \in G
    BY <1>2, <1>5
  <2>2. \A k \in 1..n : k - 1 \in G => k \in G
    <3> HIDE DEF Good, n
    <3>1. \A k \in 1..n : k \in 0..n
      BY <1>2
    <3>2. QED
      BY <1>6, <3>1
  <2>3. n \in G
    <3> HIDE DEF G
    <3>1. n \in 0..n
      BY <1>2
    <3> HIDE DEF n
    <3>2. QED
      BY <1>2, <2>1, <2>2, <3>1, HandedOn
  <2> HIDE DEF Good
  <2>4. QED
    BY <2>3
<1>8. Upto(n) = Range(seq)
  BY <1>2 DEF Range
<1>9. InOrder(f[n], seq)
  <2>1. \A i, j \in DOMAIN f[n] : i < j =>
          \E a, b \in 1..n : a < b /\ f[n][i] = seq[a] /\ f[n][j] = seq[b]
    BY <1>7
  <2>2. QED
    BY <1>2, <2>1 DEF InOrder
<1>10. f[n] \in Seq(T) /\ Range(f[n]) = Upto(n) \cap S
  BY <1>7
<1> HIDE DEF Good, Upto
<1>11. QED
  BY <1>1, <1>8, <1>9, <1>10

------------------------------------------------------------------------------
(* FirstOnly *)

(* The loop of FirstOnly, pass by pass. *)
Firsts(seq, f) ==
  f = [k \in 0..Len(seq) |->
         IF k = 0 THEN <<>>
         ELSE IF \E j \in 1..(k - 1) : seq[j] = seq[k] THEN f[k - 1]
              ELSE Append(f[k - 1], seq[k])]

(* There is such a loop, and FirstOnly is what it ends with. *)
LEMMA FirstLoops ==
  ASSUME NEW T, NEW seq \in Seq(T)
  PROVE  \E f : Firsts(seq, f) /\ FirstOnly(seq) = f[Len(seq)]
<1> DEFINE n == Len(seq)
           Old(k) == \E j \in 1..(k - 1) : seq[j] = seq[k]
           step == [k \in 1..n |-> [s \in Seq(T) |-> IF Old(k) THEN s ELSE Append(s, seq[k])]]
<1>1. n \in Nat /\ <<>> \in Seq(T) /\ \A k \in 1..n : seq[k] \in T
  OBVIOUS
<1>2. step \in [1..n -> [Seq(T) -> Seq(T)]]
  <2> HIDE DEF Old
  <2>1. QED
    BY <1>1
<1>3. \A k \in 1..n, s \in Seq(T) :
        step[k][s] = IF Old(k) THEN s ELSE Append(s, seq[k])
  <2> HIDE DEF Old
  <2>1. QED
    OBVIOUS
<1>4. \E f : Firsts(seq, f)
  <2> HIDE DEF step, n, Old
  <2>1. PICK f \in [0..n -> Seq(T)] : f[0] = <<>> /\ \A k \in 1..n : f[k] = step[k][f[k - 1]]
    <3> DEFINE Q == Seq(T)
               none == <<>>
    <3>1. none \in Q /\ step \in [1..n -> [Q -> Q]] /\ n \in Nat
      BY <1>1, <1>2
    <3> HIDE DEF Q, none
    <3>2. \E f \in [0..n -> Q] : f[0] = none /\ \A k \in 1..n : f[k] = step[k][f[k - 1]]
      BY <3>1, StepsExist
    <3>3. QED
      BY <3>2 DEF Q, none
  <2>2. ASSUME NEW k \in 0..n
        PROVE  f[k] = IF k = 0 THEN <<>>
                      ELSE IF Old(k) THEN f[k - 1] ELSE Append(f[k - 1], seq[k])
    <3>1. CASE k = 0
      BY <2>1, <3>1
    <3>2. CASE k # 0
      <4>1. k \in 1..n /\ k - 1 \in 0..n
        BY <1>1, <3>2
      <4>2. f[k - 1] \in Seq(T) /\ f[k] = step[k][f[k - 1]]
        BY <2>1, <3>2, <4>1
      <4>3. QED
        BY <1>3, <3>2, <4>1, <4>2
    <3>3. QED
      BY <3>1, <3>2
  <2>3. f = [k \in 0..n |-> IF k = 0 THEN <<>>
                            ELSE IF Old(k) THEN f[k - 1] ELSE Append(f[k - 1], seq[k])]
    BY <2>1, <2>2
  <2>4. Firsts(seq, f)
    BY <2>3 DEF Firsts, n, Old
  <2>5. QED
    BY <2>4
<1> DEFINE g == CHOOSE f : Firsts(seq, f)
<1>5. Firsts(seq, g)
  BY <1>4
<1>6. FirstOnly(seq) = g[Len(seq)]
  BY DEF FirstOnly, Firsts
<1>7. QED
  BY <1>5, <1>6

(* What is left: every member, once. *)
LEMMA FirstOnlyIs ==
  ASSUME NEW T, NEW seq \in Seq(T)
  PROVE  /\ FirstOnly(seq) \in Seq(T)
         /\ Range(FirstOnly(seq)) = Range(seq)
         /\ IsInjective(FirstOnly(seq))
<1> DEFINE n == Len(seq)
           Old(k) == \E j \in 1..(k - 1) : seq[j] = seq[k]
<1>1. PICK f : Firsts(seq, f) /\ FirstOnly(seq) = f[Len(seq)]
  BY FirstLoops
<1>2. n \in Nat /\ DOMAIN seq = 1..n /\ \A k \in 1..n : seq[k] \in T
  OBVIOUS
<1>3. f[0] = <<>>
  BY <1>1, <1>2 DEF Firsts
<1>4. ASSUME NEW k \in 1..n
      PROVE  f[k] = IF Old(k) THEN f[k - 1] ELSE Append(f[k - 1], seq[k])
  <2>1. k \in 0..Len(seq) /\ k # 0
    BY <1>2
  <2>2. QED
    BY <1>1, <2>1 DEF Firsts
<1> DEFINE Upto(k) == {seq[i] : i \in 1..k}
           Good(k) == /\ f[k] \in Seq(T)
                      /\ Range(f[k]) = Upto(k)
                      /\ IsInjective(f[k])
<1>5. Good(0)
  <2>1. f[0] \in Seq(T) /\ DOMAIN f[0] = {}
    BY <1>3
  <2>2. QED
    BY <2>1 DEF Range, IsInjective
<1>6. ASSUME NEW k \in 1..n, Good(k - 1)
      PROVE  Good(k)
  <2> DEFINE old == f[k - 1]
  <2>1. Upto(k) = Upto(k - 1) \cup {seq[k]}
    <3>1. \A i : i \in 1..k <=> i \in 1..(k - 1) \/ i = k
      OBVIOUS
    <3>2. QED
      BY <3>1
  <2>2. old \in Seq(T) /\ Range(old) = Upto(k - 1) /\ IsInjective(old)
    BY <1>6
  <2>3. Old(k) <=> seq[k] \in Upto(k - 1)
    OBVIOUS
  <2>4. CASE Old(k)
    <3>1. f[k] = old
      BY <1>4, <2>4
    <3>2. Upto(k) = Upto(k - 1)
      BY <2>1, <2>3, <2>4
    <3> HIDE DEF old, Upto
    <3>3. QED
      BY <2>2, <3>1, <3>2
  <2>5. CASE ~Old(k)
    <3> DEFINE new == f[k]
    <3>1. new = Append(old, seq[k])
      BY <1>4, <2>5
    <3>2. seq[k] \in T /\ seq[k] \notin Range(old)
      BY <1>2, <2>2, <2>3, <2>5
    <3> HIDE DEF old, new
    <3>3. /\ new \in Seq(T) /\ Len(new) = Len(old) + 1 /\ Len(old) \in Nat
          /\ DOMAIN old = 1..Len(old) /\ DOMAIN new = 1..(Len(old) + 1)
          /\ new[Len(old) + 1] = seq[k] /\ \A i \in DOMAIN old : new[i] = old[i]
      BY <2>2, <3>1, <3>2
    <3>4. \A i \in DOMAIN new : i \in DOMAIN old \/ i = Len(old) + 1
      BY <3>3
    <3>5. DOMAIN old \subseteq DOMAIN new /\ Len(old) + 1 \in DOMAIN new
      BY <3>3
    <3>6. Range(new) = Range(old) \cup {seq[k]}
      BY <3>3, <3>4, <3>5 DEF Range
    <3>7. Range(new) = Upto(k)
      <4> HIDE DEF Upto
      <4>1. QED
        BY <2>1, <2>2, <3>6
    <3>8. \A i \in DOMAIN old : new[i] # seq[k]
      BY <3>2, <3>3 DEF Range
    <3>9. IsInjective(new)
      BY <2>2, <3>3, <3>4, <3>8 DEF IsInjective
    <3>10. QED
      BY <3>3, <3>7, <3>9 DEF new
  <2>6. QED
    BY <2>4, <2>5
<1>7. Good(n)
  <2> DEFINE G == {k \in 0..n : Good(k)}
  <2>1. 0 \in G
    BY <1>2, <1>5
  <2>2. \A k \in 1..n : k - 1 \in G => k \in G
    <3> HIDE DEF Good, n
    <3>1. \A k \in 1..n : k \in 0..n
      BY <1>2
    <3>2. QED
      BY <1>6, <3>1
  <2>3. n \in G
    <3> HIDE DEF G
    <3>1. n \in 0..n
      BY <1>2
    <3> HIDE DEF n
    <3>2. QED
      BY <1>2, <2>1, <2>2, <3>1, HandedOn
  <2> HIDE DEF Good
  <2>4. QED
    BY <2>3
<1>8. Upto(n) = Range(seq)
  BY <1>2 DEF Range
<1>9. f[n] \in Seq(T) /\ Range(f[n]) = Upto(n) /\ IsInjective(f[n])
  BY <1>7
<1> HIDE DEF Good, Upto
<1>10. QED
  BY <1>1, <1>8, <1>9

------------------------------------------------------------------------------
(* The invariant *)

Derived(list) == \E p \in Plan, hide \in BOOLEAN : list = NextMoves(p, hide)

(* An answer's cards are those of a derived list, each once. *)
Listed(r) ==
  \E p \in Plan, hide \in BOOLEAN :
    /\ \A i, j \in DOMAIN r.cards : r.cards[i].id = r.cards[j].id => i = j
    /\ {[id |-> c.id, ev |-> c.ev] : c \in Range(r.cards)} = Range(NextMoves(p, hide))

(* Its prose is about them. *)
Fitting(r) ==
  /\ \A k \in DOMAIN r.cards : r.cards[k].note \in {None, r.cards[k].ev}
  /\ r.headline # None =>
       r.cards # <<>> /\ r.headline = [id |-> r.cards[1].id, ev |-> r.cards[1].ev]

Honest(r) == r \in Ranks /\ Listed(r) /\ Fitting(r)

(* The session's lists are derived, and an edit's answer names a plan. *)
AnswersDerived == \A k \in DOMAIN answers : Derived(answers[k].cards)
EditsNamePlans == \A k \in DOMAIN queue : queue[k].kind = "edit" => queue[k].hash \in Plan

(* The parked job has cards and the newest number. *)
ParkedSound == pending # None => /\ pending.id <= jobs /\ pending.job.cards # <<>>
                                 /\ Derived(pending.job.cards)

(* A ranking on its way: its job is the parked one if the numbers agree. *)
AskSound(a, parked, last) ==
  /\ a.stage = "model" => /\ a.id <= last
                          /\ parked # None /\ parked.id = a.id => a.job = parked.job
  /\ a.stage = "answered" => Honest(a.answer)

AsksSound == \A n \in DOMAIN asked : AskSound(asked[n], pending, jobs)
RankSound == rank # None => Honest(rank)

IInv == TypeOK /\ AnswersDerived /\ EditsNamePlans /\ ParkedSound /\ AsksSound /\ RankSound

------------------------------------------------------------------------------
(* The engine's lists *)

Distinct(list) == \A i, j \in DOMAIN list : list[i].id = list[j].id => i = j

(* What is kept of a list without doubles has none. *)
LEMMA KeptDistinct ==
  ASSUME NEW T, NEW list \in Seq(T), Distinct(list), NEW S
  PROVE  Distinct(Kept(list, S))
<1> DEFINE kept == Kept(list, S)
<1>1. kept \in Seq(T) /\ InOrder(kept, list)
  BY KeptIs
<1>2. DOMAIN kept = 1..Len(kept) /\ Len(kept) \in Nat
  BY <1>1
<1> HIDE DEF kept
<1>3. ASSUME NEW i \in DOMAIN kept, NEW j \in DOMAIN kept, i < j
      PROVE  kept[i].id # kept[j].id
  <2>1. PICK a, b \in DOMAIN list : a < b /\ kept[i] = list[a] /\ kept[j] = list[b]
    BY <1>1, <1>3 DEF InOrder
  <2>2. a # b
    BY <2>1
  <2>3. QED
    BY <2>1, <2>2 DEF Distinct
<1>4. \A i, j \in DOMAIN kept : i = j \/ i < j \/ j < i
  BY <1>2
<1>5. Distinct(kept)
  BY <1>3, <1>4 DEF Distinct
<1>6. QED
  BY <1>5 DEF kept

(* The engine's cards: entries that the plan has evidence for, each once. *)
LEMMA MovesAre ==
  ASSUME NEW p \in Plan, NEW hide
  PROVE  NextMoves(p, hide) \in Seq(Entry) /\ Distinct(NextMoves(p, hide))
<1> DEFINE shown == {c \in Card : Evidence[p][c] # None /\ ~(hide /\ c \in Trains)}
           cards == Kept(CardOrder, shown)
           moves == [k \in DOMAIN cards |-> [id |-> cards[k], ev |-> Evidence[p][cards[k]]]]
<1>1. NextMoves(p, hide) = moves
  BY DEF NextMoves
<1>2. CardOrder \in Seq(Card) /\ IsInjective(CardOrder)
  BY OrderAssumption
<1>3. cards \in Seq(Card) /\ InOrder(cards, CardOrder)
  BY <1>2, KeptIs
<1> HIDE DEF cards
<1>4. DOMAIN cards = 1..Len(cards) /\ Len(cards) \in Nat /\ \A k \in DOMAIN cards : cards[k] \in Card
  BY <1>3
<1>5. ASSUME NEW c \in Card
      PROVE  Evidence[p][c] \in Word
  BY PlanAssumption DEF Word, Range
<1>6. moves \in Seq(Entry)
  BY <1>4, <1>5 DEF Entry
<1>7. ASSUME NEW i \in DOMAIN cards, NEW j \in DOMAIN cards, i < j
      PROVE  cards[i] # cards[j]
  <2>1. PICK a, b \in DOMAIN CardOrder : a < b /\ cards[i] = CardOrder[a] /\ cards[j] = CardOrder[b]
    BY <1>3, <1>7 DEF InOrder
  <2>2. DOMAIN CardOrder = 1..Len(CardOrder) /\ Len(CardOrder) \in Nat
    BY <1>2
  <2>3. a # b
    BY <2>1, <2>2
  <2>4. QED
    BY <1>2, <2>1, <2>3 DEF IsInjective
<1>8. \A i, j \in DOMAIN cards : i = j \/ i < j \/ j < i
  BY <1>4
<1>9. \A i, j \in DOMAIN cards : cards[i] = cards[j] => i = j
  BY <1>7, <1>8
<1>10. DOMAIN moves = DOMAIN cards /\ \A k \in DOMAIN moves : moves[k].id = cards[k]
  OBVIOUS
<1> HIDE DEF moves
<1>11. Distinct(moves)
  BY <1>9, <1>10 DEF Distinct
<1>12. QED
  BY <1>1, <1>6, <1>11

(* So is every derived list. *)
LEMMA DerivedIs ==
  ASSUME NEW list, Derived(list)
  PROVE  list \in Seq(Entry) /\ Distinct(list)
BY MovesAre DEF Derived

(* What an entry has. *)
LEMMA EntryIs ==
  ASSUME NEW list \in Seq(Entry), NEW k \in DOMAIN list
  PROVE  /\ list[k].id \in Card /\ list[k].ev \in Word
         /\ list[k] = [id |-> list[k].id, ev |-> list[k].ev]
<1>1. list[k] \in Entry
  OBVIOUS
<1>2. QED
  BY <1>1 DEF Entry

(* In a list without doubles a card's evidence is found by its id. *)
LEMMA EvOfIs ==
  ASSUME NEW list \in Seq(Entry), Distinct(list), NEW k \in DOMAIN list
  PROVE  list[k].id \in Ids(list) /\ EvOf(list, list[k].id) = list[k].ev
<1> DEFINE c == list[k].id
           x == CHOOSE x \in Range(list) : x.id = c
<1>1. c \in Ids(list)
  BY DEF Ids
<1>2. list[k] \in Range(list) /\ list[k].id = c
  BY DEF Range
<1>3. x \in Range(list) /\ x.id = c
  BY <1>2
<1>4. PICK j \in DOMAIN list : x = list[j]
  BY <1>3 DEF Range
<1>5. j = k
  BY <1>3, <1>4 DEF Distinct
<1>6. EvOf(list, c) = x.ev
  BY <1>1 DEF EvOf
<1>7. QED
  BY <1>1, <1>4, <1>5, <1>6

(* What EvOf finds is evidence, or None. *)
LEMMA EvOfWord ==
  ASSUME NEW list \in Seq(Entry), NEW c
  PROVE  EvOf(list, c) \in Word
<1>1. CASE c \in Ids(list)
  <2>1. \E x \in Range(list) : x.id = c
    BY <1>1 DEF Ids, Range
  <2>2. PICK k \in DOMAIN list : (CHOOSE x \in Range(list) : x.id = c) = list[k]
    BY <2>1 DEF Range
  <2>3. list[k] \in Entry
    OBVIOUS
  <2>4. EvOf(list, c) = list[k].ev
    BY <1>1, <2>2 DEF EvOf
  <2>5. QED
    BY <2>3, <2>4 DEF Entry
<1>2. CASE c \notin Ids(list)
  BY <1>2 DEF EvOf, Word
<1>3. QED
  BY <1>1, <1>2

Shown == [id : Card, ev : Word, note : Word]

(* Cards that take each entry of a derived list once are listed. *)
LEMMA ListedIf ==
  ASSUME NEW r, NEW list, Derived(list), r.cards \in Seq(Shown), Distinct(r.cards),
         \A k \in DOMAIN r.cards : [id |-> r.cards[k].id, ev |-> r.cards[k].ev] \in Range(list),
         \A k \in DOMAIN list : \E j \in DOMAIN r.cards :
           r.cards[j].id = list[k].id /\ r.cards[j].ev = list[k].ev
  PROVE  Listed(r)
<1> DEFINE A == {[id |-> c.id, ev |-> c.ev] : c \in Range(r.cards)}
<1>1. list \in Seq(Entry)
  BY DerivedIs
<1>2. A \subseteq Range(list)
  BY DEF Range
<1>3. ASSUME NEW k \in DOMAIN list
      PROVE  list[k] \in A
  <2>1. PICK j \in DOMAIN r.cards : r.cards[j].id = list[k].id /\ r.cards[j].ev = list[k].ev
    OBVIOUS
  <2>2. list[k] = [id |-> list[k].id, ev |-> list[k].ev]
    BY <1>1, EntryIs
  <2>3. r.cards[j] \in Range(r.cards)
    BY DEF Range
  <2>4. QED
    BY <2>1, <2>2, <2>3
<1>4. Range(list) \subseteq A
  BY <1>3 DEF Range
<1>5. A = Range(list)
  BY <1>2, <1>4
<1> HIDE DEF A
<1>6. PICK p \in Plan, hide \in BOOLEAN : list = NextMoves(p, hide)
  BY DEF Derived
<1>7. QED
  BY <1>5, <1>6 DEF Listed, A, Distinct

------------------------------------------------------------------------------
(* Answers *)

(* The engine's own list, unranked. *)
LEMMA HeuristicHonest ==
  ASSUME NEW list, Derived(list)
  PROVE  Honest(Heuristic(list))
<1> DEFINE r == Heuristic(list)
           cards == [k \in DOMAIN list |-> [id |-> list[k].id, ev |-> list[k].ev, note |-> None]]
<1>1. list \in Seq(Entry) /\ Distinct(list)
  BY DerivedIs
<1>2. r = [engine |-> "heuristic", headline |-> None, wild |-> None, cards |-> cards]
  BY DEF Heuristic
<1>3. None \in Word
  BY DEF Word
<1>4. ASSUME NEW k \in DOMAIN list
      PROVE  /\ list[k] = [id |-> list[k].id, ev |-> list[k].ev]
             /\ list[k].id \in Card /\ list[k].ev \in Word
  BY <1>1, EntryIs
<1>5. DOMAIN cards = DOMAIN list /\ DOMAIN list = 1..Len(list) /\ Len(list) \in Nat
  BY <1>1
<1>6. \A k \in DOMAIN cards :
        /\ cards[k] = [id |-> list[k].id, ev |-> list[k].ev, note |-> None]
        /\ cards[k].id = list[k].id /\ cards[k].ev = list[k].ev /\ cards[k].note = None
  BY <1>5
<1> HIDE DEF cards
<1>7. cards \in Seq(Shown)
  <2>1. \A k \in DOMAIN cards : cards[k] \in Shown
    BY <1>3, <1>4, <1>5, <1>6 DEF Shown
  <2>2. cards \in [1..Len(list) -> Shown]
    BY <1>5, <2>1 DEF cards
  <2>3. QED
    BY <1>5, <2>2
<1>8. Distinct(cards)
  BY <1>1, <1>5, <1>6 DEF Distinct
<1>9. Listed(r)
  <2>1. r.cards = cards
    BY <1>2
  <2>2. \A k \in DOMAIN cards : [id |-> cards[k].id, ev |-> cards[k].ev] \in Range(list)
    BY <1>4, <1>5, <1>6 DEF Range
  <2>3. \A k \in DOMAIN list : \E j \in DOMAIN cards :
          cards[j].id = list[k].id /\ cards[j].ev = list[k].ev
    BY <1>5, <1>6
  <2> HIDE DEF r
  <2>4. QED
    BY <1>7, <1>8, <2>1, <2>2, <2>3, ListedIf
<1>10. Fitting(r)
  BY <1>2, <1>6 DEF Fitting
<1>11. r \in Ranks
  BY <1>2, <1>7 DEF Ranks, Shown
<1>12. QED
  BY <1>9, <1>10, <1>11 DEF Honest

(* The order the firewall arrives at: each known card, once. *)
LEMMA OrderIs ==
  ASSUME NEW list, Derived(list), NEW reply \in Reply, reply # None, NEW order,
         order = FirstOnly(Kept(reply.order, Ids(list)) \o [k \in DOMAIN list |-> list[k].id])
  PROVE  order \in Seq(Card) /\ Range(order) = Ids(list) /\ IsInjective(order)
<1> DEFINE ids == [k \in DOMAIN list |-> list[k].id]
           kept == Kept(reply.order, Ids(list))
           T == Range(reply.order) \cup Card
           both == kept \o ids
<1>1. list \in Seq(Entry) /\ DOMAIN list = 1..Len(list) /\ Len(list) \in Nat
  BY DerivedIs
<1>2. \A k \in DOMAIN list : list[k].id \in Card
  BY <1>1, EntryIs
<1>3. Ids(list) \subseteq Card
  BY <1>2 DEF Ids
<1>4. reply.order \in Seq(Range(reply.order))
  BY ReplyAssumption
<1>5. kept \in Seq(Range(reply.order)) /\ Range(kept) \subseteq Ids(list)
  BY <1>4, KeptIs
<1>6. ids \in Seq(Card) /\ Range(ids) = Ids(list)
  <2>1. ids \in [1..Len(list) -> Card]
    BY <1>1, <1>2
  <2>2. Range(ids) = Ids(list)
    BY DEF Range, Ids
  <2>3. QED
    BY <1>1, <2>1, <2>2
<1> HIDE DEF kept, ids
<1>7. kept \in Seq(T) /\ ids \in Seq(T)
  <2>1. \A i \in DOMAIN kept : kept[i] \in Range(reply.order)
    BY <1>5
  <2>2. \A i \in DOMAIN ids : ids[i] \in Card
    BY <1>6
  <2>3. /\ kept \in [1..Len(kept) -> T] /\ Len(kept) \in Nat
        /\ ids \in [1..Len(ids) -> T] /\ Len(ids) \in Nat
    BY <1>5, <1>6, <2>1, <2>2
  <2> HIDE DEF T
  <2>4. QED
    BY <2>3
<1> HIDE DEF T
<1>8. /\ both \in Seq(T) /\ DOMAIN both = 1..(Len(kept) + Len(ids))
      /\ Len(kept) \in Nat /\ Len(ids) \in Nat
      /\ DOMAIN kept = 1..Len(kept) /\ DOMAIN ids = 1..Len(ids)
      /\ \A i \in DOMAIN kept : both[i] = kept[i]
      /\ \A i \in DOMAIN ids : both[Len(kept) + i] = ids[i]
  BY <1>7
<1> HIDE DEF both
<1>9. Range(both) = Ids(list)
  <2>1. \A i \in DOMAIN both : \/ i \in DOMAIN kept
                               \/ i - Len(kept) \in DOMAIN ids /\ i = Len(kept) + (i - Len(kept))
    BY <1>8
  <2>2. \A i \in DOMAIN ids : Len(kept) + i \in DOMAIN both
    BY <1>8
  <2>3. \A i \in DOMAIN kept : both[i] \in Ids(list)
    BY <1>5, <1>8 DEF Range
  <2>4. \A i \in DOMAIN ids : both[Len(kept) + i] \in Ids(list)
    BY <1>6, <1>8 DEF Range
  <2>5. \A i \in DOMAIN both : both[i] \in Ids(list)
    BY <2>1, <2>3, <2>4
  <2>6. \A c \in Ids(list) : \E i \in DOMAIN ids : both[Len(kept) + i] = c
    BY <1>6, <1>8 DEF Range
  <2>7. \A c \in Ids(list) : \E i \in DOMAIN both : both[i] = c
    BY <2>2, <2>6
  <2>8. QED
    BY <2>5, <2>7 DEF Range
<1>10. order = FirstOnly(both)
  BY DEF both, kept, ids
<1>11. order \in Seq(T) /\ Range(order) = Ids(list) /\ IsInjective(order)
  BY <1>8, <1>9, <1>10, FirstOnlyIs
<1>12. order \in Seq(Card)
  <2>1. \A i \in DOMAIN order : order[i] \in Card
    BY <1>3, <1>11 DEF Range
  <2>2. order \in [1..Len(order) -> Card] /\ Len(order) \in Nat
    BY <1>11, <2>1
  <2>3. QED
    BY <2>2
<1>13. QED
  BY <1>11, <1>12

(* The firewall's list: the engine's cards, each once, notes where they fit. *)
LEMMA FirewallIs ==
  ASSUME NEW list, Derived(list), list # <<>>, NEW reply \in Reply, reply # None, NEW cards,
         cards = ApplyModelRanking(list, reply, list)
  PROVE  /\ cards \in Seq(Shown) /\ Distinct(cards) /\ cards # <<>>
         /\ \A k \in DOMAIN cards : /\ [id |-> cards[k].id, ev |-> cards[k].ev] \in Range(list)
                                    /\ cards[k].ev = EvOf(list, cards[k].id)
                                    /\ cards[k].note \in {None, cards[k].ev}
         /\ \A k \in DOMAIN list : \E j \in DOMAIN cards :
              cards[j].id = list[k].id /\ cards[j].ev = list[k].ev
<1> DEFINE order == FirstOnly(Kept(reply.order, Ids(list)) \o [k \in DOMAIN list |-> list[k].id])
<1>1. list \in Seq(Entry) /\ Distinct(list)
  BY DerivedIs
<1>2. order \in Seq(Card) /\ Range(order) = Ids(list) /\ IsInjective(order)
  BY OrderIs
<1>3. cards = [k \in DOMAIN order |->
                 [id |-> order[k], ev |-> EvOf(list, order[k]),
                  note |-> IF order[k] \in reply.notes THEN EvOf(list, order[k]) ELSE None]]
  BY DEF ApplyModelRanking
<1> HIDE DEF order
<1>4. DOMAIN order = 1..Len(order) /\ Len(order) \in Nat /\ \A k \in DOMAIN order : order[k] \in Card
  BY <1>2
<1>5. DOMAIN cards = DOMAIN order
  BY <1>3
<1>6. ASSUME NEW k \in DOMAIN cards
      PROVE  /\ cards[k].id = order[k] /\ cards[k].ev = EvOf(list, order[k])
             /\ cards[k].note \in {None, cards[k].ev} /\ cards[k] \in Shown
  <2>1. EvOf(list, order[k]) \in Word /\ None \in Word
    BY <1>1, EvOfWord DEF Word
  <2>2. order[k] \in Card
    BY <1>4, <1>5
  <2>3. cards[k] = [id |-> order[k], ev |-> EvOf(list, order[k]),
                    note |-> IF order[k] \in reply.notes THEN EvOf(list, order[k]) ELSE None]
    BY <1>3, <1>5
  <2>4. CASE order[k] \in reply.notes
    BY <2>1, <2>2, <2>3, <2>4 DEF Shown
  <2>5. CASE order[k] \notin reply.notes
    BY <2>1, <2>2, <2>3, <2>5 DEF Shown
  <2>6. QED
    BY <2>4, <2>5
<1>7. cards \in Seq(Shown)
  <2>1. cards \in [1..Len(order) -> Shown]
    BY <1>3, <1>4, <1>5, <1>6
  <2>2. QED
    BY <1>4, <2>1
<1>8. Distinct(cards)
  BY <1>2, <1>5, <1>6 DEF Distinct, IsInjective
<1>9. ASSUME NEW k \in DOMAIN cards
      PROVE  [id |-> cards[k].id, ev |-> cards[k].ev] \in Range(list)
  <2>1. order[k] \in Ids(list)
    BY <1>2, <1>5 DEF Range
  <2>2. PICK j \in DOMAIN list : list[j].id = order[k]
    BY <2>1 DEF Ids
  <2>3. cards[k].id = list[j].id /\ cards[k].ev = list[j].ev
    BY <1>1, <1>6, <2>2, EvOfIs
  <2>4. list[j] = [id |-> list[j].id, ev |-> list[j].ev]
    BY <1>1, EntryIs
  <2>5. QED
    BY <2>3, <2>4 DEF Range
<1>10. ASSUME NEW k \in DOMAIN list
       PROVE  \E j \in DOMAIN cards : cards[j].id = list[k].id /\ cards[j].ev = list[k].ev
  <2>1. list[k].id \in Ids(list) /\ EvOf(list, list[k].id) = list[k].ev
    BY <1>1, EvOfIs
  <2>2. PICK j \in DOMAIN order : order[j] = list[k].id
    BY <1>2, <2>1 DEF Range
  <2>3. QED
    BY <1>5, <1>6, <2>1, <2>2
<1>11. cards # <<>>
  <2>1. 1 \in DOMAIN list
    BY <1>1
  <2>2. \E j \in DOMAIN cards : TRUE
    BY <1>10, <2>1
  <2>3. QED
    BY <2>2
<1>12. QED
  BY <1>6, <1>7, <1>8, <1>9, <1>10, <1>11

(* The answer to a job whose model was shown the job's own cards. *)
LEMMA RankedHonest ==
  ASSUME NEW job, job.plan \in Plan, Derived(job.cards), job.cards # <<>>, NEW reply \in Reply
  PROVE  Honest(RankedResponse(job, reply, job.cards))
<1> DEFINE list == job.cards
           r == RankedResponse(job, reply, list)
           cards == ApplyModelRanking(list, reply, list)
           empty == (Range(reply.order) \cup reply.notes) \cap Ids(list) = {}
                      /\ ~reply.headline /\ ~reply.wild
<1>1. CASE reply = None \/ empty
  <2>1. r = Heuristic(list)
    BY <1>1 DEF RankedResponse
  <2>2. QED
    BY <2>1, HeuristicHonest
<1>2. CASE ~(reply = None \/ empty)
  <2> DEFINE top == IF reply.headline
                    THEN [id |-> cards[1].id, ev |-> EvOf(list, cards[1].id)] ELSE None
             wild == IF reply.wild THEN job.plan ELSE None
  <2>1. r = [engine |-> "model", cards |-> cards, headline |-> top, wild |-> wild]
    BY <1>2 DEF RankedResponse
  <2>2. /\ cards \in Seq(Shown) /\ Distinct(cards) /\ cards # <<>>
        /\ \A k \in DOMAIN cards : /\ [id |-> cards[k].id, ev |-> cards[k].ev] \in Range(list)
                                   /\ cards[k].ev = EvOf(list, cards[k].id)
                                   /\ cards[k].note \in {None, cards[k].ev}
        /\ \A k \in DOMAIN list : \E j \in DOMAIN cards :
             cards[j].id = list[k].id /\ cards[j].ev = list[k].ev
    BY <1>2, FirewallIs
  <2> HIDE DEF cards
  <2>3. 1 \in DOMAIN cards /\ cards[1] \in Shown
    BY <2>2
  <2>4. cards[1].ev = EvOf(list, cards[1].id) /\ cards[1].id \in Card /\ cards[1].ev \in Word
    BY <2>2, <2>3 DEF Shown
  <2>5. /\ top # None => top = [id |-> cards[1].id, ev |-> cards[1].ev]
        /\ top \in Entry \cup {None}
    <3>1. CASE reply.headline
      BY <2>4, <3>1 DEF Entry
    <3>2. CASE ~reply.headline
      BY <3>2
    <3>3. QED
      BY <3>1, <3>2
  <2>6. wild \in Plan \cup {None}
    OBVIOUS
  <2> HIDE DEF top, wild
  <2>7. r.cards = cards /\ r.headline = top
    BY <2>1
  <2>8. r \in Ranks
    BY <2>1, <2>2, <2>5, <2>6 DEF Ranks, Shown
  <2> HIDE DEF r
  <2>9. Fitting(r)
    BY <2>2, <2>5, <2>7 DEF Fitting
  <2>10. Listed(r)
    BY <2>2, <2>7, ListedIf
  <2>11. Honest(r)
    BY <2>8, <2>9, <2>10 DEF Honest
  <2>12. QED
    BY <2>11 DEF r
<1>3. QED
  BY <1>1, <1>2

(* Two lists joined, index by index. *)
LEMMA JoinIs ==
  ASSUME NEW T, NEW s \in Seq(T), NEW t \in Seq(T), NEW st, st = s \o t
  PROVE  /\ st \in Seq(T)
         /\ \A i \in DOMAIN s : i \in DOMAIN st /\ st[i] = s[i]
         /\ \A i \in DOMAIN t : Len(s) + i \in DOMAIN st /\ st[Len(s) + i] = t[i]
         /\ \A i \in DOMAIN st : i \notin DOMAIN s =>
              i - Len(s) \in DOMAIN t /\ i = Len(s) + (i - Len(s))
<1>1. /\ DOMAIN s = 1..Len(s) /\ DOMAIN t = 1..Len(t) /\ Len(s) \in Nat /\ Len(t) \in Nat
      /\ DOMAIN st = 1..(Len(s) + Len(t)) /\ st \in Seq(T)
  OBVIOUS
<1>2. \A i \in DOMAIN s : i \in DOMAIN st /\ st[i] = s[i]
  BY <1>1
<1>3. \A i \in DOMAIN t : Len(s) + i \in DOMAIN st /\ st[Len(s) + i] = t[i]
  BY <1>1
<1>4. ASSUME NEW i \in DOMAIN st, i \notin DOMAIN s
      PROVE  i - Len(s) \in DOMAIN t /\ i = Len(s) + (i - Len(s))
  BY <1>1, <1>4
<1>5. QED
  BY <1>1, <1>2, <1>3, <1>4

Still(prev, fresh) == Kept(prev.cards, {c \in Range(prev.cards) : c.id \in Ids(fresh)})

Folded(kept, fresh) ==
  [k \in DOMAIN kept |->
     LET ev == EvOf(fresh, kept[k].id)
     IN  [id |-> kept[k].id, ev |-> ev, note |-> IF ev = kept[k].ev THEN kept[k].note ELSE None]]

Added(prev, fresh) ==
  Heuristic(Kept(fresh, {c \in Range(fresh) : c.id \notin Ids(prev.cards)})).cards

(* The cards of the old ranking that are still there, with the new evidence. *)
LEMMA FoldIs ==
  ASSUME NEW prev, Honest(prev), NEW fresh, Derived(fresh), NEW fold,
         fold = Folded(Still(prev, fresh), fresh)
  PROVE  /\ fold \in Seq(Shown) /\ Distinct(fold)
         /\ \A k \in DOMAIN fold : /\ fold[k].id \in Ids(prev.cards)
                                   /\ [id |-> fold[k].id, ev |-> fold[k].ev] \in Range(fresh)
                                   /\ fold[k].note \in {None, fold[k].ev}
         /\ \A k \in DOMAIN fresh : fresh[k].id \in Ids(prev.cards) =>
              \E j \in DOMAIN fold : fold[j].id = fresh[k].id /\ fold[j].ev = fresh[k].ev
<1> DEFINE S == {c \in Range(prev.cards) : c.id \in Ids(fresh)}
           kept == Still(prev, fresh)
<1>1. prev.cards \in Seq(Shown) /\ Distinct(prev.cards)
      /\ \A k \in DOMAIN prev.cards : prev.cards[k].note \in {None, prev.cards[k].ev}
  BY DEF Honest, Listed, Fitting, Ranks, Shown, Distinct
<1>2. fresh \in Seq(Entry) /\ Distinct(fresh)
  BY DerivedIs
<1>3. kept \in Seq(Shown) /\ Range(kept) = Range(prev.cards) \cap S
  BY <1>1, KeptIs DEF Still
<1>4. Distinct(kept)
  BY <1>1, KeptDistinct DEF Still
<1> HIDE DEF kept
<1>5. /\ DOMAIN kept = 1..Len(kept) /\ Len(kept) \in Nat
      /\ DOMAIN fold = DOMAIN kept /\ fold = [k \in DOMAIN kept |-> fold[k]]
  BY <1>3 DEF Folded, kept
<1>6. ASSUME NEW k \in DOMAIN kept
      PROVE  /\ kept[k] \in Shown /\ kept[k].id \in Ids(prev.cards) /\ kept[k].id \in Ids(fresh)
             /\ kept[k].note \in {None, kept[k].ev}
  <2>1. kept[k] \in Range(kept)
    BY DEF Range
  <2>2. kept[k] \in Range(prev.cards) /\ kept[k].id \in Ids(fresh)
    BY <1>3, <2>1
  <2>3. PICK a \in DOMAIN prev.cards : kept[k] = prev.cards[a]
    BY <2>2 DEF Range
  <2>4. kept[k] \in Shown
    BY <1>3
  <2>5. QED
    BY <1>1, <2>2, <2>3, <2>4 DEF Ids
<1>7. ASSUME NEW k \in DOMAIN fold
      PROVE  /\ fold[k].id = kept[k].id /\ fold[k].ev = EvOf(fresh, kept[k].id)
             /\ fold[k].note \in {None, fold[k].ev} /\ fold[k] \in Shown
  <2> DEFINE ev == EvOf(fresh, kept[k].id)
             note == IF ev = kept[k].ev THEN kept[k].note ELSE None
  <2>1. fold[k] = [id |-> kept[k].id, ev |-> ev, note |-> note]
    BY <1>5 DEF Folded, kept
  <2>2. ev \in Word
    BY <1>2, EvOfWord
  <2>3. kept[k].id \in Card /\ kept[k].note \in {None, kept[k].ev}
    BY <1>5, <1>6 DEF Shown
  <2>4. note \in {None, ev} /\ None \in Word
    BY <2>3 DEF Word
  <2> HIDE DEF ev, note
  <2>5. QED
    BY <2>1, <2>2, <2>3, <2>4 DEF ev, Shown
<1>8. fold \in Seq(Shown)
  <2>1. fold \in [1..Len(kept) -> Shown]
    BY <1>5, <1>7
  <2>2. QED
    BY <1>5, <2>1
<1>9. Distinct(fold)
  BY <1>4, <1>5, <1>7 DEF Distinct
<1>10. ASSUME NEW k \in DOMAIN fold
       PROVE  [id |-> fold[k].id, ev |-> fold[k].ev] \in Range(fresh)
  <2>1. PICK j \in DOMAIN fresh : fresh[j].id = kept[k].id
    BY <1>5, <1>6 DEF Ids
  <2>2. fold[k].id = fresh[j].id /\ fold[k].ev = fresh[j].ev
    BY <1>2, <1>7, <2>1, EvOfIs
  <2>3. fresh[j] = [id |-> fresh[j].id, ev |-> fresh[j].ev]
    BY <1>2, EntryIs
  <2>4. QED
    BY <2>2, <2>3 DEF Range
<1>11. ASSUME NEW k \in DOMAIN fresh, fresh[k].id \in Ids(prev.cards)
       PROVE  \E j \in DOMAIN fold : fold[j].id = fresh[k].id /\ fold[j].ev = fresh[k].ev
  <2>1. PICK a \in DOMAIN prev.cards : prev.cards[a].id = fresh[k].id
    BY <1>11 DEF Ids
  <2>2. fresh[k].id \in Ids(fresh) /\ EvOf(fresh, fresh[k].id) = fresh[k].ev
    BY <1>2, EvOfIs
  <2>3. prev.cards[a] \in Range(prev.cards) \cap S
    BY <2>1, <2>2 DEF Range
  <2>4. PICK j \in DOMAIN kept : kept[j] = prev.cards[a]
    BY <1>3, <2>3 DEF Range
  <2>5. QED
    BY <1>5, <1>7, <2>1, <2>2, <2>4
<1>12. QED
  BY <1>5, <1>6, <1>7, <1>8, <1>9, <1>10, <1>11

(* The fresh cards that the old ranking did not have, un-noted. *)
LEMMA AddedIs ==
  ASSUME NEW prev, NEW fresh, Derived(fresh), NEW added,
         added = Added(prev, fresh)
  PROVE  /\ added \in Seq(Shown) /\ Distinct(added)
         /\ \A k \in DOMAIN added : /\ added[k].id \notin Ids(prev.cards)
                                    /\ [id |-> added[k].id, ev |-> added[k].ev] \in Range(fresh)
                                    /\ added[k].note = None
         /\ \A k \in DOMAIN fresh : fresh[k].id \notin Ids(prev.cards) =>
              \E j \in DOMAIN added : added[j].id = fresh[k].id /\ added[j].ev = fresh[k].ev
<1> DEFINE S == {c \in Range(fresh) : c.id \notin Ids(prev.cards)}
           new == Kept(fresh, S)
<1>1. fresh \in Seq(Entry) /\ Distinct(fresh)
  BY DerivedIs
<1>2. new \in Seq(Entry) /\ Range(new) = Range(fresh) \cap S
  BY <1>1, KeptIs
<1>3. Distinct(new)
  BY <1>1, KeptDistinct
<1>4. added = [k \in DOMAIN new |-> [id |-> new[k].id, ev |-> new[k].ev, note |-> None]]
  BY DEF Heuristic, Added
<1> HIDE DEF new
<1>5. /\ DOMAIN new = 1..Len(new) /\ Len(new) \in Nat
      /\ DOMAIN added = DOMAIN new /\ added = [k \in DOMAIN new |-> added[k]]
  BY <1>2, <1>4
<1>6. \A k \in DOMAIN added :
        /\ added[k] = [id |-> new[k].id, ev |-> new[k].ev, note |-> None]
        /\ added[k].id = new[k].id /\ added[k].ev = new[k].ev /\ added[k].note = None
  BY <1>4, <1>5
<1>7. ASSUME NEW k \in DOMAIN new
      PROVE  /\ new[k].id \in Card /\ new[k].ev \in Word /\ new[k].id \notin Ids(prev.cards)
             /\ [id |-> new[k].id, ev |-> new[k].ev] \in Range(fresh)
  <2>1. new[k] \in Range(new)
    BY DEF Range
  <2>2. new[k] \in Range(fresh) /\ new[k].id \notin Ids(prev.cards)
    BY <1>2, <2>1
  <2>3. QED
    BY <1>2, <2>2, EntryIs
<1>8. added \in Seq(Shown)
  <2>1. None \in Word
    BY DEF Word
  <2>2. ASSUME NEW k \in DOMAIN added
        PROVE  added[k] \in Shown
    <3>1. new[k].id \in Card /\ new[k].ev \in Word
      BY <1>5, <1>7
    <3>2. added[k] = [id |-> new[k].id, ev |-> new[k].ev, note |-> None]
      BY <1>6
    <3>3. QED
      BY <2>1, <3>1, <3>2 DEF Shown
  <2>3. added \in [1..Len(new) -> Shown]
    BY <1>5, <2>2
  <2>4. QED
    BY <1>5, <2>3
<1>9. Distinct(added)
  <2>1. DOMAIN added = DOMAIN new /\ \A k \in DOMAIN added : added[k].id = new[k].id
    BY <1>5, <1>6
  <2>2. \A i, j \in DOMAIN new : new[i].id = new[j].id => i = j
    BY <1>3 DEF Distinct
  <2>3. QED
    BY ONLY <2>1, <2>2 DEF Distinct
<1>10. ASSUME NEW k \in DOMAIN fresh, fresh[k].id \notin Ids(prev.cards)
       PROVE  \E j \in DOMAIN added : added[j].id = fresh[k].id /\ added[j].ev = fresh[k].ev
  <2>1. fresh[k] \in Range(fresh) \cap S
    BY <1>10 DEF Range
  <2>2. PICK j \in DOMAIN new : new[j] = fresh[k]
    BY <1>2, <2>1 DEF Range
  <2>3. QED
    BY <1>5, <1>6, <2>2
<1>11. QED
  BY <1>5, <1>6, <1>7, <1>8, <1>9, <1>10

(* A merge is honest when what it merges is. *)
LEMMA MergeHonest ==
  ASSUME NEW prev, prev # None => Honest(prev), NEW fresh, Derived(fresh)
  PROVE  Honest(MergeRank(prev, fresh))
<1> DEFINE r == MergeRank(prev, fresh)
<1>1. CASE prev = None \/ prev.engine # "model"
  <2>1. r = Heuristic(fresh)
    BY <1>1 DEF MergeRank
  <2>2. QED
    BY <2>1, HeuristicHonest
<1>2. CASE ~(prev = None \/ prev.engine # "model")
  <2> DEFINE fold == Folded(Still(prev, fresh), fresh)
             added == Added(prev, fresh)
             cards == fold \o added
             top == /\ cards # <<>> /\ prev.cards # <<>>
                    /\ cards[1].id = prev.cards[1].id /\ cards[1].ev = prev.cards[1].ev
             headline == IF top THEN prev.headline ELSE None
  <2>1. r = [engine |-> prev.engine, wild |-> None, cards |-> cards, headline |-> headline]
    BY <1>2 DEF MergeRank, Folded, Still, Added
  <2>2. Honest(prev)
    BY <1>2
  <2>a. fold = Folded(Still(prev, fresh), fresh) /\ added = Added(prev, fresh) /\ cards = fold \o added
    OBVIOUS
  <2> HIDE DEF fold, added, cards
  <2>3. /\ fold \in Seq(Shown) /\ Distinct(fold)
        /\ \A k \in DOMAIN fold : /\ fold[k].id \in Ids(prev.cards)
                                  /\ [id |-> fold[k].id, ev |-> fold[k].ev] \in Range(fresh)
                                  /\ fold[k].note \in {None, fold[k].ev}
        /\ \A k \in DOMAIN fresh : fresh[k].id \in Ids(prev.cards) =>
             \E j \in DOMAIN fold : fold[j].id = fresh[k].id /\ fold[j].ev = fresh[k].ev
    BY <2>2, <2>a, FoldIs
  <2>4. /\ added \in Seq(Shown) /\ Distinct(added)
        /\ \A k \in DOMAIN added : /\ added[k].id \notin Ids(prev.cards)
                                   /\ [id |-> added[k].id, ev |-> added[k].ev] \in Range(fresh)
                                   /\ added[k].note = None
        /\ \A k \in DOMAIN fresh : fresh[k].id \notin Ids(prev.cards) =>
             \E j \in DOMAIN added : added[j].id = fresh[k].id /\ added[j].ev = fresh[k].ev
    BY <2>a, AddedIs
  <2>5. /\ cards \in Seq(Shown)
        /\ \A i \in DOMAIN fold : i \in DOMAIN cards /\ cards[i] = fold[i]
        /\ \A i \in DOMAIN added : Len(fold) + i \in DOMAIN cards /\ cards[Len(fold) + i] = added[i]
        /\ \A i \in DOMAIN cards : i \in DOMAIN fold \/ \E j \in DOMAIN added : i = Len(fold) + j
    <3>1. fold \in Seq(Shown) /\ added \in Seq(Shown) /\ cards = fold \o added
      BY <2>3, <2>4, <2>a
    <3>2. \A i \in DOMAIN cards : i \notin DOMAIN fold =>
            i - Len(fold) \in DOMAIN added /\ i = Len(fold) + (i - Len(fold))
      BY <3>1, JoinIs
    <3>3. \A i \in DOMAIN cards : i \in DOMAIN fold \/ \E j \in DOMAIN added : i = Len(fold) + j
      BY <3>2
    <3>4. QED
      BY <3>1, <3>3, JoinIs
  <2>6. ASSUME NEW i \in DOMAIN cards
        PROVE  \/ \E a \in DOMAIN fold : i = a /\ cards[i] = fold[a]
               \/ \E b \in DOMAIN added : i = Len(fold) + b /\ cards[i] = added[b]
    BY <2>5
  <2>7. ASSUME NEW i \in DOMAIN cards
        PROVE  /\ [id |-> cards[i].id, ev |-> cards[i].ev] \in Range(fresh)
               /\ cards[i].note \in {None, cards[i].ev}
    BY <2>3, <2>4, <2>6
  <2>8. Distinct(cards)
    <3>1. SUFFICES ASSUME NEW i \in DOMAIN cards, NEW j \in DOMAIN cards,
                          cards[i].id = cards[j].id
                   PROVE  i = j
      BY DEF Distinct
    <3>2. CASE \E a \in DOMAIN fold : i = a /\ cards[i] = fold[a]
      <4>1. ~ \E b \in DOMAIN added : j = Len(fold) + b /\ cards[j] = added[b]
        BY <2>3, <2>4, <3>1, <3>2
      <4>2. PICK a \in DOMAIN fold : j = a /\ cards[j] = fold[a]
        BY <2>6, <4>1
      <4>3. QED
        BY <2>3, <3>1, <3>2, <4>2 DEF Distinct
    <3>3. CASE \E b \in DOMAIN added : i = Len(fold) + b /\ cards[i] = added[b]
      <4>1. ~ \E a \in DOMAIN fold : j = a /\ cards[j] = fold[a]
        BY <2>3, <2>4, <3>1, <3>3
      <4>2. PICK b \in DOMAIN added : j = Len(fold) + b /\ cards[j] = added[b]
        BY <2>6, <4>1
      <4>3. PICK c \in DOMAIN added : i = Len(fold) + c /\ cards[i] = added[c]
        BY <3>3
      <4>4. b = c
        BY <2>4, <3>1, <4>2, <4>3 DEF Distinct
      <4>5. QED
        BY <4>2, <4>3, <4>4
    <3>4. QED
      BY <2>6, <3>2, <3>3
  <2>9. ASSUME NEW k \in DOMAIN fresh
        PROVE  \E j \in DOMAIN cards : cards[j].id = fresh[k].id /\ cards[j].ev = fresh[k].ev
    <3>1. CASE fresh[k].id \in Ids(prev.cards)
      BY <2>3, <2>5, <3>1
    <3>2. CASE fresh[k].id \notin Ids(prev.cards)
      <4>1. PICK j \in DOMAIN added : added[j].id = fresh[k].id /\ added[j].ev = fresh[k].ev
        BY <2>4, <3>2
      <4>2. QED
        BY <2>5, <4>1
    <3>3. QED
      BY <3>1, <3>2
  <2>10. /\ prev \in Ranks
         /\ prev.headline # None =>
              prev.headline = [id |-> prev.cards[1].id, ev |-> prev.cards[1].ev]
    BY <2>2 DEF Honest, Fitting
  <2>11. /\ headline \in Entry \cup {None}
         /\ headline # None =>
              cards # <<>> /\ headline = [id |-> cards[1].id, ev |-> cards[1].ev]
    <3>1. prev.headline \in Entry \cup {None}
      BY <2>10 DEF Ranks
    <3>2. CASE top
      BY <2>10, <3>1, <3>2
    <3>3. CASE ~top
      BY <3>3
    <3>4. QED
      BY <3>2, <3>3
  <2> HIDE DEF headline, top
  <2>12. r.cards = cards /\ r.headline = headline
    BY <2>1
  <2>13. prev.engine \in {"heuristic", "model"}
    BY <2>10 DEF Ranks
  <2>14. r \in Ranks
    BY <2>1, <2>5, <2>11, <2>13 DEF Ranks, Shown
  <2> HIDE DEF r
  <2>15. Fitting(r)
    BY <2>7, <2>11, <2>12 DEF Fitting
  <2>16. Listed(r)
    BY <2>5, <2>7, <2>8, <2>9, <2>12, ListedIf
  <2>17. Honest(r)
    BY <2>14, <2>15, <2>16 DEF Honest
  <2>18. QED
    BY <2>17 DEF r
<1>3. QED
  BY <1>1, <1>2

------------------------------------------------------------------------------
(* Steps *)

(* A list with one member taken out. *)
LEMMA RemoveIs ==
  ASSUME NEW T, NEW s \in Seq(T), NEW n \in DOMAIN s
  PROVE  /\ RemoveAt(s, n) \in Seq(T)
         /\ \A i \in DOMAIN RemoveAt(s, n) : \E j \in DOMAIN s : RemoveAt(s, n)[i] = s[j]
<1> DEFINE a == SubSeq(s, 1, n - 1)
           b == SubSeq(s, n + 1, Len(s))
<1>1. n \in 1..Len(s) /\ Len(s) \in Nat
  OBVIOUS
<1>2. /\ a \in Seq(T) /\ Len(a) = n - 1 /\ \A i \in 1..(n - 1) : a[i] = s[i]
  BY <1>1
<1>3. /\ b \in Seq(T) /\ Len(b) = Len(s) - n /\ \A i \in 1..(Len(s) - n) : b[i] = s[n + i]
  BY <1>1
<1>4. RemoveAt(s, n) = a \o b
  BY DEF RemoveAt
<1> DEFINE c == a \o b
<1> HIDE DEF a, b
<1>5. /\ c \in Seq(T) /\ DOMAIN c = 1..(Len(s) - 1)
      /\ \A i \in 1..(n - 1) : c[i] = s[i]
      /\ \A i \in 1..(Len(s) - n) : c[(n - 1) + i] = s[n + i]
  <2> DEFINE p == n - 1
             q == Len(s) - n
  <2>1. p \in Nat /\ q \in Nat /\ p + q = Len(s) - 1
    BY <1>1
  <2>2. /\ a \in Seq(T) /\ Len(a) = p /\ \A i \in 1..p : a[i] = s[i]
        /\ b \in Seq(T) /\ Len(b) = q /\ \A i \in 1..q : b[i] = s[n + i]
    BY <1>2, <1>3
  <2> HIDE DEF p, q
  <2>3. c \in Seq(T) /\ DOMAIN c = 1..(p + q)
    BY <2>1, <2>2
  <2>4. \A i \in 1..p : c[i] = s[i]
    BY <2>1, <2>2
  <2>5. ASSUME NEW i \in 1..q
        PROVE  c[p + i] = s[n + i]
    <3>1. p + i \in 1..(p + q) /\ ~(p + i <= p) /\ (p + i) - p = i
      BY <2>1
    <3>2. c[p + i] = b[(p + i) - p]
      BY <2>2, <3>1 DEF c
    <3>3. QED
      BY <2>2, <3>1, <3>2
  <2>6. QED
    BY <2>1, <2>3, <2>4, <2>5 DEF p, q
<1> HIDE DEF c
<1>6. ASSUME NEW i \in DOMAIN c
      PROVE  \E j \in DOMAIN s : c[i] = s[j]
  <2>1. CASE i \in 1..(n - 1)
    <3>1. i \in DOMAIN s
      BY <1>1, <2>1
    <3>2. QED
      BY <1>5, <2>1, <3>1
  <2>2. CASE i \notin 1..(n - 1)
    <3> DEFINE k == i - (n - 1)
    <3>1. i \in 1..(Len(s) - 1) /\ i > n - 1 /\ n \in Nat
      BY <1>1, <1>5, <2>2
    <3>2. k \in 1..(Len(s) - n) /\ (n - 1) + k = i /\ n + k \in 1..Len(s)
      BY <1>1, <3>1
    <3>3. n + k \in DOMAIN s
      BY <3>2
    <3> HIDE DEF k
    <3>4. c[i] = s[n + k]
      BY <1>5, <3>2
    <3>5. QED
      BY <3>3, <3>4
  <2>3. QED
    BY <2>1, <2>2
<1>7. QED
  BY <1>4, <1>5, <1>6 DEF c

(* At the head of a non-empty list is a member; the others follow. *)
LEMMA TailIs ==
  ASSUME NEW T, NEW s \in Seq(T), s # <<>>
  PROVE  /\ 1 \in DOMAIN s /\ Head(s) = s[1] /\ Head(s) \in T
         /\ Tail(s) \in Seq(T)
         /\ \A i \in DOMAIN Tail(s) : i + 1 \in DOMAIN s /\ Tail(s)[i] = s[i + 1]
OBVIOUS

(* A list with one member more. *)
LEMMA AppendIs ==
  ASSUME NEW T, NEW s \in Seq(T), NEW x \in T
  PROVE  /\ Append(s, x) \in Seq(T)
         /\ \A i \in DOMAIN Append(s, x) :
              (i \in DOMAIN s /\ Append(s, x)[i] = s[i]) \/ Append(s, x)[i] = x
<1>1. \A i \in DOMAIN Append(s, x) : i \in DOMAIN s \/ i = Len(s) + 1
  OBVIOUS
<1>2. QED
  BY <1>1

(* A call joins the queue; it names its plan if it is an edit. *)
LEMMA AskKeeps ==
  ASSUME queue \in Seq(Requests), EditsNamePlans, NEW call \in Requests,
         call.kind = "edit" => call.hash \in Plan, Ask(call)
  PROVE  queue' \in Seq(Requests) /\ EditsNamePlans'
<1>1. queue' = Append(queue, call)
  BY DEF Ask
<1>2. /\ queue' \in Seq(Requests)
      /\ \A i \in DOMAIN queue' : (i \in DOMAIN queue /\ queue'[i] = queue[i]) \/ queue'[i] = call
  BY <1>1, AppendIs
<1>3. QED
  BY <1>2 DEF EditsNamePlans

(* A ranking that is asked for claims nothing yet. *)
LEMMA OpenKeeps ==
  ASSUME TypeOK, AsksSound, OpenRankFeed, UNCHANGED <<pending, jobs>>
  PROVE  /\ asked' \in Seq(Asks) /\ AsksSound'
         /\ rankSeq' \in Nat /\ rankedKey' \in (Plan \X Nat) \cup {None}
<1>1. CASE rankedKey = <<planHash, epoch>>
  BY <1>1 DEF TypeOK, OpenRankFeed, AsksSound
<1>2. CASE rankedKey # <<planHash, epoch>>
  <2> DEFINE a == [seq |-> rankSeq + 1, start |-> planHash, stage |-> "asked",
                   id |-> 0, job |-> None, answer |-> None]
  <2>1. /\ rankedKey' = <<planHash, epoch>> /\ rankSeq' = rankSeq + 1
        /\ asked' = Append(asked, a)
    BY <1>2 DEF OpenRankFeed
  <2>2. rankSeq + 1 \in Nat /\ planHash \in Plan /\ epoch \in Nat /\ asked \in Seq(Asks)
    BY DEF TypeOK
  <2>3. a \in Asks
    BY <2>2 DEF Asks
  <2>4. a.stage = "asked"
    OBVIOUS
  <2> HIDE DEF a
  <2>5. /\ asked' \in Seq(Asks)
        /\ \A i \in DOMAIN asked' : (i \in DOMAIN asked /\ asked'[i] = asked[i]) \/ asked'[i] = a
    BY <2>1, <2>2, <2>3, AppendIs
  <2>6. AsksSound'
    BY <2>4, <2>5 DEF AsksSound, AskSound
  <2>7. QED
    BY <2>1, <2>2, <2>5, <2>6
<1>3. QED
  BY <1>1, <1>2

(* A merge is a call like others. *)
LEMMA MergeKeeps ==
  ASSUME TypeOK, EditsNamePlans, NEW shown, NEW merged, MergeOnEdit(shown, merged)
  PROVE  queue' \in Seq(Requests) /\ EditsNamePlans' /\ rankSeq' \in Nat
<1>1. CASE planHash = merged \/ shown = None
  BY <1>1 DEF TypeOK, MergeOnEdit, EditsNamePlans
<1>2. CASE ~(planHash = merged \/ shown = None)
  <2> DEFINE call == Request("merge", planHash, rankSeq + 1, FALSE)
  <2>1. rankSeq' = rankSeq + 1 /\ Ask(call)
    BY <1>2 DEF MergeOnEdit
  <2>2. rankSeq + 1 \in Nat /\ planHash \in Plan /\ queue \in Seq(Requests)
    BY DEF TypeOK
  <2>3. call \in Requests /\ call.kind = "merge"
    BY <2>2 DEF Request, Requests, Calls
  <2> HIDE DEF call
  <2>4. QED
    BY <2>1, <2>2, <2>3, AskKeeps
<1>3. QED
  BY <1>1, <1>2

(* The answer at the head, and those behind it. *)
LEMMA AnsweredKeeps ==
  ASSUME TypeOK, AnswersDerived, NEW kind, Answered(kind)
  PROVE  /\ Answer \in Answers /\ Derived(Answer.cards)
         /\ answers' \in Seq(Answers) /\ AnswersDerived'
<1>1. answers \in Seq(Answers) /\ answers # <<>> /\ answers' = Tail(answers)
  BY DEF TypeOK, Answered
<1>2. /\ 1 \in DOMAIN answers /\ Answer = answers[1] /\ Answer \in Answers /\ answers' \in Seq(Answers)
      /\ \A i \in DOMAIN answers' : i + 1 \in DOMAIN answers /\ answers'[i] = answers[i + 1]
  BY <1>1, TailIs DEF Answer
<1>3. QED
  BY <1>2 DEF AnswersDerived

(* One ranking moves on; what it becomes is sound. *)
LEMMA AskMoves ==
  ASSUME asked \in Seq(Asks), NEW n \in DOMAIN asked, NEW a \in Asks, NEW parked, NEW last,
         asked' = [asked EXCEPT ![n] = a], AskSound(a, parked, last),
         \A i \in DOMAIN asked : i # n => AskSound(asked[i], parked, last)
  PROVE  /\ asked' \in Seq(Asks)
         /\ \A i \in DOMAIN asked' : AskSound(asked'[i], parked, last)
<1>1. asked' \in Seq(Asks) /\ DOMAIN asked' = DOMAIN asked
  OBVIOUS
<1>2. \A i \in DOMAIN asked : asked'[i] = IF i = n THEN a ELSE asked[i]
  OBVIOUS
<1>3. QED
  BY <1>1, <1>2

(* Every session starts with nothing to be honest about. *)
LEMMA InitSound ==
  Init => IInv
<1>1. SUFFICES ASSUME Init PROVE IInv
  OBVIOUS
<1>2. TypeOK
  <2>1. <<>> \in Seq(Requests) /\ <<>> \in Seq(Answers) /\ <<>> \in Seq(Asks)
    OBVIOUS
  <2>2. queue = <<>> /\ answers = <<>> /\ asked = <<>>
    BY <1>1 DEF Init
  <2>3. plan \in Plan /\ planHash \in Plan
    BY <1>1, PlanAssumption DEF Init
  <2>4. /\ noTrains \in BOOLEAN /\ engine \in {"provider", "browser"}
        /\ epoch \in Nat /\ jobs \in Nat /\ rankSeq \in Nat /\ mounted \in Nat /\ spent \in Nat
        /\ open \subseteq Surface /\ due \subseteq {"merge", "rank"}
        /\ pending = None /\ rank = None /\ rankedKey = None /\ lastMerged = None
    BY <1>1 DEF Init
  <2>5. QED
    BY <2>1, <2>2, <2>3, <2>4 DEF TypeOK
<1>3. DOMAIN answers = {} /\ DOMAIN queue = {} /\ DOMAIN asked = {}
  BY <1>1 DEF Init
<1>4. pending = None /\ rank = None
  BY <1>1 DEF Init
<1>5. QED
  BY <1>2, <1>3, <1>4
     DEF IInv, AnswersDerived, EditsNamePlans, ParkedSound, AsksSound, RankSound

(* What the user asks for, and a feed that is opened or closed. *)
LEMMA UserSound ==
  ASSUME IInv, User
  PROVE  IInv'
<1>1. TypeOK /\ AnswersDerived /\ EditsNamePlans /\ ParkedSound /\ AsksSound /\ RankSound
  BY DEF IInv
<1>2. queue \in Seq(Requests)
  BY <1>1 DEF TypeOK
<1>3. ASSUME NEW call \in Requests, call.kind = "edit" => call.hash \in Plan, Ask(call),
             spent' = spent + 1,
             UNCHANGED <<session, answers, rank, planHash, epoch, open, due, guards, asked>>
      PROVE  IInv'
  <2>1. queue' \in Seq(Requests) /\ EditsNamePlans'
    BY <1>1, <1>2, <1>3, AskKeeps
  <2>2. TypeOK'
    BY <1>1, <1>3, <2>1 DEF TypeOK, session, guards
  <2>3. AnswersDerived' /\ ParkedSound' /\ AsksSound' /\ RankSound'
    BY <1>1, <1>3 DEF session, AnswersDerived, ParkedSound, AsksSound, RankSound
  <2>4. QED
    BY <2>1, <2>2, <2>3 DEF IInv
<1>4. ASSUME NEW h \in Edited, Edit(h)
      PROVE  IInv'
  <2> DEFINE call == Request("edit", h, 0, FALSE)
  <2>1. call \in Requests /\ call.hash \in Plan
    BY PlanAssumption DEF Request, Requests, Calls
  <2>2. /\ Ask(call) /\ spent' = spent + 1
        /\ UNCHANGED <<session, answers, rank, planHash, epoch, open, due, guards, asked>>
    BY <1>4 DEF Edit
  <2> HIDE DEF call
  <2>3. QED
    BY <1>3, <2>1, <2>2
<1>5. ASSUME NEW hide \in BOOLEAN, SetPreferences(hide)
      PROVE  IInv'
  <2> DEFINE call == Request("prefs", None, 0, hide)
  <2>1. call \in Requests /\ call.kind = "prefs"
    BY DEF Request, Requests, Calls
  <2>2. /\ Ask(call) /\ spent' = spent + 1
        /\ UNCHANGED <<session, answers, rank, planHash, epoch, open, due, guards, asked>>
    BY <1>5 DEF SetPreferences
  <2> HIDE DEF call
  <2>3. QED
    BY <1>3, <2>1, <2>2
<1>6. CASE NewEmpire
  <2> DEFINE call == Request("wipe", Fresh, 0, FALSE)
  <2>1. call \in Requests /\ call.kind = "wipe"
    BY PlanAssumption DEF Request, Requests, Calls
  <2>2. /\ Ask(call) /\ spent' = spent + 1
        /\ UNCHANGED <<session, answers, rank, planHash, epoch, open, due, guards, asked>>
    BY <1>6 DEF NewEmpire
  <2> HIDE DEF call
  <2>3. QED
    BY <1>3, <2>1, <2>2
<1>7. ASSUME NEW s \in Surface, RegisterFeed(s)
      PROVE  IInv'
  <2>1. /\ OpenRankFeed /\ open' = open \cup {s} /\ mounted' = mounted + 1 /\ spent' = spent + 1
        /\ UNCHANGED <<session, queue, answers, rank, planHash, epoch, due, lastMerged>>
    BY <1>7 DEF RegisterFeed
  <2>2. UNCHANGED <<pending, jobs>>
    BY <2>1 DEF session
  <2>3. /\ asked' \in Seq(Asks) /\ AsksSound'
        /\ rankSeq' \in Nat /\ rankedKey' \in (Plan \X Nat) \cup {None}
    BY <1>1, <2>1, <2>2, OpenKeeps
  <2>4. TypeOK'
    BY <1>1, <2>1, <2>3 DEF TypeOK, session
  <2>5. AnswersDerived' /\ EditsNamePlans' /\ ParkedSound' /\ RankSound'
    BY <1>1, <2>1 DEF session, AnswersDerived, EditsNamePlans, ParkedSound, RankSound
  <2>6. QED
    BY <2>3, <2>4, <2>5 DEF IInv
<1>8. ASSUME NEW s \in Surface, UnregisterFeed(s)
      PROVE  IInv'
  <2>1. /\ open' = open \ {s} /\ due' \in {due, due \ {"rank"}}
        /\ mounted' \in {0, mounted - 1} /\ (mounted <= 1 => mounted' = 0)
        /\ rankedKey' \in {None, rankedKey}
        /\ UNCHANGED <<session, queue, answers, rank, planHash, epoch, rankSeq, lastMerged, asked, spent>>
    BY <1>8 DEF UnregisterFeed
  <2>2. TypeOK'
    <3>1. mounted' \in Nat
      BY <1>1, <2>1 DEF TypeOK
    <3>2. open' \subseteq Surface /\ due' \subseteq {"merge", "rank"}
          /\ rankedKey' \in (Plan \X Nat) \cup {None}
      BY <1>1, <2>1 DEF TypeOK
    <3>3. QED
      BY <1>1, <2>1, <3>1, <3>2 DEF TypeOK, session
  <2>3. AnswersDerived' /\ EditsNamePlans' /\ ParkedSound' /\ AsksSound' /\ RankSound'
    BY <1>1, <2>1 DEF session, AnswersDerived, EditsNamePlans, ParkedSound, AsksSound, RankSound
  <2>4. QED
    BY <2>2, <2>3 DEF IInv
<1>9. QED
  BY <1>4, <1>5, <1>6, <1>7, <1>8 DEF User

(* The session answers with a derived list of the plan it is left with. *)
LEMMA ServeSound ==
  ASSUME IInv, Serve
  PROVE  IInv'
<1>1. TypeOK /\ AnswersDerived /\ EditsNamePlans /\ ParkedSound /\ AsksSound /\ RankSound
  BY DEF IInv
<1> DEFINE call == Head(queue)
           p == CASE call.kind = "edit" -> call.hash [] call.kind = "wipe" -> Fresh [] OTHER -> plan
           t == IF call.kind = "prefs" THEN call.hide ELSE noTrains
           a == [kind |-> call.kind, seq |-> call.seq, asked |-> call.hash,
                 hash |-> p, cards |-> NextMoves(p, t)]
<1>2. /\ queue # <<>> /\ queue' = Tail(queue) /\ plan' = p /\ noTrains' = t
      /\ answers' = Append(answers, a)
      /\ UNCHANGED <<engine, pending, jobs, rank, planHash, epoch, open, due, guards, asked, spent>>
  BY DEF Serve
<1>3. queue \in Seq(Requests) /\ answers \in Seq(Answers) /\ plan \in Plan /\ noTrains \in BOOLEAN
  BY <1>1 DEF TypeOK
<1>4. /\ 1 \in DOMAIN queue /\ call = queue[1] /\ call \in Requests /\ queue' \in Seq(Requests)
      /\ \A i \in DOMAIN queue' : i + 1 \in DOMAIN queue /\ queue'[i] = queue[i + 1]
  BY <1>2, <1>3, TailIs
<1>5. EditsNamePlans'
  BY <1>1, <1>4 DEF EditsNamePlans
<1> HIDE DEF call
<1>6. /\ call.kind \in Calls /\ call.seq \in Nat /\ call.hash \in Plan \cup {None}
      /\ call.hide \in BOOLEAN
  BY <1>4 DEF Requests
<1>7. p \in Plan
  <2>1. CASE call.kind = "edit"
    BY <1>1, <1>4, <2>1 DEF EditsNamePlans
  <2>2. CASE call.kind = "wipe"
    BY <2>2, PlanAssumption
  <2>3. CASE call.kind # "edit" /\ call.kind # "wipe"
    BY <1>3, <2>3
  <2>4. QED
    BY <2>1, <2>2, <2>3
<1>8. t \in BOOLEAN
  BY <1>3, <1>6
<1> HIDE DEF p, t
<1>9. NextMoves(p, t) \in Seq(Entry) /\ Derived(NextMoves(p, t))
  BY <1>7, <1>8, MovesAre DEF Derived
<1>10. a \in Answers /\ a.cards = NextMoves(p, t)
  BY <1>6, <1>7, <1>9 DEF Answers
<1> HIDE DEF a
<1>11. /\ answers' \in Seq(Answers)
       /\ \A i \in DOMAIN answers' : (i \in DOMAIN answers /\ answers'[i] = answers[i]) \/ answers'[i] = a
  BY <1>2, <1>3, <1>10, AppendIs
<1>12. AnswersDerived'
  BY <1>1, <1>9, <1>10, <1>11 DEF AnswersDerived
<1>13. TypeOK'
  BY <1>1, <1>2, <1>4, <1>7, <1>8, <1>11 DEF TypeOK, guards
<1>14. ParkedSound' /\ AsksSound' /\ RankSound'
  BY <1>1, <1>2 DEF ParkedSound, AsksSound, RankSound
<1>15. QED
  BY <1>5, <1>12, <1>13, <1>14 DEF IInv

(* The renderer takes what the session answered. *)
LEMMA DeliverSound ==
  ASSUME IInv, Deliver
  PROVE  IInv'
<1>1. TypeOK /\ AnswersDerived /\ EditsNamePlans /\ ParkedSound /\ AsksSound /\ RankSound
  BY DEF IInv
<1>2. ASSUME NEW kind, Answered(kind)
      PROVE  /\ Answer.hash \in Plan /\ Answer.asked \in Plan \cup {None} /\ Derived(Answer.cards)
             /\ answers' \in Seq(Answers) /\ AnswersDerived'
  BY <1>1, <1>2, AnsweredKeeps DEF Answers
<1>3. Moves(Answer.hash) \subseteq {"merge", "rank"}
  BY DEF Moves
<1>4. ASSUME NEW kind, Answered(kind), planHash' = Answer.hash,
             due' = due \cup Moves(Answer.hash),
             UNCHANGED <<session, queue, rank, epoch, open, guards, asked, spent>>
      PROVE  IInv'
  <2>1. Answer.hash \in Plan /\ answers' \in Seq(Answers) /\ AnswersDerived'
    BY <1>2, <1>4
  <2>2. TypeOK'
    BY <1>1, <1>3, <1>4, <2>1 DEF TypeOK, session, guards
  <2>3. EditsNamePlans' /\ ParkedSound' /\ AsksSound' /\ RankSound'
    BY <1>1, <1>4 DEF session, EditsNamePlans, ParkedSound, AsksSound, RankSound
  <2>4. QED
    BY <2>1, <2>2, <2>3 DEF IInv
<1>5. CASE EditAnswered
  BY <1>4, <1>5 DEF EditAnswered
<1>6. CASE HydrateAnswered
  BY <1>4, <1>6 DEF HydrateAnswered
<1>7. Derived(Answer.cards) => Honest(MergeRank(rank, Answer.cards))
  BY <1>1, MergeHonest DEF RankSound
<1>8. CASE MergeAnswered
  <2>1. /\ Answered("merge")
        /\ UNCHANGED <<session, queue, planHash, epoch, open, due, rankSeq, rankedKey, mounted, asked, spent>>
    BY <1>8 DEF MergeAnswered
  <2>2. \/ rank' = MergeRank(rank, Answer.cards) /\ lastMerged' = Answer.asked
        \/ UNCHANGED <<rank, lastMerged>>
    BY <1>8 DEF MergeAnswered
  <2>3. /\ Answer.asked \in Plan \cup {None} /\ Derived(Answer.cards)
        /\ answers' \in Seq(Answers) /\ AnswersDerived'
    BY <1>2, <2>1
  <2>4. RankSound'
    BY <1>1, <1>7, <2>2, <2>3 DEF RankSound
  <2>5. rank' \in Ranks \cup {None} /\ lastMerged' \in Plan \cup {None}
    BY <1>1, <1>7, <2>2, <2>3 DEF Honest, TypeOK
  <2>6. TypeOK'
    BY <1>1, <2>1, <2>3, <2>5 DEF TypeOK, session
  <2>7. EditsNamePlans' /\ ParkedSound' /\ AsksSound'
    BY <1>1, <2>1 DEF session, EditsNamePlans, ParkedSound, AsksSound
  <2>8. QED
    BY <2>3, <2>4, <2>6, <2>7 DEF IInv
<1>9. CASE PrefsAnswered
  <2>1. /\ Answered("prefs") /\ rank' = MergeRank(rank, Answer.cards) /\ epoch' = epoch + 1
        /\ due' \in {due, due \cup {"rank"}}
        /\ UNCHANGED <<session, queue, planHash, open, guards, asked, spent>>
    BY <1>9 DEF PrefsAnswered
  <2>2. Derived(Answer.cards) /\ answers' \in Seq(Answers) /\ AnswersDerived'
    BY <1>2, <2>1
  <2>3. Honest(rank')
    BY <1>7, <2>1, <2>2
  <2>4. RankSound' /\ rank' \in Ranks \cup {None}
    BY <2>3 DEF RankSound, Honest
  <2>5. due' \subseteq {"merge", "rank"}
    BY <1>1, <2>1 DEF TypeOK
  <2>6. TypeOK'
    BY <1>1, <2>1, <2>2, <2>4, <2>5 DEF TypeOK, session, guards
  <2>7. EditsNamePlans' /\ ParkedSound' /\ AsksSound'
    BY <1>1, <2>1 DEF session, EditsNamePlans, ParkedSound, AsksSound
  <2>8. QED
    BY <2>2, <2>4, <2>6, <2>7 DEF IInv
<1>10. CASE WipeAnswered
  <2> DEFINE call == Request("hydrate", None, 0, FALSE)
  <2>1. /\ Answered("wipe") /\ Ask(call)
        /\ rankedKey' = None /\ mounted' = 0 /\ lastMerged' = None /\ rank' = None /\ epoch' = 0
        /\ due' \in {due, due \cup {"rank"}}
        /\ UNCHANGED <<session, planHash, open, rankSeq, asked, spent>>
    BY <1>10 DEF WipeAnswered
  <2>2. call \in Requests /\ call.kind = "hydrate"
    BY DEF Request, Requests, Calls
  <2> HIDE DEF call
  <2>3. queue \in Seq(Requests)
    BY <1>1 DEF TypeOK
  <2>4. queue' \in Seq(Requests) /\ EditsNamePlans'
    BY <1>1, <2>1, <2>2, <2>3, AskKeeps
  <2>5. answers' \in Seq(Answers) /\ AnswersDerived'
    BY <1>2, <2>1
  <2>6. due' \subseteq {"merge", "rank"}
    BY <1>1, <2>1 DEF TypeOK
  <2>7. TypeOK'
    BY <1>1, <2>1, <2>4, <2>5, <2>6 DEF TypeOK, session
  <2>8. ParkedSound' /\ AsksSound' /\ RankSound'
    BY <1>1, <2>1 DEF session, ParkedSound, AsksSound, RankSound
  <2>9. QED
    BY <2>4, <2>5, <2>7, <2>8 DEF IInv
<1>11. QED
  BY <1>5, <1>6, <1>8, <1>9, <1>10 DEF Deliver

(* The effects of a change only ask. *)
LEMMA EffectsSound ==
  ASSUME IInv, Effects
  PROVE  IInv'
<1>1. TypeOK /\ AnswersDerived /\ EditsNamePlans /\ ParkedSound /\ AsksSound /\ RankSound
  BY DEF IInv
<1>2. CASE MergeEffect
  <2>1. /\ due' = due \ {"merge"} /\ MergeOnEdit(rank, lastMerged)
        /\ UNCHANGED <<session, answers, rank, planHash, epoch, open, rankedKey, mounted,
                       lastMerged, asked, spent>>
    BY <1>2 DEF MergeEffect
  <2>2. queue' \in Seq(Requests) /\ EditsNamePlans' /\ rankSeq' \in Nat
    BY <1>1, <2>1, MergeKeeps
  <2>3. TypeOK'
    BY <1>1, <2>1, <2>2 DEF TypeOK, session
  <2>4. AnswersDerived' /\ ParkedSound' /\ AsksSound' /\ RankSound'
    BY <1>1, <2>1 DEF session, AnswersDerived, ParkedSound, AsksSound, RankSound
  <2>5. QED
    BY <2>2, <2>3, <2>4 DEF IInv
<1>3. CASE RankEffect
  <2>1. /\ due' = due \ {"rank"} /\ OpenRankFeed
        /\ UNCHANGED <<session, queue, answers, rank, planHash, epoch, open, mounted, lastMerged, spent>>
    BY <1>3 DEF RankEffect
  <2>2. UNCHANGED <<pending, jobs>>
    BY <2>1 DEF session
  <2>3. /\ asked' \in Seq(Asks) /\ AsksSound'
        /\ rankSeq' \in Nat /\ rankedKey' \in (Plan \X Nat) \cup {None}
    BY <1>1, <2>1, <2>2, OpenKeeps
  <2>4. TypeOK'
    BY <1>1, <2>1, <2>3 DEF TypeOK, session
  <2>5. AnswersDerived' /\ EditsNamePlans' /\ ParkedSound' /\ RankSound'
    BY <1>1, <2>1 DEF session, AnswersDerived, EditsNamePlans, ParkedSound, RankSound
  <2>6. QED
    BY <2>3, <2>4, <2>5 DEF IInv
<1>4. QED
  BY <1>2, <1>3 DEF Effects

(* A ranking moves on, and what it becomes is sound. *)
LEMMA RankMoves ==
  ASSUME IInv, NEW n \in DOMAIN asked, NEW a \in Asks, asked' = [asked EXCEPT ![n] = a],
         pending' \in [id : Nat, job : RankJobs] \cup {None}, jobs' \in Nat,
         ParkedSound', AskSound(a, pending', jobs'),
         \A i \in DOMAIN asked : i # n => AskSound(asked[i], pending', jobs'),
         UNCHANGED <<plan, noTrains, engine, queue, answers, rank, planHash, epoch, open, due,
                     guards, spent>>
  PROVE  IInv'
<1>1. TypeOK /\ AnswersDerived /\ EditsNamePlans /\ RankSound
  BY DEF IInv
<1>2. asked \in Seq(Asks)
  BY <1>1 DEF TypeOK
<1>3. asked' \in Seq(Asks) /\ \A i \in DOMAIN asked' : AskSound(asked'[i], pending', jobs')
  BY <1>2, AskMoves
<1>4. TypeOK'
  BY <1>1, <1>3 DEF TypeOK, guards
<1>5. AnswersDerived' /\ EditsNamePlans' /\ RankSound'
  BY <1>1 DEF AnswersDerived, EditsNamePlans, RankSound
<1>6. AsksSound'
  BY <1>3 DEF AsksSound
<1>7. QED
  BY <1>4, <1>5, <1>6 DEF IInv

(* An answer to one ranking, the parked job kept or taken. *)
LEMMA AnswerSound ==
  ASSUME IInv, NEW n \in DOMAIN asked, NEW r, Honest(r),
         asked' = [asked EXCEPT ![n].stage = "answered", ![n].answer = r],
         pending' \in {pending, None}, jobs' = jobs,
         UNCHANGED <<plan, noTrains, engine, queue, answers, rank, planHash, epoch, open, due,
                     guards, spent>>
  PROVE  IInv'
<1>1. TypeOK /\ ParkedSound /\ AsksSound
  BY DEF IInv
<1>2. /\ asked \in Seq(Asks) /\ pending \in [id : Nat, job : RankJobs] \cup {None} /\ jobs \in Nat
  BY <1>1 DEF TypeOK
<1> DEFINE a == [asked[n] EXCEPT !.stage = "answered", !.answer = r]
<1>3. asked[n] \in Asks /\ r \in Ranks
  BY <1>2 DEF Honest
<1>4. a \in Asks /\ a.stage = "answered" /\ a.answer = r
  BY <1>3 DEF Asks
<1>5. asked' = [asked EXCEPT ![n] = a]
  OBVIOUS
<1> HIDE DEF a
<1>6. AskSound(a, pending', jobs')
  BY <1>4 DEF AskSound
<1>7. \A i \in DOMAIN asked : AskSound(asked[i], pending', jobs')
  BY <1>1 DEF AsksSound, AskSound
<1>8. ParkedSound'
  BY <1>1 DEF ParkedSound
<1>9. pending' \in [id : Nat, job : RankJobs] \cup {None} /\ jobs' \in Nat
  BY <1>2
<1>10. QED
  BY <1>4, <1>5, <1>6, <1>7, <1>8, <1>9, RankMoves

(* What the session would rank now is derived. *)
LEMMA JobIs ==
  ASSUME IInv
  PROVE  Job \in RankJobs /\ Job.plan \in Plan /\ Derived(Job.cards)
<1>1. plan \in Plan /\ noTrains \in BOOLEAN
  BY DEF IInv, TypeOK
<1>2. NextMoves(plan, noTrains) \in Seq(Entry) /\ Derived(NextMoves(plan, noTrains))
  BY <1>1, MovesAre DEF Derived
<1>3. Job.plan = plan /\ Job.cards = NextMoves(plan, noTrains)
  BY DEF Job
<1>4. QED
  BY <1>1, <1>2, <1>3 DEF Job, RankJobs

(* Preparing answers at once, or parks a job under a number none has. *)
LEMMA PrepareSound ==
  ASSUME IInv, NEW n \in DOMAIN asked, RankPrepare(n)
  PROVE  IInv'
<1> DEFINE Answers1(r) == [asked EXCEPT ![n].stage = "answered", ![n].answer = r]
<1>1. UNCHANGED <<plan, noTrains, engine, queue, answers, rank, planHash, epoch, open, due,
                  guards, spent>>
  BY DEF RankPrepare
<1>2. Job \in RankJobs /\ Job.plan \in Plan /\ Derived(Job.cards)
  BY JobIs
<1>3. CASE asked' = Answers1(Heuristic(Job.cards)) /\ pending' \in {pending, None} /\ jobs' = jobs
  BY <1>1, <1>2, <1>3, HeuristicHonest, AnswerSound
<1>4. ASSUME Job.cards # <<>>, NEW r \in Reply, asked' = Answers1(ExecuteRank(Job, r)),
             UNCHANGED <<pending, jobs>>
      PROVE  IInv'
  <2>1. Honest(ExecuteRank(Job, r))
    BY <1>2, <1>4, RankedHonest DEF ExecuteRank
  <2>2. QED
    BY <1>1, <1>4, <2>1, AnswerSound
<1>5. CASE /\ Job.cards # <<>>
           /\ jobs' = jobs + 1 /\ pending' = [id |-> jobs + 1, job |-> Job]
           /\ asked' = [asked EXCEPT ![n].stage = "model", ![n].id = jobs + 1, ![n].job = Job]
  <2> DEFINE a == [asked[n] EXCEPT !.stage = "model", !.id = jobs + 1, !.job = Job]
  <2>1. TypeOK /\ AsksSound
    BY DEF IInv
  <2>2. asked \in Seq(Asks) /\ jobs \in Nat
    BY <2>1 DEF TypeOK
  <2>3. asked[n] \in Asks
    BY <2>2
  <2>4. a \in Asks /\ a.stage = "model" /\ a.id = jobs + 1 /\ a.job = Job
    <3>1. asked[n] \in [seq : Nat, start : Plan, stage : {"asked", "model", "answered"}, id : Nat,
                        job : RankJobs \cup {None}, answer : Ranks \cup {None}]
      BY <2>3 DEF Asks
    <3>2. jobs + 1 \in Nat
      BY <2>2
    <3> DEFINE num == jobs + 1
               job == Job
    <3>3. num \in Nat /\ job \in RankJobs
      BY <1>2, <3>2
    <3> HIDE DEF num, job
    <3>4. /\ [asked[n] EXCEPT !.stage = "model", !.id = num, !.job = job] \in Asks
          /\ [asked[n] EXCEPT !.stage = "model", !.id = num, !.job = job].stage = "model"
          /\ [asked[n] EXCEPT !.stage = "model", !.id = num, !.job = job].id = num
          /\ [asked[n] EXCEPT !.stage = "model", !.id = num, !.job = job].job = job
      BY <3>1, <3>3 DEF Asks
    <3>5. QED
      BY <3>4 DEF num, job
  <2>5. asked' = [asked EXCEPT ![n] = a]
    BY <1>5
  <2> HIDE DEF a
  <2>6. pending'.id = jobs + 1 /\ pending'.job = Job /\ jobs' \in Nat
        /\ pending' \in [id : Nat, job : RankJobs] \cup {None}
    BY <1>2, <1>5, <2>2
  <2>7. ParkedSound'
    <3>1. pending'.id <= jobs'
      BY <1>5, <2>2, <2>6
    <3>2. QED
      BY <1>2, <1>5, <2>6, <3>1 DEF ParkedSound
  <2>8. AskSound(a, pending', jobs')
    BY <1>5, <2>2, <2>4, <2>6 DEF AskSound
  <2>9. ASSUME NEW i \in DOMAIN asked
        PROVE  AskSound(asked[i], pending', jobs')
    <3>1. AskSound(asked[i], pending, jobs)
      BY <2>1 DEF AsksSound
    <3>2. asked[i] \in Asks
      BY <2>2
    <3>3. asked[i].id \in Nat
      BY <3>2 DEF Asks
    <3>4. asked[i].id <= jobs => asked[i].id <= jobs' /\ asked[i].id # pending'.id
      BY <1>5, <2>2, <2>6, <3>3
    <3>5. QED
      BY <3>1, <3>4 DEF AskSound
  <2>10. QED
    BY <1>1, <2>4, <2>5, <2>6, <2>7, <2>8, <2>9, RankMoves
<1>6. \/ asked' = Answers1(Heuristic(Job.cards)) /\ pending' \in {pending, None} /\ jobs' = jobs
      \/ /\ Job.cards # <<>> /\ UNCHANGED <<pending, jobs>>
         /\ \E r \in Reply : asked' = Answers1(ExecuteRank(Job, r))
      \/ /\ Job.cards # <<>>
         /\ jobs' = jobs + 1 /\ pending' = [id |-> jobs + 1, job |-> Job]
         /\ asked' = [asked EXCEPT ![n].stage = "model", ![n].id = jobs + 1, ![n].job = Job]
  BY DEF RankPrepare
<1> HIDE DEF Answers1
<1>7. QED
  BY <1>3, <1>4, <1>5, <1>6

(* A browser's reply is applied to the job it was given, or not at all. *)
LEMMA ApplySound ==
  ASSUME IInv, NEW n \in DOMAIN asked, NEW r \in Reply, RankApply(n, r)
  PROVE  IInv'
<1> DEFINE Answers1(x) == [asked EXCEPT ![n].stage = "answered", ![n].answer = x]
<1>1. /\ asked[n].stage = "model" /\ jobs' = jobs
      /\ UNCHANGED <<plan, noTrains, engine, queue, answers, rank, planHash, epoch, open, due,
                     guards, spent>>
  BY DEF RankApply
<1>2. CASE pending # None /\ pending.id = asked[n].id
  <2>1. pending' = None
        /\ asked' = Answers1(RankedResponse(pending.job, r, asked[n].job.cards))
    BY <1>2 DEF RankApply
  <2>2. AskSound(asked[n], pending, jobs) /\ ParkedSound
    BY DEF IInv, AsksSound
  <2>3. asked[n].job = pending.job
    BY <1>1, <1>2, <2>2 DEF AskSound
  <2>4. pending.job.cards # <<>> /\ Derived(pending.job.cards)
    BY <1>2, <2>2 DEF ParkedSound
  <2>5. pending \in [id : Nat, job : RankJobs]
    BY <1>2 DEF IInv, TypeOK
  <2>6. pending.job.plan \in Plan
    BY <2>5 DEF RankJobs
  <2>7. Honest(RankedResponse(pending.job, r, asked[n].job.cards))
    BY <2>3, <2>4, <2>6, RankedHonest
  <2>8. QED
    BY <1>1, <2>1, <2>7, AnswerSound
<1>3. CASE ~(pending # None /\ pending.id = asked[n].id)
  <2>1. pending' = pending /\ asked' = Answers1(Heuristic(Job.cards))
    BY <1>3 DEF RankApply
  <2>2. Honest(Heuristic(Job.cards))
    BY JobIs, HeuristicHonest
  <2>3. QED
    BY <1>1, <2>1, <2>2, AnswerSound
<1>4. QED
  BY <1>2, <1>3

(* What lands is honest. *)
LEMMA LandsSound ==
  ASSUME IInv, NEW n \in DOMAIN asked, RankLands(n)
  PROVE  IInv'
<1>1. TypeOK /\ AnswersDerived /\ EditsNamePlans /\ ParkedSound /\ AsksSound /\ RankSound
  BY DEF IInv
<1>2. /\ asked[n].stage = "answered" /\ asked' = RemoveAt(asked, n)
      /\ UNCHANGED <<session, answers, planHash, epoch, open, due, rankedKey, mounted, spent>>
  BY DEF RankLands
<1>3. asked \in Seq(Asks)
  BY <1>1 DEF TypeOK
<1>4. /\ asked' \in Seq(Asks)
      /\ \A i \in DOMAIN asked' : \E j \in DOMAIN asked : asked'[i] = asked[j]
  BY <1>2, <1>3, RemoveIs
<1>5. AsksSound'
  BY <1>1, <1>2, <1>4 DEF AsksSound, session
<1>6. Honest(asked[n].answer)
  BY <1>1, <1>2 DEF AsksSound, AskSound
<1>7. asked[n] \in Asks
  BY <1>3
<1>8. asked[n].start \in Plan
  BY <1>7 DEF Asks
<1>9. /\ rank' \in Ranks \cup {None} /\ lastMerged' \in Plan \cup {None} /\ RankSound'
      /\ queue' \in Seq(Requests) /\ EditsNamePlans' /\ rankSeq' \in Nat
  <2>1. CASE rankSeq = asked[n].seq
    <3>1. /\ rank' = asked[n].answer /\ lastMerged' = asked[n].start
          /\ MergeOnEdit(asked[n].answer, asked[n].start)
      BY <2>1 DEF RankLands
    <3>2. queue' \in Seq(Requests) /\ EditsNamePlans' /\ rankSeq' \in Nat
      BY <1>1, <3>1, MergeKeeps
    <3>3. QED
      BY <1>6, <1>8, <3>1, <3>2 DEF RankSound, Honest
  <2>2. CASE rankSeq # asked[n].seq
    <3>1. UNCHANGED <<rank, lastMerged, queue, rankSeq>>
      BY <2>2 DEF RankLands
    <3>2. QED
      BY <1>1, <3>1 DEF TypeOK, RankSound, EditsNamePlans
  <2>3. QED
    BY <2>1, <2>2
<1>10. TypeOK'
  BY <1>1, <1>2, <1>4, <1>9 DEF TypeOK, session
<1>11. AnswersDerived' /\ ParkedSound'
  BY <1>1, <1>2 DEF session, AnswersDerived, ParkedSound
<1>12. QED
  BY <1>5, <1>9, <1>10, <1>11 DEF IInv

------------------------------------------------------------------------------
(* Theorems *)

(* The inductive invariant: what is listed, on its way or parked is the    *)
(* engine's, and a browser's ranking has the job that is parked under its  *)
(* number. *)
THEOREM Invariant ==
  Spec => []IInv
<1>1. Init => IInv
  BY InitSound
<1>2. IInv /\ [Next]_vars => IInv'
  <2>1. SUFFICES ASSUME IInv, [Next]_vars PROVE IInv'
    OBVIOUS
  <2>2. CASE RankStep
    BY <2>1, <2>2, PrepareSound, ApplySound, LandsSound DEF RankStep
  <2>3. CASE UNCHANGED vars
    BY <2>1, <2>3 DEF vars, session, guards, IInv, TypeOK, AnswersDerived, EditsNamePlans,
                      ParkedSound, AsksSound, RankSound
  <2>4. QED
    BY <2>1, <2>2, <2>3, UserSound, ServeSound, DeliverSound, EffectsSound DEF Next
<1>3. QED
  BY <1>1, <1>2, PTL DEF Spec

(* Every variable of the session, the renderer and the calls between them  *)
(* keeps its type. *)
THEOREM TypeCorrect ==
  Spec => []TypeOK
<1>1. IInv => TypeOK
  BY DEF IInv
<1>2. QED
  BY <1>1, Invariant, PTL

(* Lists without doubles with the same entries are equally long. *)
LEMMA EqualLengths ==
  ASSUME NEW S, NEW T, NEW a \in Seq(S), NEW b \in Seq(T), Distinct(a), Distinct(b),
         Ids(a) = Ids(b)
  PROVE  Len(a) = Len(b)
<1>1. /\ Len(a) \in Nat /\ DOMAIN a = 1..Len(a) /\ Len(b) \in Nat /\ DOMAIN b = 1..Len(b)
  OBVIOUS
<1> DEFINE f == [i \in 1..Len(a) |-> a[i].id]
           g == [i \in 1..Len(b) |-> b[i].id]
<1>2. f \in Bijection(1..Len(a), Ids(a))
  <2>1. \A i, j \in 1..Len(a) : f[i] = f[j] => i = j
    BY <1>1 DEF Distinct
  <2>2. \A c \in Ids(a) : \E i \in 1..Len(a) : f[i] = c
    BY <1>1 DEF Ids
  <2>3. f \in [1..Len(a) -> Ids(a)]
    BY <1>1 DEF Ids
  <2> HIDE DEF f
  <2>4. QED
    BY <2>1, <2>2, <2>3, Fun_IsBij
<1>3. g \in Bijection(1..Len(b), Ids(b))
  <2>1. \A i, j \in 1..Len(b) : g[i] = g[j] => i = j
    BY <1>1 DEF Distinct
  <2>2. \A c \in Ids(b) : \E i \in 1..Len(b) : g[i] = c
    BY <1>1 DEF Ids
  <2>3. g \in [1..Len(b) -> Ids(b)]
    BY <1>1 DEF Ids
  <2> HIDE DEF g
  <2>4. QED
    BY <2>1, <2>2, <2>3, Fun_IsBij
<1>4. ExistsBijection(1..Len(a), Ids(a)) /\ ExistsBijection(1..Len(b), Ids(b))
  BY <1>2, <1>3 DEF ExistsBijection
<1> HIDE DEF f, g
<1>5. IsFiniteSet(Ids(a)) /\ Cardinality(Ids(a)) = Len(a)
  BY <1>1, <1>4, FS_NatBijection, FS_CountingElements
<1>6. IsFiniteSet(Ids(b)) /\ Cardinality(Ids(b)) = Len(b)
  BY <1>1, <1>4, FS_NatBijection, FS_CountingElements
<1>7. QED
  BY <1>5, <1>6

(* Whatever edits, preferences, wipes, rankings and merges overlap, the    *)
(* list shown is one the engine derived whole, and every note and headline *)
(* is about the evidence its card shows. *)
THEOREM FeedAlwaysHonest ==
  Spec => []FeedIsHonest
<1>1. ASSUME IInv, rank # None
      PROVE  ProseFitsEvidence /\ ListIsDerived
  <2>1. rank \in Ranks /\ Listed(rank) /\ Fitting(rank)
    BY <1>1 DEF IInv, RankSound, Honest
  <2>2. ProseFitsEvidence
    BY <2>1 DEF Fitting, ProseFitsEvidence
  <2>3. PICK p \in Plan, hide \in BOOLEAN :
          /\ Distinct(rank.cards)
          /\ {[id |-> c.id, ev |-> c.ev] : c \in Range(rank.cards)} = Range(NextMoves(p, hide))
    BY <2>1 DEF Listed, Distinct
  <2> DEFINE list == NextMoves(p, hide)
             cards == rank.cards
  <2>4. list \in Seq(Entry) /\ Distinct(list) /\ cards \in Seq(Shown)
    BY <2>1, MovesAre DEF Ranks, Shown
  <2>5. Ids(cards) = Ids(list)
    <3>1. ASSUME NEW k \in DOMAIN cards
          PROVE  cards[k].id \in Ids(list)
      <4>1. [id |-> cards[k].id, ev |-> cards[k].ev] \in Range(list)
        BY <2>3 DEF Range
      <4>2. PICK j \in DOMAIN list : list[j] = [id |-> cards[k].id, ev |-> cards[k].ev]
        BY <4>1 DEF Range
      <4>3. list[j].id = cards[k].id
        BY <4>2
      <4> HIDE DEF list, cards
      <4>4. QED
        BY <4>3 DEF Ids
    <3>2. ASSUME NEW k \in DOMAIN list
          PROVE  list[k].id \in Ids(cards)
      <4>1. list[k] \in {[id |-> c.id, ev |-> c.ev] : c \in Range(cards)}
        BY <2>3 DEF Range
      <4>2. PICK c \in Range(cards) : list[k] = [id |-> c.id, ev |-> c.ev]
        BY <4>1
      <4>3. PICK j \in DOMAIN cards : c = cards[j]
        BY <4>2 DEF Range
      <4>4. list[k].id = cards[j].id
        BY <4>2, <4>3
      <4> HIDE DEF list, cards
      <4>5. QED
        BY <4>4 DEF Ids
    <3> HIDE DEF list, cards
    <3>3. QED
      BY <3>1, <3>2 DEF Ids
  <2>6. Len(cards) = Len(list)
    <3>1. Distinct(cards)
      BY <2>3
    <3> HIDE DEF list, cards
    <3>2. QED
      BY <2>4, <2>5, <3>1, EqualLengths
  <2>7. ListIsDerived
    BY <2>3, <2>6 DEF ListIsDerived
  <2>8. QED
    BY <2>2, <2>7
<1>2. rank = None => ProseFitsEvidence /\ ListIsDerived
  BY DEF ProseFitsEvidence, ListIsDerived
<1>3. IInv => FeedIsHonest
  BY <1>1, <1>2 DEF FeedIsHonest
<1>4. QED
  BY <1>3, Invariant, PTL
==============================================================================
