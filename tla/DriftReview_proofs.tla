-------------------------- MODULE DriftReview_proofs --------------------------
(***************************************************************************)
(* Proofs about DriftReview, for any sites, saves, edits and bounds.       *)
(*                                                                         *)
(* First, what a diff holds and what accepting one does.                   *)
(*                                                                         *)
(* AcceptKeepsEdits: the items of a diff keep out of each other's way (no  *)
(* item reads the key of a group that another reads or writes), so that a  *)
(* group is touched by one item at most, and what the user planned for it  *)
(* is still planned when all included items have been applied.             *)
(*                                                                         *)
(* AcceptLeaves: where no group is planned, accepting items of a diff      *)
(* leaves the others as they were: an item settles the one group of the    *)
(* save, or the one gone key, that it is about, and of the others even the *)
(* generators and fuels left over are matched as before (by rank, and a    *)
(* pair that goes takes the same rank from both).                          *)
(*                                                                         *)
(* DiffAlike: the diff sees nothing of a factory but its keys and, for     *)
(* each, the count and clock of the last group that has it; and where no   *)
(* group is planned, the last baselines of the game decide those.          *)
(*                                                                         *)
(* FlattenSeq and ApplyIncluded are recursive functions: each is unfolded  *)
(* to one step, and a fact about all steps follows from a first index at   *)
(* which it would fail (LeastMember).                                      *)
(*                                                                         *)
(* Then, which proposals are open in which version of the plan (IInv) and  *)
(* what the record of the newest import names (RecordInv); nothing there   *)
(* unfolds Diff or ApplyIncluded.  Last SoundInv, with what the first part *)
(* says of the two: in every version each open diff can be accepted and    *)
(* says what a diff of its save against the last baselines says, and from  *)
(* one version to the next nothing reopens and an accepted diff keeps the  *)
(* user's edits and leaves what was not included.  The second part is      *)
(* about pairs of versions because redo takes a diff to accepted again     *)
(* without applying it.                                                    *)
(***************************************************************************)
EXTENDS DriftReview, TLAPS, NaturalsInduction, FiniteSetTheorems

------------------------------------------------------------------------------
(* Sequences *)

(* A set of numbers that has a member has a least one. *)
LEMMA LeastMember ==
  ASSUME NEW S \in SUBSET Nat, S # {}
  PROVE  \E m \in S : \A k \in S : m <= k
<1>1. \E x \in S : \A y \in S : ~ (<<y, x>> \in OpToRel(<, Nat))
  BY NatLessThanWellFounded, WFMin
<1>2. ASSUME NEW x \in Nat, NEW y \in Nat, y < x
      PROVE  <<y, x>> \in OpToRel(<, Nat)
  BY <1>2, Zenon DEF OpToRel
<1>3. PICK m \in S : \A y \in S : ~ (<<y, m>> \in OpToRel(<, Nat))
  BY <1>1
<1>4. \A y \in S : ~ (y < m)
  BY <1>2, <1>3
<1>5. \A y \in S : m <= y
  BY <1>4
<1>6. QED
  BY <1>5

(* A set of numbers up to n that is not all of them misses a first one. *)
LEMMA FirstMissing ==
  ASSUME NEW n \in Nat, NEW S, \E i \in 1..n : i \notin S
  PROVE  \E i \in 1..n : i \notin S /\ (i # 1 => i - 1 \in S /\ i - 1 \in 1..n)
<1> DEFINE R == {i \in 1..n : i \notin S}
<1>1. R \in SUBSET Nat /\ R # {}
  OBVIOUS
<1>2. PICK i \in R : \A k \in R : i <= k
  BY <1>1, LeastMember
<1>3. i # 1 => i - 1 \in 1..n
  OBVIOUS
<1>4. i - 1 \in 1..n => i - 1 \in S
  BY <1>2
<1>5. QED
  BY <1>3, <1>4

(* The first i sequences of ss, one after the other. *)
Chained(ss, f) ==
  f = [i \in 1..Len(ss) |-> IF i = 1 THEN ss[i] ELSE f[i-1] \o ss[i]]

ChainedTo(ss, f, m) ==
  f = [i \in 1..m |-> IF i = 1 THEN ss[i] ELSE f[i-1] \o ss[i]]

(* Such a function exists: FlattenSeq chooses one. *)
LEMMA ChainExists ==
  ASSUME NEW T, NEW ss \in Seq(T), Len(ss) > 0
  PROVE  \E f : Chained(ss, f)
<1> DEFINE n == Len(ss)
           S == {m \in 1..n : \E f : ChainedTo(ss, f, m)}
<1>0. n \in Nat
  OBVIOUS
<1>1. 1 \in S
  <2> DEFINE f == [i \in {1} |-> ss[1]]
  <2>1. ChainedTo(ss, f, 1)
    BY DEF ChainedTo
  <2>2. QED
    BY <2>1
<1>2. ASSUME NEW m \in 1..n, m - 1 \in S, m # 1
      PROVE  m \in S
  <2>1. PICK f : ChainedTo(ss, f, m - 1)
    BY <1>2
  <2> DEFINE g == [i \in 1..m |-> IF i = m THEN f[m - 1] \o ss[m] ELSE f[i]]
  <2>2. DOMAIN f = 1..(m - 1) /\ \A i \in 1..(m-1) : f[i] = IF i = 1 THEN ss[i] ELSE f[i-1] \o ss[i]
    BY <2>1 DEF ChainedTo
  <2>3. ASSUME NEW i \in 1..m
        PROVE  g[i] = IF i = 1 THEN ss[i] ELSE g[i-1] \o ss[i]
    <3>1. CASE i = m
      <4>1. i # 1 /\ i - 1 \in 1..m /\ i - 1 # m
        BY <1>2, <3>1
      <4>2. g[i - 1] = f[m - 1]
        BY <3>1, <4>1
      <4>3. QED
        BY <3>1, <4>1, <4>2
    <3>2. CASE i # m
      <4>1. i \in 1..(m - 1) /\ g[i] = f[i]
        BY <3>2
      <4>2. i # 1 => i - 1 \in 1..m /\ i - 1 # m
        BY <3>2
      <4>3. i # 1 => g[i - 1] = f[i - 1]
        BY <4>2
      <4>4. QED
        BY <2>2, <4>1, <4>3
    <3>3. QED
      BY <3>1, <3>2
  <2>4. ChainedTo(ss, g, m)
    BY <2>3 DEF ChainedTo
  <2>5. QED
    BY <2>4
<1> HIDE DEF S
<1>3. n \in S
  <2>1. SUFFICES ASSUME n \notin S PROVE FALSE
    OBVIOUS
  <2>2. PICK i \in 1..n : i \notin S /\ (i # 1 => i - 1 \in S /\ i - 1 \in 1..n)
    <3>1. n \in 1..n
      BY <1>0
    <3>2. \E i \in 1..n : i \notin S
      BY <2>1, <3>1
    <3> HIDE DEF n
    <3>3. QED
      BY <1>0, <3>2, FirstMissing
  <2>3. CASE i = 1
    BY <1>1, <2>2, <2>3
  <2>4. CASE i # 1
    <3>1. i \in S
      BY <1>2, <2>2, <2>4
    <3>2. QED
      BY <2>2, <3>1
  <2>5. QED
    BY <2>3, <2>4
<1>4. QED
  BY <1>3 DEF S, Chained, ChainedTo

(* A non-empty sequence of sequences is flattened by its last value. *)
LEMMA FlattenChained ==
  ASSUME NEW T, NEW ss \in Seq(T), Len(ss) > 0
  PROVE  \E f : Chained(ss, f) /\ FlattenSeq(ss) = f[Len(ss)]
<1> DEFINE f == CHOOSE f : Chained(ss, f)
<1>1. Chained(ss, f)
  BY ChainExists
<1>2. FlattenSeq(ss) = f[Len(ss)]
  BY DEF FlattenSeq, Chained
<1>3. QED
  BY <1>1, <1>2

(* What two sequences joined hold. *)
LEMMA RangeOfJoin ==
  ASSUME NEW T, NEW s \in Seq(T), NEW t \in Seq(T)
  PROVE  \A x : x \in Range(s \o t) <=> x \in Range(s) \/ x \in Range(t)
<1> DEFINE st == s \o t
<1>1. /\ DOMAIN s = 1..Len(s) /\ DOMAIN t = 1..Len(t) /\ Len(s) \in Nat /\ Len(t) \in Nat
      /\ DOMAIN st = 1..(Len(s) + Len(t))
  OBVIOUS
<1>2. \A i \in DOMAIN s : i \in DOMAIN st /\ st[i] = s[i]
  BY <1>1
<1>3. \A i \in DOMAIN t : Len(s) + i \in DOMAIN st /\ st[Len(s) + i] = t[i]
  BY <1>1
<1>4. ASSUME NEW i \in DOMAIN st
      PROVE  \/ i \in DOMAIN s
             \/ i - Len(s) \in DOMAIN t
  BY <1>1
<1> HIDE DEF st
<1>5. ASSUME NEW x, NEW i \in DOMAIN st, x = st[i]
      PROVE  x \in Range(s) \/ x \in Range(t)
  <2>1. CASE i \in DOMAIN s
    BY <1>2, <1>5, <2>1 DEF Range
  <2>2. CASE i - Len(s) \in DOMAIN t
    <3>1. Len(s) + (i - Len(s)) = i
      BY <1>1
    <3>2. st[i] = t[i - Len(s)]
      BY <1>3, <2>2, <3>1
    <3>3. QED
      BY <1>5, <2>2, <3>2 DEF Range
  <2>3. QED
    BY <1>4, <2>1, <2>2
<1>6. \A x : x \in Range(st) <=> x \in Range(s) \/ x \in Range(t)
  BY <1>2, <1>3, <1>5 DEF Range
<1>7. QED
  BY <1>6 DEF st

(* A chain of sequences over T is one over T and holds what they hold. *)
LEMMA ChainHolds ==
  ASSUME NEW T, NEW ss \in Seq(Seq(T)), NEW f, Chained(ss, f), NEW n \in 1..Len(ss)
  PROVE  /\ f[n] \in Seq(T)
         /\ \A x : x \in Range(f[n]) <=> \E j \in 1..n : x \in Range(ss[j])
<1> DEFINE Good(i) == /\ f[i] \in Seq(T)
                      /\ \A x : x \in Range(f[i]) <=> \E j \in 1..i : x \in Range(ss[j])
           S == {i \in 1..Len(ss) : Good(i)}
<1>0. Len(ss) \in Nat /\ \A i \in 1..Len(ss) : ss[i] \in Seq(T)
  OBVIOUS
<1>1. \A i \in 1..Len(ss) : f[i] = IF i = 1 THEN ss[i] ELSE f[i - 1] \o ss[i]
  BY DEF Chained
<1>2. 1 \in 1..Len(ss) => Good(1)
  <2>1. 1 \in 1..Len(ss) => f[1] = ss[1]
    BY <1>1
  <2>2. QED
    BY <1>0, <2>1
<1>3. ASSUME NEW i \in 1..Len(ss), i # 1, i - 1 \in 1..Len(ss), Good(i - 1)
      PROVE  Good(i)
  <2>1. f[i] = f[i - 1] \o ss[i] /\ f[i - 1] \in Seq(T) /\ ss[i] \in Seq(T)
    BY <1>0, <1>1, <1>3
  <2>2. f[i] \in Seq(T)
    BY <2>1
  <2>3. \A x : x \in Range(f[i]) <=> x \in Range(f[i - 1]) \/ x \in Range(ss[i])
    BY <2>1, RangeOfJoin
  <2>4. \A x : x \in Range(f[i - 1]) <=> \E j \in 1..(i - 1) : x \in Range(ss[j])
    BY <1>3
  <2>5. \A j : j \in 1..i <=> j \in 1..(i - 1) \/ j = i
    OBVIOUS
  <2>6. QED
    BY <2>2, <2>3, <2>4, <2>5
<1>4. n \in S
  <2>1. SUFFICES ASSUME n \notin S PROVE FALSE
    OBVIOUS
  <2>2. PICK i \in 1..Len(ss) : i \notin S /\ (i # 1 => i - 1 \in S /\ i - 1 \in 1..Len(ss))
    <3> HIDE DEF S
    <3>1. QED
      BY <1>0, <2>1, FirstMissing
  <2>3. i # 1 => Good(i - 1)
    BY <2>2
  <2>4. ~Good(i)
    BY <2>2
  <2> HIDE DEF Good
  <2>5. QED
    BY <1>2, <1>3, <2>2, <2>3, <2>4
<1>5. QED
  BY <1>4

(* What a flattened sequence of sequences holds. *)
LEMMA FlattenIs ==
  ASSUME NEW T, NEW ss \in Seq(Seq(T))
  PROVE  /\ FlattenSeq(ss) \in Seq(T)
         /\ \A x : x \in Range(FlattenSeq(ss)) <=> \E i \in DOMAIN ss : x \in Range(ss[i])
<1>0. Len(ss) \in Nat /\ DOMAIN ss = 1..Len(ss)
  OBVIOUS
<1>1. CASE Len(ss) = 0
  <2>1. ss = <<>> /\ FlattenSeq(ss) = <<>>
    BY <1>1 DEF FlattenSeq
  <2>2. DOMAIN ss = {} /\ <<>> \in Seq(T)
    BY <1>0, <1>1
  <2>3. QED
    BY <2>1, <2>2 DEF Range
<1>2. CASE Len(ss) > 0
  <2>1. PICK f : Chained(ss, f) /\ FlattenSeq(ss) = f[Len(ss)]
    BY <1>2, FlattenChained
  <2>2. Len(ss) \in 1..Len(ss)
    BY <1>0, <1>2
  <2>3. QED
    <3>1. /\ f[Len(ss)] \in Seq(T)
          /\ \A x : x \in Range(f[Len(ss)]) <=> \E j \in 1..Len(ss) : x \in Range(ss[j])
      <4> DEFINE n == Len(ss)
      <4>1. n \in 1..Len(ss)
        BY <2>2
      <4> HIDE DEF n
      <4>2. /\ f[n] \in Seq(T)
            /\ \A x : x \in Range(f[n]) <=> \E j \in 1..n : x \in Range(ss[j])
        BY <2>1, <4>1, ChainHolds
      <4>3. QED
        BY <4>2 DEF n
    <3>2. QED
      BY <1>0, <2>1, <3>1
<1>3. QED
  BY <1>0, <1>1, <1>2

(* Any two places of the sequence hold a pair of the relation. *)
Pairwise(s, R) == \A i, j \in DOMAIN s : i # j => <<s[i], s[j]>> \in R

(* Everything in s and everything in t are pairs, both ways round. *)
Across(s, t, R) ==
  \A x \in Range(s), y \in Range(t) : <<x, y>> \in R /\ <<y, x>> \in R

(* Joined sequences are pairs throughout if each is and they are pairs     *)
(* across.                                                                 *)
LEMMA JoinPairwise ==
  ASSUME NEW T, NEW s \in Seq(T), NEW t \in Seq(T), NEW R,
         Pairwise(s, R), Pairwise(t, R), Across(s, t, R)
  PROVE  Pairwise(s \o t, R)
<1> DEFINE st == s \o t
<1>1. /\ DOMAIN s = 1..Len(s) /\ DOMAIN t = 1..Len(t) /\ Len(s) \in Nat /\ Len(t) \in Nat
      /\ DOMAIN st = 1..(Len(s) + Len(t))
  OBVIOUS
<1>2. \A i \in DOMAIN s : st[i] = s[i]
  BY <1>1
<1>3. \A i \in DOMAIN st : i \notin DOMAIN s => i - Len(s) \in DOMAIN t /\ st[i] = t[i - Len(s)]
  BY <1>1
<1>4. ASSUME NEW i \in DOMAIN st, NEW j \in DOMAIN st, i # j
      PROVE  <<st[i], st[j]>> \in R
  <2> HIDE DEF st
  <2>1. CASE i \in DOMAIN s /\ j \in DOMAIN s
    BY <1>2, <1>4, <2>1 DEF Pairwise
  <2>2. CASE i \in DOMAIN s /\ j \notin DOMAIN s
    <3>1. st[i] \in Range(s) /\ st[j] \in Range(t)
      BY <1>2, <1>3, <2>2 DEF Range
    <3>2. QED
      BY <3>1 DEF Across
  <2>3. CASE i \notin DOMAIN s /\ j \in DOMAIN s
    <3>1. st[j] \in Range(s) /\ st[i] \in Range(t)
      BY <1>2, <1>3, <2>3 DEF Range
    <3>2. QED
      BY <3>1 DEF Across
  <2>4. CASE i \notin DOMAIN s /\ j \notin DOMAIN s
    <3>1. i - Len(s) # j - Len(s)
      BY <1>1, <1>4
    <3>2. /\ i - Len(s) \in DOMAIN t /\ st[i] = t[i - Len(s)]
          /\ j - Len(s) \in DOMAIN t /\ st[j] = t[j - Len(s)]
      BY <1>3, <2>4
    <3>3. QED
      BY <3>1, <3>2 DEF Pairwise
  <2>5. QED
    BY <2>1, <2>2, <2>3, <2>4
<1>5. QED
  BY <1>4 DEF Pairwise

(* Sequences in pairs with one another stay so when they are flattened. *)
LEMMA FlattenPairwise ==
  ASSUME NEW T, NEW ss \in Seq(Seq(T)), NEW R,
         \A i \in DOMAIN ss : Pairwise(ss[i], R),
         \A i, j \in DOMAIN ss : i # j => Across(ss[i], ss[j], R)
  PROVE  Pairwise(FlattenSeq(ss), R)
<1>0. Len(ss) \in Nat /\ DOMAIN ss = 1..Len(ss) /\ \A i \in 1..Len(ss) : ss[i] \in Seq(T)
  OBVIOUS
<1>1. CASE Len(ss) = 0
  <2>1. FlattenSeq(ss) = ss
    BY <1>1 DEF FlattenSeq
  <2>2. DOMAIN FlattenSeq(ss) = {}
    BY <1>0, <1>1, <2>1
  <2>3. QED
    BY <2>2 DEF Pairwise
<1>2. CASE Len(ss) > 0
  <2>1. PICK f : Chained(ss, f) /\ FlattenSeq(ss) = f[Len(ss)]
    BY <1>2, FlattenChained
  <2> DEFINE n == Len(ss)
             S == {i \in 1..n : Pairwise(f[i], R)}
  <2>2. n \in Nat /\ n \in 1..n
    BY <1>0, <1>2
  <2>3. \A i \in 1..n : f[i] = IF i = 1 THEN ss[i] ELSE f[i - 1] \o ss[i]
    BY <2>1 DEF Chained
  <2>4. 1 \in S
    BY <1>0, <2>2, <2>3
  <2>5. ASSUME NEW i \in 1..n, i # 1, i - 1 \in S, i - 1 \in 1..n
        PROVE  i \in S
    <3>1. f[i] = f[i - 1] \o ss[i] /\ ss[i] \in Seq(T) /\ Pairwise(f[i - 1], R)
      BY <1>0, <2>3, <2>5
    <3>2. Pairwise(ss[i], R)
      BY <1>0
    <3> DEFINE k == i - 1
    <3>3. k \in 1..Len(ss)
      BY <2>5
    <3> HIDE DEF k
    <3>4. /\ f[k] \in Seq(T)
          /\ \A x : x \in Range(f[k]) <=> \E j \in 1..k : x \in Range(ss[j])
      BY <2>1, <3>3, ChainHolds
    <3>5. \A j \in 1..k : j \in DOMAIN ss /\ j # i
      BY <1>0, <3>3 DEF k
    <3>6. Across(f[k], ss[i], R)
      BY <1>0, <3>4, <3>5 DEF Across
    <3>7. Pairwise(f[k] \o ss[i], R)
      BY <3>1, <3>2, <3>4, <3>6, JoinPairwise DEF k
    <3>8. QED
      BY <3>1, <3>7 DEF k
  <2> HIDE DEF S
  <2>6. n \in S
    <3>1. SUFFICES ASSUME n \notin S PROVE FALSE
      OBVIOUS
    <3>2. \E i \in 1..n : i \notin S
      BY <2>2, <3>1
    <3> HIDE DEF n
    <3>3. PICK i \in 1..n : i \notin S /\ (i # 1 => i - 1 \in S /\ i - 1 \in 1..n)
      BY <2>2, <3>2, FirstMissing
    <3>4. QED
      BY <2>4, <2>5, <3>3
  <2>7. QED
    BY <2>1, <2>6 DEF S
<1>3. QED
  BY <1>0, <1>1, <1>2

(* A finite set laid out as a sequence, each member once. *)
LEMMA LaidOut ==
  ASSUME NEW S, IsFiniteSet(S)
  PROVE  /\ SetToSeq(S) \in Seq(S)
         /\ \A i, j \in DOMAIN SetToSeq(S) : SetToSeq(S)[i] = SetToSeq(S)[j] => i = j
<1> DEFINE n == Cardinality(S)
<1>1. n \in Nat /\ ExistsBijection(1..n, S)
  BY FS_CardinalityType
<1>2. \E f \in [1..n -> S] : IsInjective(f)
  BY <1>1 DEF ExistsBijection, Bijection, Injection
<1>3. SetToSeq(S) \in [1..n -> S] /\ IsInjective(SetToSeq(S))
  BY <1>2 DEF SetToSeq
<1> HIDE DEF n
<1>4. SetToSeq(S) \in Seq(S)
  BY <1>1, <1>3
<1>5. QED
  BY <1>3, <1>4 DEF IsInjective

(* Taking out one place: what was before it and after it stays in order. *)
LEMMA RemovedAt ==
  ASSUME NEW T, NEW s \in Seq(T), NEW i \in DOMAIN s
  PROVE  /\ RemoveAt(s, i) \in Seq(T)
         /\ DOMAIN RemoveAt(s, i) = 1..(Len(s) - 1)
         /\ \A j \in 1..(Len(s) - 1) :
              /\ j < i => RemoveAt(s, i)[j] = s[j]
              /\ j >= i => RemoveAt(s, i)[j] = s[j + 1]
<1> DEFINE a == SubSeq(s, 1, i - 1)
           b == SubSeq(s, i + 1, Len(s))
<1>0. Len(s) \in Nat /\ i \in 1..Len(s)
  OBVIOUS
<1>1. a \in Seq(T) /\ Len(a) = i - 1 /\ \A j \in 1..(i - 1) : a[j] = s[j]
  BY <1>0
<1>2. b \in Seq(T) /\ Len(b) = Len(s) - i /\ \A j \in 1..(Len(s) - i) : b[j] = s[i + j]
  BY <1>0
<1>3. RemoveAt(s, i) = a \o b
  BY DEF RemoveAt
<1> HIDE DEF a, b
<1> DEFINE r == a \o b
<1>4. r \in Seq(T) /\ Len(r) = Len(s) - 1
  BY <1>0, <1>1, <1>2
<1>5. ASSUME NEW j \in 1..(Len(s) - 1)
      PROVE  /\ j < i => r[j] = s[j]
             /\ j >= i => r[j] = s[j + 1]
  <2>1. j < i => r[j] = a[j] /\ j \in 1..(i - 1)
    BY <1>0, <1>1, <1>2
  <2>2. j >= i => r[j] = b[j - (i - 1)] /\ j - (i - 1) \in 1..(Len(s) - i)
    BY <1>0, <1>1, <1>2
  <2>3. i + (j - (i - 1)) = j + 1
    BY <1>0
  <2>4. QED
    BY <1>1, <1>2, <2>1, <2>2, <2>3
<1> HIDE DEF r
<1>6. DOMAIN r = 1..(Len(s) - 1)
  BY <1>4
<1>7. QED
  BY <1>3, <1>4, <1>5, <1>6 DEF r

------------------------------------------------------------------------------
(* Machine groups, and what an item does to them *)

(* A set of numbers up to n that has a member has a greatest one. *)
LEMMA MaxIs ==
  ASSUME NEW n \in Nat, NEW S \in SUBSET (0..n), S # {}
  PROVE  Max(S) \in S /\ \A k \in S : k <= Max(S)
<1> DEFINE T == {n - k : k \in S}
<1>1. T \in SUBSET Nat /\ T # {}
  <2>1. \A k \in S : n - k \in Nat
    OBVIOUS
  <2>2. QED
    BY <2>1
<1>2. PICK t \in T : \A u \in T : t <= u
  BY <1>1, LeastMember
<1>3. PICK m \in S : t = n - m
  BY <1>2
<1>4. \A k \in S : n - m <= n - k
  BY <1>2, <1>3
<1>5. \A k \in S : k <= m
  BY <1>4
<1>6. \E x \in S : \A y \in S : x >= y
  BY <1>5
<1>7. QED
  BY <1>6 DEF Max

(* A set of numbers that has a member has a least one. *)
LEMMA MinIs ==
  ASSUME NEW S \in SUBSET Nat, S # {}
  PROVE  Min(S) \in S /\ \A k \in S : Min(S) <= k
  BY LeastMember DEF Min

(* The clamped clock is one a machine can run at. *)
LEMMA ClampIs ==
  ASSUME NEW c \in Nat
  PROVE  Clamp(c) \in MinClock..MaxClock
<1>1. Min({c, MaxClock}) \in {c, MaxClock} /\ Min({c, MaxClock}) <= MaxClock
  BY MinIs DEF MaxClock
<1> DEFINE m == Min({c, MaxClock})
<1>2. m \in Nat /\ m <= MaxClock
  BY <1>1 DEF MaxClock
<1> HIDE DEF m
<1>3. {MinClock, m} \in SUBSET (0..MaxClock) /\ MaxClock \in Nat /\ {MinClock, m} # {}
  BY <1>2 DEF MinClock, MaxClock
<1>4. /\ Max({MinClock, m}) \in {MinClock, m}
      /\ \A k \in {MinClock, m} : k <= Max({MinClock, m})
  BY <1>3, MaxIs
<1>5. Max({MinClock, m}) \in MinClock..MaxClock
  BY <1>2, <1>4 DEF MinClock, MaxClock
<1>6. QED
  BY <1>5 DEF Clamp, m

(* Finitely many numbers have a bound. *)
LEMMA Bounded ==
  ASSUME NEW n \in Nat, NEW f \in [1..n -> Nat]
  PROVE  \E m \in Nat : \A i \in 1..n : f[i] <= m
<1> DEFINE S == {k \in 1..n : \E m \in Nat : \A i \in 1..k : f[i] <= m}
<1>1. CASE n = 0
  BY <1>1
<1>2. CASE n # 0
  <2>1. 1 \in 1..n => 1 \in S
    OBVIOUS
  <2>2. ASSUME NEW k \in 1..n, k - 1 \in S, k - 1 \in 1..n
        PROVE  k \in S
    <3>1. PICK m \in Nat : \A i \in 1..(k - 1) : f[i] <= m
      BY <2>2
    <3>2. PICK l \in Nat : l >= m /\ l >= f[k]
      <4>1. CASE m >= f[k]
        BY <4>1
      <4>2. CASE ~(m >= f[k])
        BY <4>2
      <4>3. QED
        BY <4>1, <4>2
    <3>3. \A i \in 1..k : f[i] <= l
      <4>1. ASSUME NEW i \in 1..k PROVE f[i] <= l
        <5>1. i \in 1..(k - 1) \/ i = k
          OBVIOUS
        <5>2. f[i] \in Nat
          BY <2>2
        <5>3. QED
          BY <3>1, <3>2, <5>1, <5>2
      <4>2. QED
        BY <4>1
    <3>4. QED
      BY <3>3
  <2> HIDE DEF S
  <2>3. n \in S
    <3>1. SUFFICES ASSUME n \notin S PROVE FALSE
      OBVIOUS
    <3>2. \E i \in 1..n : i \notin S
      BY <1>2, <3>1
    <3>3. PICK i \in 1..n : i \notin S /\ (i # 1 => i - 1 \in S /\ i - 1 \in 1..n)
      BY <3>2, FirstMissing
    <3>4. QED
      BY <2>1, <2>2, <3>3
  <2>4. QED
    BY <2>3 DEF S
<1>3. QED
  BY <1>1, <1>2

------------------------------------------------------------------------------
(* Groups *)

(* The places of a list of groups. *)
LEMMA Places ==
  ASSUME NEW gs \in Seq(Group)
  PROVE  /\ Len(gs) \in Nat /\ DOMAIN gs = 1..Len(gs)
         /\ \A i \in DOMAIN gs : gs[i] \in Group
         /\ \A k : At(gs, k) \in SUBSET DOMAIN gs
  BY DEF At

(* A new group's id is a number. *)
LEMMA NextIdIs ==
  ASSUME NEW gs \in Seq(Group)
  PROVE  NextId(gs) \in Nat
<1> DEFINE f == [i \in 1..Len(gs) |-> gs[i].id]
           ids == {g.id : g \in Range(gs)} \cup {0}
<1>1. Len(gs) \in Nat /\ \A i \in 1..Len(gs) : gs[i].id \in Nat
  BY Places DEF Group
<1>2. PICK m \in Nat : \A i \in 1..Len(gs) : f[i] <= m
  BY <1>1, Bounded
<1>3. ids \in SUBSET (0..m) /\ ids # {}
  BY <1>1, <1>2, Places DEF Range
<1>4. \A x \in ids : x \in Nat
  BY <1>3
<1> HIDE DEF ids, f
<1>5. Max(ids) \in Nat
  BY <1>3, <1>4, MaxIs
<1>6. QED
  BY <1>5 DEF NextId, ids

Grouped(op) == op.do \in {"update", "retune"}

\* What the game said of a group.
Said(g) == <<Key(g), g.count, g.clock>>

\* The key of the group an item is about, and the one it leaves it.
SrcKey(op) == <<op.machine, op.recipe>>
DstKey(op) == <<op.machine, op.to>>

(* A group as an import writes it. *)
LEMMA BuiltGroupIs ==
  ASSUME NEW sg, sg.machine \in Machine, sg.recipe \in Recipe, sg.count \in Nat,
         sg.clock \in Nat, NEW id \in Nat
  PROVE  /\ BuiltGroup(sg, id) \in Group
         /\ Key(BuiltGroup(sg, id)) = <<sg.machine, sg.recipe>>
         /\ ~BuiltGroup(sg, id).planned
         /\ BuiltGroup(sg, id).count = sg.count
         /\ BuiltGroup(sg, id).clock = Clamp(sg.clock)
  BY ClampIs DEF BuiltGroup, Group, Key, Unedited

(* A synced group takes the save's values; the user's stay unless he took  *)
(* the save's side.                                                        *)
LEMMA SyncedIs ==
  ASSUME NEW g \in Group, NEW op \in Op, NEW take \in BOOLEAN
  PROVE  /\ Synced(g, op, take) \in Group
         /\ Key(Synced(g, op, take)) = <<g.machine, op.to>>
         /\ Synced(g, op, take).planned = g.planned
         /\ Synced(g, op, take).count = op.count
         /\ Synced(g, op, take).clock = Clamp(op.clock)
         /\ ~take => Carries(Synced(g, op, take), g)
<1> DEFINE at == [g EXCEPT !.recipe = op.to, !.count = op.count, !.clock = Clamp(op.clock)]
           h == Synced(g, op, take)
<1>1. /\ op.to \in Recipe /\ op.count \in Nat /\ Clamp(op.clock) \in MinClock..MaxClock
  BY ClampIs DEF Op
<1>2. /\ at \in Group /\ at.id = g.id /\ at.machine = g.machine /\ at.recipe = op.to
      /\ at.mineCount = g.mineCount /\ at.mineClock = g.mineClock
      /\ at.planned = g.planned /\ at.count = op.count /\ at.clock = Clamp(op.clock)
  BY <1>1 DEF Group
<1> HIDE DEF at
<1>3. CASE take
  <2>1. h = [at EXCEPT !.mineCount = Unedited, !.mineClock = Unedited]
    BY <1>3 DEF Synced, at
  <2> HIDE DEF h
  <2>2. /\ DOMAIN at = DOMAIN h /\ h.machine = at.machine /\ h.recipe = at.recipe
        /\ h.planned = at.planned /\ h.count = at.count /\ h.clock = at.clock
    BY <1>2, <2>1 DEF Group
  <2>3. h \in Group
    BY <1>2, <2>1 DEF Group, Unedited
  <2>4. QED
    BY <1>2, <1>3, <2>2, <2>3 DEF Key, h
<1>4. CASE ~take
  <2>1. h = Dissolved(at)
    BY <1>4 DEF Synced, at
  <2> HIDE DEF h
  <2>2. /\ h.machine = at.machine /\ h.recipe = at.recipe /\ h.id = at.id
        /\ h.count = at.count /\ h.clock = at.clock /\ h.planned = at.planned
    BY <1>2, <2>1 DEF Group, Dissolved
  <2>t. h \in Group
    BY <1>2, <2>1 DEF Group, Dissolved, Unedited
  <2>3. /\ at.mineCount = at.count => h.mineCount = Unedited
        /\ at.mineCount # at.count => h.mineCount = at.mineCount
        /\ at.mineClock = at.clock => h.mineClock = Unedited
        /\ at.mineClock # at.clock => h.mineClock = at.mineClock
    BY <1>2, <2>1 DEF Group, Dissolved
  <2>4. g.mineCount # Unedited => EffectiveCount(h) = g.mineCount
    BY <1>2, <2>2, <2>3 DEF EffectiveCount
  <2>5. g.mineClock # Unedited => EffectiveClock(h) = g.mineClock
    BY <1>2, <2>2, <2>3 DEF EffectiveClock
  <2>6. QED
    BY <1>2, <2>2, <2>t, <2>4, <2>5 DEF Key, Carries, h
<1>5. QED
  BY <1>3, <1>4

(* The place the first group of a key has. *)
LEMMA FirstPlace ==
  ASSUME NEW gs \in Seq(Group), NEW k, At(gs, k) # {}
  PROVE  Min(At(gs, k)) \in DOMAIN gs /\ Key(gs[Min(At(gs, k))]) = k
<1>1. At(gs, k) \in SUBSET Nat
  BY Places
<1>2. Min(At(gs, k)) \in At(gs, k)
  BY <1>1, MinIs
<1>3. QED
  BY <1>2 DEF At

(* What an accepted item does to the groups of its factory: one is synced, *)
(* taken out or added, or nothing happens.                                 *)
SyncsOne(gs, op, take, new) ==
  \E i \in DOMAIN gs :
    /\ Key(gs[i]) = <<op.machine, op.recipe>>
    /\ op.do = "retune" \/ op.count > 0
    /\ new = [gs EXCEPT ![i] = Synced(gs[i], op, take)]

DropsOne(gs, op, new) ==
  \E i \in DOMAIN gs :
    /\ Key(gs[i]) = <<op.machine, op.recipe>>
    /\ op.do = "update" /\ op.count = 0
    /\ new = RemoveAt(gs, i)

AddsOne(gs, op, new) ==
  /\ op.do = "update" /\ op.count > 0
  /\ At(gs, SrcKey(op)) = {}
  /\ \E g \in Group :
       /\ ~g.planned
       /\ Said(g) = <<SrcKey(op), op.count, Clamp(op.clock)>>
       /\ new = Append(gs, g)

LeavesAll(gs, op, new) ==
  /\ new = gs
  /\ Grouped(op) => At(gs, SrcKey(op)) = {} /\ ~(op.do = "update" /\ op.count > 0)

(* An accepted item does one of those things to the groups of its factory. *)
LEMMA SyncGroupsIs ==
  ASSUME NEW gs \in Seq(Group), NEW op \in Op, NEW take
  PROVE  LET new == SyncGroups(gs, op, take)
         IN  \/ SyncsOne(gs, op, take, new)
             \/ DropsOne(gs, op, new)
             \/ AddsOne(gs, op, new)
             \/ LeavesAll(gs, op, new)
<1> DEFINE at  == At(gs, <<op.machine, op.recipe>>)
           sg == [machine |-> op.machine, recipe |-> op.recipe,
                  count |-> op.count, clock |-> op.clock]
           new == SyncGroups(gs, op, take)
<1>1. CASE at # {} /\ (op.do = "retune" \/ op.count > 0)
  <2>0. op.count \in Nat
    BY DEF Op
  <2> DEFINE one == [gs EXCEPT ![Min(at)] = Synced(@, op, take)]
  <2>a. new = one
    BY <1>1, <2>0 DEF SyncGroups
  <2>1. new = [gs EXCEPT ![Min(at)] = Synced(gs[Min(at)], op, take)]
    BY <2>a, Zenon
  <2>2. Min(at) \in DOMAIN gs /\ Key(gs[Min(at)]) = <<op.machine, op.recipe>>
    BY <1>1, FirstPlace
  <2>3. QED
    BY <1>1, <2>1, <2>2 DEF SyncsOne
<1>2. CASE at # {} /\ op.do = "update" /\ op.count = 0
  <2>1. new = RemoveAt(gs, Min(at))
    BY <1>2 DEF SyncGroups
  <2>2. Min(at) \in DOMAIN gs /\ Key(gs[Min(at)]) = <<op.machine, op.recipe>>
    BY <1>2, FirstPlace
  <2>3. QED
    BY <1>2, <2>1, <2>2 DEF DropsOne
<1>3. CASE at = {} /\ op.do = "update" /\ op.count > 0
  <2>1. new = Append(gs, BuiltGroup(sg, NextId(gs)))
    BY <1>3 DEF SyncGroups
  <2>2. /\ sg.machine \in Machine /\ sg.recipe \in Recipe /\ sg.count \in Nat
        /\ sg.clock \in Nat
    BY DEF Op
  <2> HIDE DEF sg
  <2> DEFINE g == BuiltGroup(sg, NextId(gs))
  <2>3. /\ g \in Group /\ ~g.planned /\ Key(g) = <<sg.machine, sg.recipe>>
        /\ g.count = sg.count /\ g.clock = Clamp(sg.clock)
    BY <2>2, NextIdIs, BuiltGroupIs
  <2> HIDE DEF g
  <2>4. Said(g) = <<SrcKey(op), op.count, Clamp(op.clock)>>
    BY <2>3 DEF Said, SrcKey, sg
  <2>5. QED
    BY <1>3, <2>1, <2>3, <2>4 DEF AddsOne, SrcKey, g
<1>4. CASE /\ ~(at # {} /\ (op.do = "retune" \/ op.count > 0))
           /\ ~(at # {} /\ op.do = "update" /\ op.count = 0)
           /\ ~(at = {} /\ op.do = "update" /\ op.count > 0)
  <2>1. new = gs
    BY <1>4 DEF SyncGroups
  <2>2. op.count \in Nat
    BY DEF Op
  <2>3. Grouped(op) => at = {} /\ ~(op.do = "update" /\ op.count > 0)
    BY <1>4, <2>2 DEF Grouped
  <2>4. QED
    BY <2>1, <2>3 DEF LeavesAll, SrcKey
<1>5. QED
  BY <1>1, <1>2, <1>3, <1>4

(* The groups stay groups. *)
LEMMA SyncGroupsTyped ==
  ASSUME NEW gs \in Seq(Group), NEW op \in Op, NEW take \in BOOLEAN
  PROVE  SyncGroups(gs, op, take) \in Seq(Group)
<1> DEFINE new == SyncGroups(gs, op, take)
<1>0. SyncsOne(gs, op, take, new) \/ DropsOne(gs, op, new) \/ AddsOne(gs, op, new) \/ LeavesAll(gs, op, new)
  BY SyncGroupsIs
<1> HIDE DEF new
<1>1. CASE SyncsOne(gs, op, take, new)
  <2>1. PICK i \in DOMAIN gs : new = [gs EXCEPT ![i] = Synced(gs[i], op, take)]
    BY <1>1 DEF SyncsOne
  <2>2. gs[i] \in Group
    BY Places
  <2>3. Synced(gs[i], op, take) \in Group
    BY <2>2, SyncedIs
  <2>4. QED
    BY <2>1, <2>3 DEF new
<1>2. CASE DropsOne(gs, op, new)
  BY <1>2, RemovedAt DEF DropsOne, new
<1>3. CASE AddsOne(gs, op, new)
  BY <1>3 DEF AddsOne, new
<1>4. QED
  BY <1>0, <1>1, <1>2, <1>3 DEF new, LeavesAll

------------------------------------------------------------------------------
(* The built layer *)

(* A set of numbers from 0 to n that is not all of them misses a first.    *)
LEMMA FirstMissingFrom0 ==
  ASSUME NEW n \in Nat, NEW S, \E i \in 0..n : i \notin S
  PROVE  \E i \in 0..n : i \notin S /\ (i # 0 => i - 1 \in S /\ i - 1 \in 0..n)
<1> DEFINE R == {i \in 0..n : i \notin S}
<1>1. R \in SUBSET Nat /\ R # {}
  OBVIOUS
<1>2. PICK i \in R : \A k \in R : i <= k
  BY <1>1, LeastMember
<1>3. i # 0 => i - 1 \in 0..n
  OBVIOUS
<1>4. i - 1 \in 0..n => i - 1 \in S
  BY <1>2
<1>5. QED
  BY <1>3, <1>4

(* A built layer: factories at sites, each with a list of groups. *)
Layer(b) ==
  /\ DOMAIN b \subseteq Site
  /\ \A s \in DOMAIN b : b[s] \in Seq(Group)

(* What the first import or an accepted creation writes is well formed. *)
LEMMA WrittenIs ==
  ASSUME NEW c \in Seq(SaveGroup)
  PROVE  Written(c) \in Seq(Group) /\ \A i \in DOMAIN Written(c) : ~Written(c)[i].planned
<1>1. Len(c) \in Nat /\ DOMAIN c = 1..Len(c) /\ \A i \in 1..Len(c) : c[i] \in SaveGroup
  OBVIOUS
<1>2. ASSUME NEW i \in 1..Len(c)
      PROVE  BuiltGroup(c[i], i) \in Group /\ ~BuiltGroup(c[i], i).planned
  <2>1. /\ c[i].machine \in Machine /\ c[i].recipe \in Recipe /\ c[i].count \in Nat
        /\ c[i].clock \in Nat
    BY <1>1 DEF SaveGroup
  <2>2. i \in Nat
    OBVIOUS
  <2>3. QED
    BY <2>1, <2>2, BuiltGroupIs
<1>3. Written(c) \in [1..Len(c) -> Group]
  BY <1>1, <1>2 DEF Written
<1>4. \A i \in 1..Len(c) : Written(c)[i] = BuiltGroup(c[i], i)
  BY <1>1 DEF Written
<1>5. DOMAIN Written(c) = 1..Len(c)
  BY <1>3
<1>6. Written(c) \in Seq(Group)
  BY <1>1, <1>3
<1>7. QED
  BY <1>2, <1>4, <1>5, <1>6

(* The factories and their groups after one item. *)
LEMMA ApplySyncIs ==
  ASSUME NEW b, Layer(b), NEW op \in Op, NEW take \in BOOLEAN
  PROVE  LET new == ApplySync(b, op, take)
         IN  /\ op.do = "create" =>
                  /\ DOMAIN new = DOMAIN b \cup {op.site}
                  /\ new[op.site] = Written(op.cluster)
                  /\ \A s \in DOMAIN b : s # op.site => new[s] = b[s]
             /\ op.do = "remove" =>
                  /\ DOMAIN new = DOMAIN b \ {op.site}
                  /\ \A s \in DOMAIN new : new[s] = b[s]
             /\ op.do \in {"update", "retune"} =>
                  /\ DOMAIN new = DOMAIN b
                  /\ \A s \in DOMAIN b : s # op.site => new[s] = b[s]
                  /\ op.site \in DOMAIN b =>
                       new[op.site] = SyncGroups(b[op.site], op, take)
<1> DEFINE new == ApplySync(b, op, take)
<1>1. CASE op.do = "create"
  <2>1. new = [s \in DOMAIN b \cup {op.site} |-> IF s = op.site THEN Written(op.cluster) ELSE b[s]]
    BY <1>1 DEF ApplySync
  <2>2. QED
    BY <1>1, <2>1
<1>2. CASE op.do = "remove"
  <2>1. new = Restrict(b, DOMAIN b \ {op.site})
    BY <1>2 DEF ApplySync
  <2>2. QED
    BY <1>2, <2>1 DEF Restrict
<1>3. CASE op.do \in {"update", "retune"}
  <2>1. CASE op.site \in DOMAIN b
    <3>1. new = [b EXCEPT ![op.site] = SyncGroups(@, op, take)]
      BY <1>3, <2>1 DEF ApplySync
    <3>2. QED
      BY <1>3, <2>1, <3>1
  <2>2. CASE op.site \notin DOMAIN b
    <3>1. new = b
      BY <1>3, <2>2 DEF ApplySync
    <3>2. QED
      BY <1>3, <2>2, <3>1
  <2>3. QED
    BY <2>1, <2>2
<1>4. op.do \in {"update", "retune", "create", "remove"}
  BY DEF Op
<1>5. QED
  BY <1>1, <1>2, <1>3, <1>4

(* An accepted item leaves a built layer. *)
LEMMA ApplySyncLayer ==
  ASSUME NEW b, Layer(b), NEW op \in Op, NEW take \in BOOLEAN
  PROVE  Layer(ApplySync(b, op, take))
<1> DEFINE new == ApplySync(b, op, take)
<1>1. /\ op.do \in {"update", "retune", "create", "remove"}
      /\ op.site \in Site /\ op.cluster \in Seq(SaveGroup)
  BY DEF Op
<1>2. CASE op.do = "create"
  <2>1. /\ DOMAIN new = DOMAIN b \cup {op.site}
        /\ new[op.site] = Written(op.cluster)
        /\ \A s \in DOMAIN b : s # op.site => new[s] = b[s]
    BY <1>2, ApplySyncIs
  <2>2. Written(op.cluster) \in Seq(Group)
    BY <1>1, WrittenIs
  <2> HIDE DEF new
  <2>3. QED
    BY <1>1, <2>1, <2>2 DEF Layer, new
<1>3. CASE op.do = "remove"
  <2>1. /\ DOMAIN new = DOMAIN b \ {op.site}
        /\ \A s \in DOMAIN new : new[s] = b[s]
    <3>1. new = Restrict(b, DOMAIN b \ {op.site})
      BY <1>3 DEF ApplySync
    <3>2. QED
      BY <3>1 DEF Restrict
  <2> HIDE DEF new
  <2>2. QED
    BY <2>1 DEF Layer, new
<1>4. CASE op.do \in {"update", "retune"}
  <2>1. /\ DOMAIN new = DOMAIN b
        /\ \A s \in DOMAIN b : s # op.site => new[s] = b[s]
        /\ op.site \in DOMAIN b => new[op.site] = SyncGroups(b[op.site], op, take)
    BY <1>4, ApplySyncIs
  <2>2. op.site \in DOMAIN b => SyncGroups(b[op.site], op, take) \in Seq(Group)
    BY SyncGroupsTyped DEF Layer
  <2> HIDE DEF new
  <2>3. QED
    BY <2>1, <2>2 DEF Layer, new
<1>5. QED
  BY <1>1, <1>2, <1>3, <1>4

------------------------------------------------------------------------------
(* The included items, one after the other *)

(* after[i]: the built layer once the first i items have been gone through. *)
After(b, items, after, n) ==
  after = [i \in 0..n |->
             IF i = 0 THEN b
             ELSE IF items[i].included
             THEN ApplySync(after[i - 1], items[i].op, items[i].side = "theirs")
             ELSE after[i - 1]]

(* Its two kinds of step. *)
LEMMA AfterSteps ==
  ASSUME NEW b, NEW items, NEW n \in Nat, NEW f, After(b, items, f, n)
  PROVE  /\ DOMAIN f = 0..n
         /\ f[0] = b
         /\ \A i \in 1..n :
              /\ items[i].included =>
                   f[i] = ApplySync(f[i - 1], items[i].op, items[i].side = "theirs")
              /\ ~items[i].included => f[i] = f[i - 1]
<1>1. /\ DOMAIN f = 0..n
      /\ \A i \in 0..n :
           f[i] = IF i = 0 THEN b
                  ELSE IF items[i].included
                  THEN ApplySync(f[i - 1], items[i].op, items[i].side = "theirs")
                  ELSE f[i - 1]
  BY DEF After
<1>2. 0 \in 0..n /\ \A i \in 1..n : i \in 0..n /\ i # 0
  OBVIOUS
<1>3. QED
  BY <1>1, <1>2

(* There is such a function: ApplyIncluded chooses one. *)
LEMMA AfterExists ==
  ASSUME NEW b, NEW items, NEW n \in Nat
  PROVE  \E f : After(b, items, f, n)
<1> DEFINE S == {m \in 0..n : \E f : After(b, items, f, m)}
<1>1. 0 \in S
  <2> DEFINE f == [i \in {0} |-> b]
  <2>1. After(b, items, f, 0)
    BY DEF After
  <2>2. QED
    BY <2>1
<1>2. ASSUME NEW m \in 0..n, m - 1 \in S, m # 0
      PROVE  m \in S
  <2>1. PICK f : After(b, items, f, m - 1)
    BY <1>2
  <2> DEFINE last1 == IF items[m].included
                      THEN ApplySync(f[m - 1], items[m].op, items[m].side = "theirs")
                      ELSE f[m - 1]
             g == [i \in 0..m |-> IF i = m THEN last1 ELSE f[i]]
  <2>2. m - 1 \in Nat
    BY <1>2
  <2>3. /\ DOMAIN f = 0..(m - 1)
        /\ \A i \in 0..(m - 1) :
             f[i] = IF i = 0 THEN b
                    ELSE IF items[i].included
                    THEN ApplySync(f[i - 1], items[i].op, items[i].side = "theirs")
                    ELSE f[i - 1]
    BY <2>1 DEF After
  <2>4. ASSUME NEW i \in 0..m
        PROVE  g[i] = IF i = 0 THEN b
                      ELSE IF items[i].included
                      THEN ApplySync(g[i - 1], items[i].op, items[i].side = "theirs")
                      ELSE g[i - 1]
    <3>1. CASE i = m
      <4>1. i # 0 /\ i - 1 \in 0..m /\ i - 1 # m
        BY <1>2, <3>1
      <4>2. g[i - 1] = f[m - 1] /\ g[i] = last1
        BY <3>1, <4>1
      <4>3. QED
        BY <3>1, <4>1, <4>2
    <3>2. CASE i # m
      <4>1. i \in 0..(m - 1) /\ g[i] = f[i]
        BY <3>2
      <4>2. i # 0 => i - 1 \in 0..m /\ i - 1 # m
        BY <3>2
      <4>3. i # 0 => g[i - 1] = f[i - 1]
        BY <4>2
      <4> HIDE DEF g
      <4>4. QED
        BY <2>3, <4>1, <4>3
    <3>3. QED
      BY <3>1, <3>2
  <2>5. After(b, items, g, m)
    BY <2>4 DEF After
  <2>6. QED
    BY <2>5
<1> HIDE DEF S
<1>3. n \in S
  <2>1. SUFFICES ASSUME n \notin S PROVE FALSE
    OBVIOUS
  <2>2. \E i \in 0..n : i \notin S
    BY <2>1
  <2>3. PICK i \in 0..n : i \notin S /\ (i # 0 => i - 1 \in S /\ i - 1 \in 0..n)
    BY <2>2, FirstMissingFrom0
  <2>4. QED
    BY <1>1, <1>2, <2>3
<1>4. QED
  BY <1>3 DEF S

(* Accepting runs through all items. *)
LEMMA AppliedIs ==
  ASSUME NEW b, NEW p, Len(p.items) \in Nat
  PROVE  \E f : /\ After(b, p.items, f, Len(p.items))
                /\ ApplyIncluded(b, p) = f[Len(p.items)]
<1> DEFINE f == CHOOSE f : After(b, p.items, f, Len(p.items))
<1>1. After(b, p.items, f, Len(p.items))
  BY AfterExists
<1>2. ApplyIncluded(b, p) = f[Len(p.items)]
  BY DEF ApplyIncluded, After
<1>3. QED
  BY <1>1, <1>2

(* At each stage there is a built layer. *)
LEMMA AfterLayer ==
  ASSUME NEW b, Layer(b), NEW items \in Seq(Item), NEW f,
         After(b, items, f, Len(items)), NEW n \in 0..Len(items)
  PROVE  Layer(f[n])
<1> DEFINE S == {i \in 0..Len(items) : Layer(f[i])}
<1>0. Len(items) \in Nat /\ \A i \in 1..Len(items) : items[i] \in Item
  OBVIOUS
<1>1. 0 \in S
  <2> DEFINE n1 == Len(items)
  <2> HIDE DEF n1
  <2>0. n1 \in Nat /\ After(b, items, f, n1)
    BY <1>0 DEF n1
  <2>1. f[0] = b
    BY <2>0, AfterSteps
  <2>2. QED
    BY <1>0, <2>1
<1>2. ASSUME NEW i \in 0..Len(items), i - 1 \in S, i # 0
      PROVE  i \in S
  <2>1. i \in 1..Len(items)
    BY <1>2
  <2>2. items[i].op \in Op /\ (items[i].side = "theirs") \in BOOLEAN
    BY <1>0, <2>1 DEF Item
  <2>3. CASE items[i].included
    <3>1. f[i] = ApplySync(f[i - 1], items[i].op, items[i].side = "theirs")
      BY <1>0, <2>1, <2>3, AfterSteps
    <3>2. Layer(f[i - 1])
      BY <1>2
    <3>3. Layer(f[i])
      BY <2>2, <3>1, <3>2, ApplySyncLayer
    <3>4. QED
      BY <3>3
  <2>4. CASE ~items[i].included
    <3>1. f[i] = f[i - 1]
      BY <1>0, <2>1, <2>4, AfterSteps
    <3>2. QED
      BY <1>2, <3>1
  <2>5. QED
    BY <2>3, <2>4
<1> HIDE DEF S
<1>3. n \in S
  <2>1. SUFFICES ASSUME n \notin S PROVE FALSE
    OBVIOUS
  <2>2. \E i \in 0..Len(items) : i \notin S
    BY <2>1
  <2>3. PICK i \in 0..Len(items) : i \notin S /\ (i # 0 => i - 1 \in S /\ i - 1 \in 0..Len(items))
    BY <1>0, <2>2, FirstMissingFrom0
  <2>4. QED
    BY <1>1, <1>2, <2>3
<1>4. QED
  BY <1>3 DEF S

------------------------------------------------------------------------------
(* No two built groups of one key *)

\* The places of built groups, and their keys.
BuiltAt(gs) == {i \in DOMAIN gs : ~gs[i].planned}

BuiltKeys(gs) == {Key(gs[i]) : i \in BuiltAt(gs)}

(* No two built groups of a factory have one key.                          *)
Apart(gs) == \A i, j \in BuiltAt(gs) : Key(gs[i]) = Key(gs[j]) => i = j

(* Built groups stay apart if at most one of them gets a key, its own or   *)
(* one that no other has.                                                  *)
LEMMA RekeyedApart ==
  ASSUME NEW gs, NEW i \in DOMAIN gs, NEW h, h.planned = gs[i].planned, Apart(gs),
         Key(h) = Key(gs[i]) \/ Key(h) \notin BuiltKeys(gs)
  PROVE  /\ Apart([gs EXCEPT ![i] = h])
         /\ \A k \in BuiltKeys([gs EXCEPT ![i] = h]) : k \in BuiltKeys(gs) \/ k = Key(h)
<1> DEFINE new == [gs EXCEPT ![i] = h]
<1>1. /\ DOMAIN new = DOMAIN gs /\ new[i] = h
      /\ \A j \in DOMAIN gs : j # i => new[j] = gs[j]
  OBVIOUS
<1> HIDE DEF new
<1>2. BuiltAt(new) = BuiltAt(gs)
  BY <1>1 DEF BuiltAt
<1>3. \A j \in BuiltAt(gs) : j \in DOMAIN gs /\ Key(gs[j]) \in BuiltKeys(gs)
  BY DEF BuiltAt, BuiltKeys
<1>4. ASSUME NEW j \in BuiltAt(gs), NEW k \in BuiltAt(gs), Key(new[j]) = Key(new[k])
      PROVE  j = k
  <2>1. CASE j # i /\ k # i
    BY <1>1, <1>3, <1>4, <2>1 DEF Apart
  <2>2. CASE j = i /\ k # i
    BY <1>1, <1>3, <1>4, <2>2 DEF Apart
  <2>3. CASE j # i /\ k = i
    BY <1>1, <1>3, <1>4, <2>3 DEF Apart
  <2>4. QED
    BY <2>1, <2>2, <2>3
<1>5. \A j \in BuiltAt(gs) : Key(new[j]) \in BuiltKeys(gs) \/ Key(new[j]) = Key(h)
  BY <1>1, <1>3
<1>6. QED
  BY <1>2, <1>4, <1>5 DEF Apart, BuiltKeys, new

(* They stay apart when one is taken out ... *)
LEMMA RemovedApart ==
  ASSUME NEW gs \in Seq(Group), NEW i \in DOMAIN gs, Apart(gs)
  PROVE  /\ Apart(RemoveAt(gs, i))
         /\ BuiltKeys(RemoveAt(gs, i)) \subseteq BuiltKeys(gs)
<1> DEFINE new == RemoveAt(gs, i)
           n == Len(gs)
           was(j) == IF j < i THEN j ELSE j + 1
<1>1. n \in Nat /\ DOMAIN gs = 1..n /\ i \in 1..n
  OBVIOUS
<1>2. /\ DOMAIN new = 1..(n - 1)
      /\ \A j \in 1..(n - 1) : /\ j < i => new[j] = gs[j]
                               /\ j >= i => new[j] = gs[j + 1]
  BY RemovedAt
<1> HIDE DEF new, n
<1>3. \A j \in 1..(n - 1) : was(j) \in DOMAIN gs /\ new[j] = gs[was(j)]
  BY <1>1, <1>2
<1>4. \A j, k \in 1..(n - 1) : was(j) = was(k) => j = k
  BY <1>1
<1> HIDE DEF was
<1>5. \A j \in BuiltAt(new) : j \in 1..(n - 1) /\ was(j) \in BuiltAt(gs) /\ new[j] = gs[was(j)]
  BY <1>2, <1>3 DEF BuiltAt
<1>6. Apart(new)
  BY <1>4, <1>5 DEF Apart
<1>7. BuiltKeys(new) \subseteq BuiltKeys(gs)
  BY <1>5 DEF BuiltKeys
<1>8. QED
  BY <1>6, <1>7 DEF new

(* ... and when one is added that is planned or has a key of its own. *)
LEMMA AppendedApart ==
  ASSUME NEW gs \in Seq(Group), NEW g, Apart(gs), g.planned \/ Key(g) \notin BuiltKeys(gs)
  PROVE  /\ Apart(Append(gs, g))
         /\ \A k \in BuiltKeys(Append(gs, g)) : k \in BuiltKeys(gs) \/ (~g.planned /\ k = Key(g))
<1> DEFINE new == Append(gs, g)
           n == Len(gs)
<1>1. /\ n \in Nat /\ DOMAIN gs = 1..n /\ DOMAIN new = 1..(n + 1)
      /\ new[n + 1] = g /\ \A j \in 1..n : new[j] = gs[j]
  OBVIOUS
<1> HIDE DEF new, n
<1>2. ASSUME NEW j \in BuiltAt(new)
      PROVE  \/ j = n + 1 /\ new[j] = g /\ ~g.planned
             \/ j \in BuiltAt(gs) /\ new[j] = gs[j] /\ Key(gs[j]) \in BuiltKeys(gs)
  <2>1. j \in 1..n \/ j = n + 1
    BY <1>1 DEF BuiltAt
  <2>2. CASE j \in 1..n
    BY <1>1, <2>2 DEF BuiltAt, BuiltKeys
  <2>3. CASE j = n + 1
    BY <1>1, <2>3 DEF BuiltAt
  <2>4. QED
    BY <2>1, <2>2, <2>3
<1>3. ASSUME NEW j \in BuiltAt(new), NEW k \in BuiltAt(new), Key(new[j]) = Key(new[k])
      PROVE  j = k
  BY <1>2, <1>3 DEF Apart
<1>4. \A k \in BuiltKeys(new) : k \in BuiltKeys(gs) \/ (~g.planned /\ k = Key(g))
  BY <1>2 DEF BuiltKeys
<1>5. QED
  BY <1>3, <1>4 DEF Apart, new

(* What an item writes: the key it leaves its group is its own or one that *)
(* no built group has.                                                     *)
Aimed(op, gs) ==
  /\ op.do = "update" => op.to = op.recipe
  /\ DstKey(op) = SrcKey(op) \/ DstKey(op) \notin BuiltKeys(gs)

(* Such an item leaves the built groups apart. *)
LEMMA SyncApart ==
  ASSUME NEW gs \in Seq(Group), NEW op \in Op, NEW take \in BOOLEAN, Aimed(op, gs), Apart(gs)
  PROVE  /\ Apart(SyncGroups(gs, op, take))
         /\ \A k \in BuiltKeys(SyncGroups(gs, op, take)) :
              k \in BuiltKeys(gs) \cup {SrcKey(op), DstKey(op)}
<1> DEFINE new == SyncGroups(gs, op, take)
<1>1. \/ SyncsOne(gs, op, take, new) \/ DropsOne(gs, op, new)
      \/ AddsOne(gs, op, new) \/ LeavesAll(gs, op, new)
  BY SyncGroupsIs
<1> HIDE DEF new
<1>2. CASE SyncsOne(gs, op, take, new)
  <2>1. PICK i \in DOMAIN gs : /\ Key(gs[i]) = SrcKey(op)
                               /\ new = [gs EXCEPT ![i] = Synced(gs[i], op, take)]
    BY <1>2 DEF SyncsOne, SrcKey
  <2> DEFINE h == Synced(gs[i], op, take)
  <2>2. gs[i] \in Group
    BY Places
  <2>3. h.planned = gs[i].planned /\ Key(h) = <<gs[i].machine, op.to>>
    BY <2>2, SyncedIs
  <2>4. gs[i].machine = op.machine
    BY <2>1 DEF Key, SrcKey
  <2> HIDE DEF h
  <2>5. Key(h) = DstKey(op)
    BY <2>3, <2>4 DEF DstKey
  <2>6. Key(h) = Key(gs[i]) \/ Key(h) \notin BuiltKeys(gs)
    BY <2>1, <2>5 DEF Aimed
  <2>7. new = [gs EXCEPT ![i] = h]
    BY <2>1 DEF h
  <2>8. QED
    BY <2>3, <2>5, <2>6, <2>7, RekeyedApart DEF new
<1>3. CASE DropsOne(gs, op, new)
  BY <1>3, RemovedApart DEF DropsOne, new
<1>4. CASE AddsOne(gs, op, new)
  <2>1. PICK g \in Group : /\ ~g.planned
                           /\ Said(g) = <<SrcKey(op), op.count, Clamp(op.clock)>>
                           /\ new = Append(gs, g)
    BY <1>4 DEF AddsOne
  <2>2. Key(g) = SrcKey(op)
    BY <2>1 DEF Said
  <2>3. Key(g) \notin BuiltKeys(gs)
    BY <1>4, <2>2 DEF AddsOne, BuiltKeys, BuiltAt, At
  <2>4. QED
    BY <2>1, <2>2, <2>3, AppendedApart DEF new
<1>5. CASE LeavesAll(gs, op, new)
  BY <1>5 DEF LeavesAll, new
<1>6. QED
  BY <1>1, <1>2, <1>3, <1>4, <1>5

KeysOnce(c) == \A i, j \in DOMAIN c : Key(c[i]) = Key(c[j]) => i = j

(* An import writes the groups of a save apart.                            *)
LEMMA WrittenApart ==
  ASSUME NEW c \in Seq(SaveGroup), KeysOnce(c)
  PROVE  Apart(Written(c))
<1>1. Len(c) \in Nat /\ DOMAIN c = 1..Len(c) /\ \A i \in 1..Len(c) : c[i] \in SaveGroup
  OBVIOUS
<1>2. DOMAIN Written(c) = DOMAIN c /\ \A i \in DOMAIN c : Written(c)[i] = BuiltGroup(c[i], i)
  BY DEF Written
<1>3. ASSUME NEW i \in DOMAIN c PROVE Key(Written(c)[i]) = Key(c[i])
  <2>1. /\ c[i].machine \in Machine /\ c[i].recipe \in Recipe /\ c[i].count \in Nat
        /\ c[i].clock \in Nat /\ i \in Nat
    BY <1>1 DEF SaveGroup
  <2>2. Key(BuiltGroup(c[i], i)) = <<c[i].machine, c[i].recipe>>
    BY <2>1, BuiltGroupIs
  <2>3. QED
    BY <1>2, <2>2 DEF Key
<1>4. QED
  BY <1>2, <1>3 DEF Apart, BuiltAt, KeysOnce

\* In no factory.
AllApart(b) == \A s \in DOMAIN b : Apart(b[s])

(* What an item of a diff may do to the built layer: it creates a factory  *)
(* only where there is none, of groups with keys of their own, and syncs   *)
(* groups only where there is one.                                         *)
Fit(op, b) ==
  /\ op.do = "create" => op.site \notin DOMAIN b /\ KeysOnce(op.cluster)
  /\ Grouped(op) => op.site \in DOMAIN b /\ Aimed(op, b[op.site])

------------------------------------------------------------------------------
(* The groups of a save and of a factory *)

(* The last group of a key. *)
LEMMA ListedIs ==
  ASSUME NEW gs \in Seq(Group), NEW k \in Keys(gs)
  PROVE  /\ Max(At(gs, k)) \in DOMAIN gs
         /\ Listed(gs, k) = gs[Max(At(gs, k))]
         /\ Listed(gs, k) \in Group
         /\ Key(Listed(gs, k)) = k
         /\ \A i \in DOMAIN gs : Key(gs[i]) = k => i <= Max(At(gs, k))
<1>1. Len(gs) \in Nat /\ DOMAIN gs = 1..Len(gs) /\ \A i \in DOMAIN gs : gs[i] \in Group
  BY Places
<1>2. At(gs, k) \in SUBSET (0..Len(gs)) /\ At(gs, k) # {}
  BY <1>1 DEF At, Keys, Range
<1>3. Max(At(gs, k)) \in At(gs, k) /\ \A i \in At(gs, k) : i <= Max(At(gs, k))
  BY <1>1, <1>2, MaxIs
<1>4. QED
  BY <1>1, <1>3 DEF At, Listed

(* The groups of a save, and of the factory it is compared with. *)
Comparing(s, gs, c) ==
  /\ s \in Site
  /\ gs \in Seq(Group)
  /\ c \in Seq(SaveGroup)
  /\ KeysOnce(c)

(* What the groups of a save hold. *)
LEMMA SavePlaces ==
  ASSUME NEW c \in Seq(SaveGroup)
  PROVE  /\ Len(c) \in Nat /\ DOMAIN c = 1..Len(c)
         /\ \A i \in DOMAIN c :
              /\ c[i].machine \in Machine /\ c[i].recipe \in Recipe
              /\ c[i].count \in Nat \ {0} /\ c[i].clock \in Nat
              /\ Key(c[i]) \in Keys(c)
<1>1. Len(c) \in Nat /\ DOMAIN c = 1..Len(c) /\ \A i \in DOMAIN c : c[i] \in SaveGroup
  OBVIOUS
<1>2. \A i \in DOMAIN c : Key(c[i]) \in Keys(c)
  BY DEF Keys, Range
<1>3. QED
  BY <1>1, <1>2 DEF SaveGroup

Src(op) == <<op.site, op.machine, op.recipe>>
Dst(op) == <<op.site, op.machine, op.to>>

(* Where an item about one group comes from: a group of the save, by its   *)
(* key or as the fuel an old one is taken for ...                          *)
Traced(s, gs, c, i, op) ==
  /\ Grouped(op) /\ op.site = s /\ op.machine = c[i].machine
  /\ \/ op.recipe = c[i].recipe /\ op.to = c[i].recipe
     \/ /\ op.do = "retune"
        /\ i \in Refueled(gs, c, c[i].machine)
        /\ op.recipe \in Taken(gs, c, i)
        /\ op.to \in {op.recipe, c[i].recipe}

(* ... or a key that nothing in the save accounts for.                     *)
Gone(s, gs, c, k, op) ==
  /\ Grouped(op) /\ op.site = s
  /\ k \in Demolished(gs, c)
  /\ op.machine = k[1] /\ op.recipe = k[2] /\ op.to = k[2]

(* Two items that do not get in each other's way: neither reads or writes  *)
(* a key the other reads or writes, and an item about a whole factory is   *)
(* the only one of its site.                                               *)
ClearOps(a, b) ==
  /\ Grouped(a) /\ Grouped(b) =>
       Src(a) # Src(b) /\ Dst(a) # Src(b) /\ Src(a) # Dst(b) /\ Dst(a) # Dst(b)
  /\ a.site = b.site => Grouped(a) /\ Grouped(b)

(* Fewer numbers are below the smaller of two members. *)
LEMMA BelowStrict ==
  ASSUME NEW S, IsFiniteSet(S), S \subseteq Nat, NEW x \in S, NEW y \in S, x < y
  PROVE  Cardinality(Below(S, x)) # Cardinality(Below(S, y))
<1>1. IsFiniteSet(Below(S, y))
  BY FS_Subset DEF Below
<1>0. x \in Nat /\ y \in Nat /\ \A z \in S : z \in Nat
  OBVIOUS
<1>2. Below(S, x) \in SUBSET Below(S, y) /\ x \in Below(S, y) /\ x \notin Below(S, x)
  <2>1. \A z \in S : z < x => z < y
    BY <1>0
  <2>2. x < y /\ ~(x < x)
    BY <1>0
  <2>3. QED
    BY <2>1, <2>2 DEF Below
<1>3. QED
  BY <1>1, <1>2, FS_Subset

(* No fuel is taken twice. *)
LEMMA TakenOnce ==
  ASSUME NEW gs, NEW c \in Seq(SaveGroup), NEW i \in DOMAIN c, NEW j \in DOMAIN c, i # j,
         i \in Refueled(gs, c, c[i].machine), j \in Refueled(gs, c, c[j].machine),
         c[i].machine = c[j].machine, NEW r \in Taken(gs, c, i)
  PROVE  r \notin Taken(gs, c, j)
<1> DEFINE S == Refueled(gs, c, c[i].machine)
<1>1. Len(c) \in Nat /\ DOMAIN c = 1..Len(c)
  BY SavePlaces
<1>2. S \in SUBSET (1..Len(c)) /\ i \in S /\ j \in S
  BY <1>1 DEF Refueled
<1> HIDE DEF S
<1>3. IsFiniteSet(S) /\ S \subseteq Nat
  <2>1. IsFiniteSet(1..Len(c))
    BY <1>1, FS_Interval
  <2>2. QED
    BY <1>2, <2>1, FS_Subset
<1>4. Cardinality(Below(S, i)) # Cardinality(Below(S, j))
  <2>1. i < j \/ j < i
    BY <1>1
  <2>2. QED
    BY <1>2, <1>3, <2>1, BelowStrict
<1>5. QED
  BY <1>4 DEF Taken, S

(* A fuel that is taken has a group of its own and none in the save. *)
LEMMA TakenIs ==
  ASSUME NEW gs, NEW c, NEW i, NEW r \in Taken(gs, c, i)
  PROVE  /\ r \in Recipe
         /\ <<c[i].machine, r>> \in Keys(gs)
         /\ <<c[i].machine, r>> \notin Keys(c)
  BY DEF Taken, Spare

(* Items that come from two groups of a save keep out of each other's way. *)
LEMMA TracedClear ==
  ASSUME NEW s, NEW gs, NEW c, Comparing(s, gs, c), NEW i \in DOMAIN c, NEW j \in DOMAIN c, i # j,
         NEW a, NEW b, Traced(s, gs, c, i, a), Traced(s, gs, c, j, b)
  PROVE  ClearOps(a, b)
<1>1. Key(c[i]) # Key(c[j]) /\ Key(c[i]) \in Keys(c) /\ Key(c[j]) \in Keys(c)
  BY SavePlaces DEF Comparing, KeysOnce
<1> DEFINE direct(n, o) == o.recipe = c[n].recipe /\ o.to = c[n].recipe
           fuel(n, o) == /\ n \in Refueled(gs, c, c[n].machine)
                         /\ o.recipe \in Taken(gs, c, n)
                         /\ o.to \in {o.recipe, c[n].recipe}
<1>2. /\ a.site = s /\ a.machine = c[i].machine /\ (direct(i, a) \/ fuel(i, a))
      /\ b.site = s /\ b.machine = c[j].machine /\ (direct(j, b) \/ fuel(j, b))
      /\ Grouped(a) /\ Grouped(b)
  BY DEF Traced
<1>3. fuel(i, a) => <<c[i].machine, a.recipe>> \notin Keys(c)
  BY TakenIs
<1>4. fuel(j, b) => <<c[j].machine, b.recipe>> \notin Keys(c)
  BY TakenIs
<1>5. CASE direct(i, a) /\ direct(j, b)
  BY <1>1, <1>2, <1>5 DEF ClearOps, Src, Dst, Key
<1>6. CASE direct(i, a) /\ fuel(j, b)
  BY <1>1, <1>2, <1>4, <1>6 DEF ClearOps, Src, Dst, Key
<1>7. CASE fuel(i, a) /\ direct(j, b)
  BY <1>1, <1>2, <1>3, <1>7 DEF ClearOps, Src, Dst, Key
<1>8. CASE fuel(i, a) /\ fuel(j, b)
  <2>1. c[i].machine = c[j].machine => a.recipe # b.recipe
    BY <1>8, TakenOnce DEF Comparing, KeysOnce
  <2>2. QED
    BY <1>1, <1>2, <1>3, <1>4, <1>8, <2>1 DEF ClearOps, Src, Dst, Key
<1>9. QED
  BY <1>2, <1>5, <1>6, <1>7, <1>8

(* An item that comes from a group of a save writes a key of its own.      *)
LEMMA TracedAimed ==
  ASSUME NEW s, NEW gs, NEW c, NEW i \in DOMAIN c, NEW op, Traced(s, gs, c, i, op)
  PROVE  Aimed(op, gs)
<1>1. \A k \in BuiltKeys(gs) : k \in Keys(gs)
  BY DEF BuiltKeys, BuiltAt, Keys, Range
<1>2. CASE op.recipe = c[i].recipe /\ op.to = c[i].recipe
  BY <1>2 DEF Aimed, SrcKey, DstKey
<1>3. CASE /\ op.do = "retune"
           /\ i \in Refueled(gs, c, c[i].machine)
           /\ op.to \in {op.recipe, c[i].recipe}
  <2>1. Key(c[i]) \notin Keys(gs)
    BY <1>3 DEF Refueled
  <2>2. op.to = op.recipe \/ DstKey(op) = Key(c[i])
    BY <1>3 DEF Traced, DstKey, Key
  <2>3. QED
    BY <1>1, <1>3, <2>1, <2>2 DEF Aimed, SrcKey, DstKey
<1>4. QED
  BY <1>2, <1>3 DEF Traced

(* So do an item that comes from the save and one about a key gone from it *)
(* ...                                                                     *)
LEMMA GoneClear ==
  ASSUME NEW s, NEW gs, NEW c, Comparing(s, gs, c), NEW i \in DOMAIN c, NEW k,
         NEW a, NEW b, Traced(s, gs, c, i, a), Gone(s, gs, c, k, b)
  PROVE  ClearOps(a, b) /\ ClearOps(b, a)
<1>1. Key(c[i]) \in Keys(c)
  BY SavePlaces DEF Comparing, KeysOnce
<1>2. /\ k \notin Keys(c) /\ k \in Keys(gs)
      /\ \A n \in Refueled(gs, c, k[1]) : k[2] \notin Taken(gs, c, n)
  BY DEF Gone, Demolished
<1>3. k = <<k[1], k[2]>>
  BY <1>2 DEF Keys, Key
<1>4. /\ a.site = s /\ a.machine = c[i].machine /\ Grouped(a) /\ Grouped(b)
      /\ b.site = s /\ b.machine = k[1] /\ b.recipe = k[2] /\ b.to = k[2]
  BY DEF Traced, Gone
<1>5. CASE a.recipe = c[i].recipe /\ a.to = c[i].recipe
  BY <1>1, <1>2, <1>3, <1>4, <1>5 DEF ClearOps, Src, Dst, Key
<1>6. CASE /\ i \in Refueled(gs, c, c[i].machine)
           /\ a.recipe \in Taken(gs, c, i)
           /\ a.to \in {a.recipe, c[i].recipe}
  <2>1. a.machine = k[1] => a.recipe # k[2]
    BY <1>2, <1>4, <1>6
  <2>2. a.machine = k[1] => c[i].recipe # k[2]
    BY <1>1, <1>2, <1>3, <1>4 DEF Key
  <2>3. QED
    BY <1>4, <1>6, <2>1, <2>2 DEF ClearOps, Src, Dst
<1>7. QED
  BY <1>5, <1>6 DEF Traced

(* ... and two items about keys gone from the save. *)
LEMMA GonePairClear ==
  ASSUME NEW s, NEW gs, NEW c, NEW k, NEW l, k # l,
         NEW a, NEW b, Gone(s, gs, c, k, a), Gone(s, gs, c, l, b)
  PROVE  ClearOps(a, b)
<1>1. k = <<k[1], k[2]>> /\ l = <<l[1], l[2]>>
  BY DEF Gone, Demolished, Keys, Key
<1>2. QED
  BY <1>1 DEF Gone, ClearOps, Src, Dst

------------------------------------------------------------------------------
(* The items of a diff *)

(* Items about groups are items, and keep the operation they were made of. *)
LEMMA GroupOpIs ==
  ASSUME NEW s \in Site, NEW m \in Machine, NEW from \in Recipe, NEW to \in Recipe,
         NEW count \in Nat, NEW clock \in Nat, NEW do \in {"update", "retune"}
  PROVE  LET op == GroupOp(do, s, m, from, to, count, clock)
         IN  /\ op \in Op /\ Grouped(op)
             /\ op.site = s /\ op.machine = m /\ op.recipe = from /\ op.to = to
             /\ op.do = do
  BY DEF GroupOp, Op, Grouped

(* An item keeps the operation it was made of. *)
LEMMA ItemIs ==
  ASSUME NEW op \in Op
  PROVE  /\ Drift(op) \in Item /\ Drift(op).op = op
         /\ Conflict(op) \in Item /\ Conflict(op).op = op
         /\ \A g, sg : Reviewed(g, sg, op) \in {Drift(op), Conflict(op)}
  BY DEF Drift, Conflict, Item, Sides, Reviewed

(* So does one that may be in conflict. *)
LEMMA ReviewedIs ==
  ASSUME NEW op \in Op, NEW g, NEW sg
  PROVE  Reviewed(g, sg, op) \in Item /\ Reviewed(g, sg, op).op = op
  BY ItemIs

(* The update of a save's group. *)
LEMMA UpdateTraced ==
  ASSUME NEW s, NEW gs, NEW c, Comparing(s, gs, c), NEW i \in DOMAIN c
  PROVE  /\ UpdateOp(s, c[i]) \in Op
         /\ Traced(s, gs, c, i, UpdateOp(s, c[i]))
<1>1. /\ c[i].machine \in Machine /\ c[i].recipe \in Recipe
      /\ c[i].count \in Nat /\ c[i].clock \in Nat /\ s \in Site
  BY SavePlaces DEF Comparing, KeysOnce
<1> DEFINE op == UpdateOp(s, c[i])
<1>2. /\ op \in Op /\ Grouped(op) /\ op.site = s /\ op.machine = c[i].machine
      /\ op.recipe = c[i].recipe /\ op.to = c[i].recipe
  BY <1>1, GroupOpIs DEF UpdateOp
<1>3. QED
  BY <1>2 DEF Traced

(* One group of the save makes at most one item. *)
AtMostOne(s, gs, c, i, items) ==
  \/ items = <<>>
  \/ \E x \in Item : items = <<x>> /\ Traced(s, gs, c, i, x.op)

(* A save's group that refuels nothing makes at most one item, traced to   *)
(* it.                                                                     *)
LEMMA KeyItemsTraced ==
  ASSUME NEW s, NEW gs, NEW c, Comparing(s, gs, c), NEW i \in DOMAIN c
  PROVE  AtMostOne(s, gs, c, i, KeyItems(s, gs, c[i]))
<1> DEFINE op == UpdateOp(s, c[i])
           items == KeyItems(s, gs, c[i])
<1>1. op \in Op /\ Traced(s, gs, c, i, op)
  BY UpdateTraced
<1> HIDE DEF op
<1>2. \/ items = <<>> \/ items = <<Drift(op)>>
      \/ \E g : items = <<Reviewed(g, c[i], op)>>
  BY DEF KeyItems, op
<1>3. CASE items = <<Drift(op)>>
  BY <1>1, <1>3, ItemIs DEF AtMostOne
<1>4. ASSUME NEW g, items = <<Reviewed(g, c[i], op)>>
      PROVE  AtMostOne(s, gs, c, i, items)
  BY <1>1, <1>4, ReviewedIs DEF AtMostOne
<1>5. QED
  BY <1>2, <1>3, <1>4 DEF AtMostOne

(* So does one that may take an old fuel. *)
LEMMA RefuelItemsTraced ==
  ASSUME NEW s, NEW gs, NEW c, Comparing(s, gs, c), NEW i \in DOMAIN c,
         i \in Refueled(gs, c, c[i].machine)
  PROVE  AtMostOne(s, gs, c, i, RefuelItems(s, gs, c, i))
<1> DEFINE items == RefuelItems(s, gs, c, i)
<1>0. /\ c[i].machine \in Machine /\ c[i].recipe \in Recipe
      /\ c[i].count \in Nat /\ c[i].clock \in Nat /\ s \in Site
  BY SavePlaces DEF Comparing, KeysOnce
<1>1. CASE Taken(gs, c, i) = {}
  <2>1. items = <<Drift(UpdateOp(s, c[i]))>>
    BY <1>1 DEF RefuelItems
  <2>2. QED
    BY <2>1, UpdateTraced, ItemIs DEF AtMostOne
<1>2. CASE Taken(gs, c, i) # {}
  <2> DEFINE old == CHOOSE r \in Taken(gs, c, i) : TRUE
             new == IF c[i].recipe = Unfueled THEN old ELSE c[i].recipe
             g   == Listed(gs, <<c[i].machine, old>>)
             op  == GroupOp("retune", s, c[i].machine, old, new, c[i].count, c[i].clock)
  <2>1. items = <<>> \/ items = <<Reviewed(g, c[i], op)>>
    BY <1>2 DEF RefuelItems
  <2>2. old \in Taken(gs, c, i)
    BY <1>2
  <2>3. old \in Recipe
    BY <2>2, TakenIs
  <2>4. new \in {old, c[i].recipe}
    OBVIOUS
  <2> HIDE DEF old, new
  <2>5. /\ op \in Op /\ Grouped(op) /\ op.site = s /\ op.machine = c[i].machine
        /\ op.recipe = old /\ op.to = new /\ op.do = "retune"
    BY <1>0, <2>3, <2>4, GroupOpIs
  <2> HIDE DEF op, g
  <2>6. Traced(s, gs, c, i, op)
    BY <2>2, <2>4, <2>5 DEF Traced
  <2>7. Reviewed(g, c[i], op) \in Item /\ Reviewed(g, c[i], op).op = op
    BY <2>5, ReviewedIs
  <2>8. QED
    BY <2>1, <2>6, <2>7 DEF AtMostOne
<1>3. QED
  BY <1>1, <1>2

(* An item about a demolished group is about a key gone from the save. *)
LEMMA DemolishedGone ==
  ASSUME NEW s, NEW gs, NEW c, Comparing(s, gs, c), NEW k \in Demolished(gs, c)
  PROVE  /\ DemolishedItem(s, gs, k) \in Item
         /\ Gone(s, gs, c, k, DemolishedItem(s, gs, k).op)
<1>1. k \in Keys(gs) /\ gs \in Seq(Group) /\ s \in Site
  BY DEF Demolished, Comparing, KeysOnce
<1>2. Listed(gs, k) \in Group /\ Key(Listed(gs, k)) = k
  BY <1>1, ListedIs
<1>3. /\ k[1] \in Machine /\ k[2] \in Recipe /\ Listed(gs, k).clock \in Nat
  BY <1>2 DEF Group, Key, MinClock, MaxClock
<1> DEFINE op == GroupOp("update", s, k[1], k[2], k[2], 0, Listed(gs, k).clock)
<1>4. /\ op \in Op /\ Grouped(op) /\ op.site = s /\ op.machine = k[1]
      /\ op.recipe = k[2] /\ op.to = k[2]
  BY <1>1, <1>3, GroupOpIs
<1>5. DemolishedItem(s, gs, k) = Drift(op)
  BY DEF DemolishedItem
<1> HIDE DEF op
<1>6. QED
  BY <1>4, <1>5, ItemIs DEF Gone

------------------------------------------------------------------------------
(* The items of a factory *)

(* Items that may be accepted together, in any order. *)
ClearPairs == {p \in Item \X Item : ClearOps(p[1].op, p[2].op)}

(* Two items whose operations are clear of each other are such a pair. *)
LEMMA PairClear ==
  ASSUME NEW x \in Item, NEW y \in Item, ClearOps(x.op, y.op)
  PROVE  <<x, y>> \in ClearPairs
  BY DEF ClearPairs

(* What short sequences hold. *)
LEMMA ShortRange ==
  /\ Range(<<>>) = {}
  /\ \A x : Range(<<x>>) = {x}
<1>1. DOMAIN <<>> = {} /\ \A x : DOMAIN <<x>> = {1} /\ <<x>>[1] = x
  OBVIOUS
<1>2. QED
  BY <1>1 DEF Range

(* At most one item is a list of clear items. *)
LEMMA AtMostOneIs ==
  ASSUME NEW s, NEW gs, NEW c, NEW i, NEW items, AtMostOne(s, gs, c, i, items)
  PROVE  /\ items \in Seq(Item)
         /\ Pairwise(items, ClearPairs)
         /\ \A x \in Range(items) : x \in Item /\ Traced(s, gs, c, i, x.op)
<1>1. CASE items = <<>>
  <2>1. DOMAIN items = {} /\ items \in Seq(Item)
    BY <1>1
  <2>2. QED
    BY <2>1 DEF Pairwise, Range
<1>2. ASSUME NEW x \in Item, items = <<x>>, Traced(s, gs, c, i, x.op)
      PROVE  /\ items \in Seq(Item)
             /\ Pairwise(items, ClearPairs)
             /\ \A y \in Range(items) : y \in Item /\ Traced(s, gs, c, i, y.op)
  <2>1. DOMAIN items = {1} /\ items[1] = x /\ items \in Seq(Item)
    BY <1>2
  <2>2. QED
    BY <1>2, <2>1 DEF Pairwise, Range
<1>3. QED
  BY <1>1, <1>2 DEF AtMostOne

(* One item at most for each group of the save, flattened. *)
LEMMA OneEach ==
  ASSUME NEW s, NEW gs, NEW c, Comparing(s, gs, c), NEW ss, DOMAIN ss = DOMAIN c,
         ss \in Seq(Seq(Item)),
         \A i \in DOMAIN c : AtMostOne(s, gs, c, i, ss[i])
  PROVE  /\ FlattenSeq(ss) \in Seq(Item)
         /\ Pairwise(FlattenSeq(ss), ClearPairs)
         /\ \A x \in Range(FlattenSeq(ss)) :
              x \in Item /\ \E i \in DOMAIN c : x \in Range(ss[i]) /\ Traced(s, gs, c, i, x.op)
<1>1. \A i \in DOMAIN c : /\ Pairwise(ss[i], ClearPairs)
                          /\ \A x \in Range(ss[i]) : x \in Item /\ Traced(s, gs, c, i, x.op)
  BY AtMostOneIs
<1>2. ASSUME NEW i \in DOMAIN ss, NEW j \in DOMAIN ss, i # j
      PROVE  Across(ss[i], ss[j], ClearPairs)
  <2>1. ASSUME NEW x \in Range(ss[i]), NEW y \in Range(ss[j])
        PROVE  <<x, y>> \in ClearPairs /\ <<y, x>> \in ClearPairs
    <3>1. x \in Item /\ y \in Item /\ Traced(s, gs, c, i, x.op) /\ Traced(s, gs, c, j, y.op)
      BY <1>1
    <3>2. ClearOps(x.op, y.op) /\ ClearOps(y.op, x.op)
      BY <1>2, <3>1, TracedClear
    <3>3. QED
      BY <3>1, <3>2, PairClear
  <2>2. QED
    BY <2>1 DEF Across
<1>3. /\ FlattenSeq(ss) \in Seq(Item)
      /\ \A x : x \in Range(FlattenSeq(ss)) <=> \E i \in DOMAIN ss : x \in Range(ss[i])
  BY FlattenIs
<1>4. Pairwise(FlattenSeq(ss), ClearPairs)
  BY <1>1, <1>2, FlattenPairwise
<1>5. QED
  BY <1>1, <1>3, <1>4

(* A list of groups has finitely many keys. *)
LEMMA KeysFinite ==
  ASSUME NEW gs \in Seq(Group)
  PROVE  IsFiniteSet(Keys(gs))
<1> DEFINE f == [i \in 1..Len(gs) |-> Key(gs[i])]
<1>1. Len(gs) \in Nat /\ DOMAIN gs = 1..Len(gs)
  BY Places
<1>2. f \in Surjection(1..Len(gs), Keys(gs))
  BY <1>1 DEF Surjection, Keys, Range
<1>3. IsFiniteSet(1..Len(gs))
  BY <1>1, FS_Interval
<1> HIDE DEF f
<1>4. QED
  BY <1>2, <1>3, FS_Surjection

Burns(gs, c, i) == i \in Refueled(gs, c, c[i].machine)

(* The three parts of a factory's items. *)
Changed(s, gs, c) ==
  [i \in DOMAIN c |-> IF Burns(gs, c, i) THEN <<>> ELSE KeyItems(s, gs, c[i])]

Retuned(s, gs, c) ==
  [i \in DOMAIN c |-> IF Burns(gs, c, i) THEN RefuelItems(s, gs, c, i) ELSE <<>>]

Lost(s, gs, c) ==
  [i \in DOMAIN SetToSeq(Demolished(gs, c)) |->
     DemolishedItem(s, gs, SetToSeq(Demolished(gs, c))[i])]

(* A factory's items are its changed, retuned and lost groups. *)
LEMMA FactoryParts ==
  ASSUME NEW s, NEW gs, NEW c
  PROVE  FactoryItems(s, gs, c) =
           FlattenSeq(Changed(s, gs, c)) \o FlattenSeq(Retuned(s, gs, c)) \o Lost(s, gs, c)
  BY DEF FactoryItems, Changed, Retuned, Lost, Burns

(* Each changed group makes at most one item, if it refuels nothing. *)
LEMMA ChangedTraced ==
  ASSUME NEW s, NEW gs, NEW c, Comparing(s, gs, c)
  PROVE  /\ Changed(s, gs, c) \in Seq(Seq(Item))
         /\ DOMAIN Changed(s, gs, c) = DOMAIN c
         /\ \A i \in DOMAIN c : /\ AtMostOne(s, gs, c, i, Changed(s, gs, c)[i])
                                /\ Burns(gs, c, i) => Changed(s, gs, c)[i] = <<>>
<1> DEFINE ss == Changed(s, gs, c)
<1>1. Len(c) \in Nat /\ DOMAIN c = 1..Len(c)
  BY SavePlaces DEF Comparing, KeysOnce
<1>2. /\ DOMAIN ss = DOMAIN c
      /\ \A i \in DOMAIN c : /\ Burns(gs, c, i) => ss[i] = <<>>
                             /\ ~Burns(gs, c, i) => ss[i] = KeyItems(s, gs, c[i])
  BY DEF Changed
<1>t. ss = [i \in DOMAIN c |-> ss[i]]
  BY DEF Changed
<1> HIDE DEF ss
<1>3. ASSUME NEW i \in DOMAIN c
      PROVE  AtMostOne(s, gs, c, i, ss[i]) /\ ss[i] \in Seq(Item)
  <2>1. AtMostOne(s, gs, c, i, ss[i])
    <3>1. CASE Burns(gs, c, i)
      BY <1>2, <3>1 DEF AtMostOne
    <3>2. CASE ~Burns(gs, c, i)
      BY <1>2, <3>2, KeyItemsTraced
    <3>3. QED
      BY <3>1, <3>2
  <2>2. QED
    BY <2>1, AtMostOneIs
<1>4. ss \in [1..Len(c) -> Seq(Item)]
  BY <1>1, <1>t, <1>3
<1>5. ss \in Seq(Seq(Item))
  BY <1>1, <1>4
<1>6. QED
  BY <1>2, <1>3, <1>5 DEF ss

(* Each refuelled group makes at most one item. *)
LEMMA RetunedTraced ==
  ASSUME NEW s, NEW gs, NEW c, Comparing(s, gs, c)
  PROVE  /\ Retuned(s, gs, c) \in Seq(Seq(Item))
         /\ DOMAIN Retuned(s, gs, c) = DOMAIN c
         /\ \A i \in DOMAIN c : /\ AtMostOne(s, gs, c, i, Retuned(s, gs, c)[i])
                                /\ ~Burns(gs, c, i) => Retuned(s, gs, c)[i] = <<>>
<1> DEFINE ss == Retuned(s, gs, c)
<1>1. Len(c) \in Nat /\ DOMAIN c = 1..Len(c)
  BY SavePlaces DEF Comparing, KeysOnce
<1>2. /\ DOMAIN ss = DOMAIN c
      /\ \A i \in DOMAIN c : /\ ~Burns(gs, c, i) => ss[i] = <<>>
                             /\ Burns(gs, c, i) => ss[i] = RefuelItems(s, gs, c, i)
  BY DEF Retuned
<1>t. ss = [i \in DOMAIN c |-> ss[i]]
  BY DEF Retuned
<1> HIDE DEF ss
<1>3. ASSUME NEW i \in DOMAIN c
      PROVE  AtMostOne(s, gs, c, i, ss[i]) /\ ss[i] \in Seq(Item)
  <2>1. AtMostOne(s, gs, c, i, ss[i])
    <3>1. CASE ~Burns(gs, c, i)
      BY <1>2, <3>1 DEF AtMostOne
    <3>2. CASE Burns(gs, c, i)
      BY <1>2, <3>2, RefuelItemsTraced DEF Burns
    <3>3. QED
      BY <3>1, <3>2
  <2>2. QED
    BY <2>1, AtMostOneIs
<1>4. ss \in [1..Len(c) -> Seq(Item)]
  BY <1>1, <1>t, <1>3
<1>5. ss \in Seq(Seq(Item))
  BY <1>1, <1>4
<1>6. QED
  BY <1>2, <1>3, <1>5 DEF ss

(* The lost groups make clear items, each about a key gone from the save. *)
LEMMA LostGone ==
  ASSUME NEW s, NEW gs, NEW c, Comparing(s, gs, c)
  PROVE  /\ Lost(s, gs, c) \in Seq(Item)
         /\ Pairwise(Lost(s, gs, c), ClearPairs)
         /\ \A x \in Range(Lost(s, gs, c)) :
              x \in Item /\ \E k : Gone(s, gs, c, k, x.op)
<1> DEFINE D == SetToSeq(Demolished(gs, c))
           ls == Lost(s, gs, c)
<1>1. IsFiniteSet(Demolished(gs, c))
  <2>1. IsFiniteSet(Keys(gs))
    BY KeysFinite DEF Comparing, KeysOnce
  <2>2. Demolished(gs, c) \in SUBSET Keys(gs)
    BY DEF Demolished
  <2>3. QED
    BY <2>1, <2>2, FS_Subset
<1>2. /\ D \in Seq(Demolished(gs, c))
      /\ \A i, j \in DOMAIN D : D[i] = D[j] => i = j
  BY <1>1, LaidOut
<1>3. ls = [i \in DOMAIN D |-> DemolishedItem(s, gs, D[i])]
  BY DEF Lost
<1> HIDE DEF D, ls
<1>4. Len(D) \in Nat /\ DOMAIN D = 1..Len(D) /\ \A i \in DOMAIN D : D[i] \in Demolished(gs, c)
  BY <1>2
<1>5. \A i \in DOMAIN D : /\ ls[i] \in Item
                          /\ Gone(s, gs, c, D[i], ls[i].op)
  BY <1>3, <1>4, DemolishedGone
<1>6. DOMAIN ls = DOMAIN D
  BY <1>3
<1>7. ls \in Seq(Item)
  <2>1. ls \in [1..Len(D) -> Item]
    BY <1>3, <1>4, <1>5
  <2>2. QED
    BY <1>4, <2>1
<1>8. ASSUME NEW i \in DOMAIN ls, NEW j \in DOMAIN ls, i # j
      PROVE  <<ls[i], ls[j]>> \in ClearPairs
  <2>1. ClearOps(ls[i].op, ls[j].op)
    BY <1>2, <1>5, <1>6, <1>8, GonePairClear
  <2>2. QED
    BY <1>5, <1>6, <2>1, PairClear
<1>9. QED
  BY <1>5, <1>6, <1>7, <1>8 DEF ls, Pairwise, Range

(* The items of a factory that still stands are about its groups and do    *)
(* not get in each other's way.                                            *)
LEMMA FactoryItemsAre ==
  ASSUME NEW s, NEW gs, NEW c, Comparing(s, gs, c)
  PROVE  /\ FactoryItems(s, gs, c) \in Seq(Item)
         /\ Pairwise(FactoryItems(s, gs, c), ClearPairs)
         /\ \A x \in Range(FactoryItems(s, gs, c)) :
              x \in Item /\ Grouped(x.op) /\ x.op.site = s /\ Aimed(x.op, gs)
<1> DEFINE A  == Changed(s, gs, c)
           B  == Retuned(s, gs, c)
           fa == FlattenSeq(A)
           fb == FlattenSeq(B)
           C  == Lost(s, gs, c)
<1>1. /\ A \in Seq(Seq(Item)) /\ DOMAIN A = DOMAIN c
      /\ \A i \in DOMAIN c : AtMostOne(s, gs, c, i, A[i])
      /\ \A i \in DOMAIN c : Burns(gs, c, i) => A[i] = <<>>
  BY ChangedTraced
<1>2. /\ B \in Seq(Seq(Item)) /\ DOMAIN B = DOMAIN c
      /\ \A i \in DOMAIN c : AtMostOne(s, gs, c, i, B[i])
      /\ \A i \in DOMAIN c : ~Burns(gs, c, i) => B[i] = <<>>
  BY RetunedTraced
<1>3. /\ C \in Seq(Item)
      /\ Pairwise(C, ClearPairs)
      /\ \A x \in Range(C) : x \in Item /\ \E k : Gone(s, gs, c, k, x.op)
  BY LostGone
<1> HIDE DEF A, B, C
<1>4. /\ fa \in Seq(Item) /\ Pairwise(fa, ClearPairs)
      /\ \A x \in Range(fa) :
           x \in Item /\ \E i \in DOMAIN c : x \in Range(A[i]) /\ Traced(s, gs, c, i, x.op)
  BY <1>1, OneEach
<1>5. /\ fb \in Seq(Item) /\ Pairwise(fb, ClearPairs)
      /\ \A x \in Range(fb) :
           x \in Item /\ \E i \in DOMAIN c : x \in Range(B[i]) /\ Traced(s, gs, c, i, x.op)
  BY <1>2, OneEach
<1> HIDE DEF fa, fb
<1>6. Across(fa, fb, ClearPairs)
  <2>1. ASSUME NEW x \in Range(fa), NEW y \in Range(fb)
        PROVE  <<x, y>> \in ClearPairs /\ <<y, x>> \in ClearPairs
    <3>1. PICK i \in DOMAIN c : x \in Range(A[i]) /\ Traced(s, gs, c, i, x.op)
      BY <1>4
    <3>2. PICK j \in DOMAIN c : y \in Range(B[j]) /\ Traced(s, gs, c, j, y.op)
      BY <1>5
    <3>3. i # j
      BY <1>1, <1>2, <3>1, <3>2, ShortRange
    <3>4. ClearOps(x.op, y.op) /\ ClearOps(y.op, x.op)
      BY <3>1, <3>2, <3>3, TracedClear
    <3>5. QED
      BY <1>4, <1>5, <3>4, PairClear
  <2>2. QED
    BY <2>1 DEF Across
<1> DEFINE ab == fa \o fb
<1>7. /\ ab \in Seq(Item) /\ Pairwise(ab, ClearPairs)
      /\ \A x : x \in Range(ab) <=> x \in Range(fa) \/ x \in Range(fb)
  BY <1>4, <1>5, <1>6, JoinPairwise, RangeOfJoin
<1> HIDE DEF ab
<1>8. \A x \in Range(ab) : x \in Item /\ \E i \in DOMAIN c : Traced(s, gs, c, i, x.op)
  BY <1>4, <1>5, <1>7
<1>9. Across(ab, C, ClearPairs)
  <2>1. ASSUME NEW x \in Range(ab), NEW y \in Range(C)
        PROVE  <<x, y>> \in ClearPairs /\ <<y, x>> \in ClearPairs
    <3>1. PICK i \in DOMAIN c : Traced(s, gs, c, i, x.op)
      BY <1>8
    <3>2. PICK k : Gone(s, gs, c, k, y.op)
      BY <1>3
    <3>3. ClearOps(x.op, y.op) /\ ClearOps(y.op, x.op)
      BY <3>1, <3>2, GoneClear
    <3>4. QED
      BY <1>3, <1>8, <3>3, PairClear
  <2>2. QED
    BY <2>1 DEF Across
<1> DEFINE all == ab \o C
<1>10. /\ all \in Seq(Item) /\ Pairwise(all, ClearPairs)
       /\ \A x : x \in Range(all) <=> x \in Range(ab) \/ x \in Range(C)
  BY <1>3, <1>7, <1>9, JoinPairwise, RangeOfJoin
<1>11. FactoryItems(s, gs, c) = all
  BY FactoryParts DEF all, ab, fa, fb, A, B, C
<1> HIDE DEF all
<1>12. ASSUME NEW x \in Range(ab) PROVE Grouped(x.op) /\ x.op.site = s /\ Aimed(x.op, gs)
  <2>1. PICK i \in DOMAIN c : Traced(s, gs, c, i, x.op)
    BY <1>8
  <2>2. Aimed(x.op, gs)
    BY <2>1, TracedAimed
  <2>3. QED
    BY <2>1, <2>2 DEF Traced
<1>13. \A x \in Range(C) : Grouped(x.op) /\ x.op.site = s /\ Aimed(x.op, gs)
  BY <1>3 DEF Gone, Aimed, DstKey, SrcKey
<1>14. QED
  BY <1>3, <1>8, <1>10, <1>11, <1>12, <1>13

(* A whole factory's item. *)
LEMMA FactoryOpIs ==
  ASSUME NEW s \in Site, NEW c \in Seq(SaveGroup), NEW do \in {"create", "remove"}
  PROVE  /\ FactoryOp(do, s, c) \in Op
         /\ FactoryOp(do, s, c).do = do /\ FactoryOp(do, s, c).site = s
         /\ FactoryOp(do, s, c).cluster = c
<1>1. (CHOOSE m \in Machine : TRUE) \in Machine
  BY DriftAssumption
<1>2. Unfueled \in Recipe /\ 0 \in Nat
  BY DriftAssumption
<1> DEFINE m == CHOOSE m \in Machine : TRUE
<1> HIDE DEF m
<1>3. m \in Machine
  BY <1>1 DEF m
<1>4. FactoryOp(do, s, c) =
        [do |-> do, site |-> s, machine |-> m, recipe |-> Unfueled, to |-> Unfueled,
         count |-> 0, clock |-> 0, cluster |-> c]
  BY DEF FactoryOp, m
<1>5. QED
  BY <1>2, <1>3, <1>4 DEF Op

(* What an item of a diff says of its site. *)
About(b, s, x) ==
  /\ x \in Item
  /\ x.op.site = s
  /\ Fit(x.op, b)

(* The items of a site are about it, and clear of each other. *)
LEMMA SiteItemsAre ==
  ASSUME NEW b, Layer(b), NEW save \in Save, NEW s \in Site
  PROVE  /\ SiteItems(b, save, s) \in Seq(Item)
         /\ Pairwise(SiteItems(b, save, s), ClearPairs)
         /\ \A x \in Range(SiteItems(b, save, s)) : About(b, s, x)
<1> DEFINE items == SiteItems(b, save, s)
<1>1. /\ save[s] \in Seq(SaveGroup)
      /\ \A i, j \in DOMAIN save[s] : Key(save[s][i]) = Key(save[s][j]) => i = j
  BY DEF Save
<1>2. CASE s \in DOMAIN b /\ save[s] # <<>>
  <2>1. items = FactoryItems(s, b[s], save[s])
    BY <1>2 DEF SiteItems
  <2>2. Comparing(s, b[s], save[s])
    BY <1>1, <1>2 DEF Comparing, KeysOnce, Layer
  <2> HIDE DEF items
  <2>3. /\ items \in Seq(Item) /\ Pairwise(items, ClearPairs)
        /\ \A x \in Range(items) :
             x \in Item /\ Grouped(x.op) /\ x.op.site = s /\ Aimed(x.op, b[s])
    BY <2>1, <2>2, FactoryItemsAre
  <2>4. \A x \in Range(items) : Fit(x.op, b)
    BY <1>2, <2>3 DEF Fit, Grouped
  <2>5. QED
    BY <2>3, <2>4 DEF items, About
<1>3. ASSUME NEW op \in Op, items = <<Drift(op)>>, op.site = s, Fit(op, b)
      PROVE  /\ items \in Seq(Item)
             /\ Pairwise(items, ClearPairs)
             /\ \A x \in Range(items) : About(b, s, x)
  <2> DEFINE x == Drift(op)
  <2>1. x \in Item /\ x.op = op
    BY ItemIs
  <2> HIDE DEF x, items
  <2>2. items = <<x>>
    BY <1>3 DEF x
  <2>3. DOMAIN items = {1} /\ items[1] = x /\ items \in Seq(Item)
    BY <2>1, <2>2
  <2>4. QED
    BY <1>3, <2>1, <2>3 DEF Pairwise, Range, About
<1>4. CASE s \in DOMAIN b /\ save[s] = <<>>
  <2>1. items = <<Drift(FactoryOp("remove", s, <<>>))>>
    BY <1>4 DEF SiteItems
  <2>2. <<>> \in Seq(SaveGroup)
    OBVIOUS
  <2> DEFINE c0 == <<>>
             do == "remove"
             op == FactoryOp(do, s, c0)
  <2>a. c0 \in Seq(SaveGroup) /\ do \in {"create", "remove"}
    BY <2>2
  <2> HIDE DEF c0, do
  <2>b. op \in Op /\ op.do = do /\ op.site = s
    BY <2>a, FactoryOpIs
  <2> HIDE DEF op
  <2>3. op \in Op /\ op.do = "remove" /\ op.site = s
    BY <2>b DEF do
  <2>4. Fit(op, b) /\ items = <<Drift(op)>>
    BY <2>1, <2>3 DEF op, do, c0, Fit, Grouped
  <2>5. QED
    BY <1>3, <2>3, <2>4
<1>5. CASE s \notin DOMAIN b /\ save[s] # <<>>
  <2>1. items = <<Drift(FactoryOp("create", s, save[s]))>>
    BY <1>5 DEF SiteItems
  <2> DEFINE do == "create"
             op == FactoryOp(do, s, save[s])
  <2>2. do \in {"create", "remove"}
    OBVIOUS
  <2> HIDE DEF do
  <2>3. op \in Op /\ op.do = do /\ op.site = s /\ op.cluster = save[s]
    BY <1>1, <2>2, FactoryOpIs
  <2> HIDE DEF op
  <2>4. Fit(op, b)
    BY <1>1, <1>5, <2>3 DEF Fit, Grouped, KeysOnce, do
  <2>5. items = <<Drift(op)>>
    BY <2>1 DEF op, do
  <2>6. QED
    BY <1>3, <2>3, <2>4, <2>5
<1>6. CASE s \notin DOMAIN b /\ save[s] = <<>>
  <2>1. items = <<>>
    BY <1>6 DEF SiteItems
  <2> HIDE DEF items
  <2>2. DOMAIN items = {} /\ items \in Seq(Item)
    BY <2>1
  <2>3. QED
    BY <2>2 DEF Pairwise, Range, items
<1>7. QED
  BY <1>2, <1>4, <1>5, <1>6

(* The sites, in the order the diff looks at them. *)
LEMMA SitesAre ==
  /\ SetToSeq(Site) \in Seq(Site)
  /\ Len(SetToSeq(Site)) \in Nat
  /\ DOMAIN SetToSeq(Site) = 1..Len(SetToSeq(Site))
  /\ \A i \in DOMAIN SetToSeq(Site) : SetToSeq(Site)[i] \in Site
  /\ \A i, j \in DOMAIN SetToSeq(Site) : SetToSeq(Site)[i] = SetToSeq(Site)[j] => i = j
<1>1. /\ SetToSeq(Site) \in Seq(Site)
      /\ \A i, j \in DOMAIN SetToSeq(Site) : SetToSeq(Site)[i] = SetToSeq(Site)[j] => i = j
  BY DriftAssumption, LaidOut
<1>2. QED
  BY <1>1

(* The items of each site. *)
BySite(b, save) ==
  [i \in DOMAIN SetToSeq(Site) |-> SiteItems(b, save, SetToSeq(Site)[i])]

(* They are lists of items, one list for each site. *)
LEMMA BySiteIs ==
  ASSUME NEW b, Layer(b), NEW save \in Save
  PROVE  /\ BySite(b, save) \in Seq(Seq(Item))
         /\ DOMAIN BySite(b, save) = DOMAIN SetToSeq(Site)
         /\ \A i \in DOMAIN SetToSeq(Site) :
              BySite(b, save)[i] = SiteItems(b, save, SetToSeq(Site)[i])
<1> DEFINE sites == SetToSeq(Site)
<1>1. /\ Len(sites) \in Nat /\ DOMAIN sites = 1..Len(sites)
      /\ \A i \in DOMAIN sites : sites[i] \in Site
  BY SitesAre
<1> HIDE DEF sites
<1>2. \A i \in DOMAIN sites : SiteItems(b, save, sites[i]) \in Seq(Item)
  BY <1>1, SiteItemsAre
<1>3. [i \in DOMAIN sites |-> SiteItems(b, save, sites[i])] \in [1..Len(sites) -> Seq(Item)]
  BY <1>1, <1>2
<1>4. [i \in DOMAIN sites |-> SiteItems(b, save, sites[i])] \in Seq(Seq(Item))
  BY <1>1, <1>3
<1>5. QED
  BY <1>4 DEF BySite, sites

(* A diff is a list of items that do not get in each other's way and that  *)
(* fit the built layer.                                                    *)
LEMMA DiffIs ==
  ASSUME NEW b, Layer(b), NEW save \in Save
  PROVE  /\ Diff(b, save) \in Seq(Item)
         /\ Pairwise(Diff(b, save), ClearPairs)
         /\ \A x \in Range(Diff(b, save)) : Fit(x.op, b)
<1> DEFINE sites == SetToSeq(Site)
           ss == BySite(b, save)
<1>0. Diff(b, save) = FlattenSeq(ss)
  BY DEF Diff, BySite
<1>1. /\ ss \in Seq(Seq(Item)) /\ DOMAIN ss = DOMAIN sites
      /\ \A i \in DOMAIN sites : ss[i] = SiteItems(b, save, sites[i])
  BY BySiteIs
<1>2. /\ \A i \in DOMAIN sites : sites[i] \in Site
      /\ \A i, j \in DOMAIN sites : sites[i] = sites[j] => i = j
  BY SitesAre
<1> HIDE DEF sites, ss
<1>3. \A i \in DOMAIN sites :
        /\ Pairwise(ss[i], ClearPairs)
        /\ \A x \in Range(ss[i]) : About(b, sites[i], x)
  BY <1>1, <1>2, SiteItemsAre
<1>4. ASSUME NEW i \in DOMAIN ss, NEW j \in DOMAIN ss, i # j
      PROVE  Across(ss[i], ss[j], ClearPairs)
  <2>1. sites[i] # sites[j]
    BY <1>1, <1>2, <1>4
  <2>2. ASSUME NEW x \in Range(ss[i]), NEW y \in Range(ss[j])
        PROVE  <<x, y>> \in ClearPairs /\ <<y, x>> \in ClearPairs
    <3>1. x \in Item /\ y \in Item /\ x.op.site # y.op.site
      BY <1>1, <1>3, <2>1 DEF About
    <3>2. ClearOps(x.op, y.op) /\ ClearOps(y.op, x.op)
      BY <3>1 DEF ClearOps, Src, Dst
    <3>3. QED
      BY <3>1, <3>2, PairClear
  <2>3. QED
    BY <2>2 DEF Across
<1>5. /\ FlattenSeq(ss) \in Seq(Item)
      /\ \A x : x \in Range(FlattenSeq(ss)) <=> \E i \in DOMAIN ss : x \in Range(ss[i])
  BY <1>1, FlattenIs
<1>6. Pairwise(FlattenSeq(ss), ClearPairs)
  BY <1>1, <1>3, <1>4, FlattenPairwise
<1>7. \A x \in Range(FlattenSeq(ss)) : Fit(x.op, b)
  BY <1>1, <1>3, <1>5 DEF About
<1>8. QED
  BY <1>0, <1>5, <1>6, <1>7

------------------------------------------------------------------------------
(* Accepting *)

(* A group is still there after an item about its factory, unless it is    *)
(* the one the item is about.                                              *)
LEMMA SyncKeeps ==
  ASSUME NEW gs \in Seq(Group), NEW op \in Op, NEW take, NEW h \in Range(gs),
         h \notin Range(SyncGroups(gs, op, take))
  PROVE  /\ Key(h) = <<op.machine, op.recipe>>
         /\ op.count # 0 => Synced(h, op, take) \in Range(SyncGroups(gs, op, take))
<1> DEFINE new == SyncGroups(gs, op, take)
<1>1. PICK q \in DOMAIN gs : h = gs[q]
  BY DEF Range
<1>2. Len(gs) \in Nat /\ DOMAIN gs = 1..Len(gs)
  BY Places
<1>3. SyncsOne(gs, op, take, new) \/ DropsOne(gs, op, new) \/ AddsOne(gs, op, new) \/ LeavesAll(gs, op, new)
  BY SyncGroupsIs
<1>4. h \notin Range(new)
  OBVIOUS
<1> HIDE DEF new
<1>5. CASE SyncsOne(gs, op, take, new)
  <2>1. PICK i \in DOMAIN gs : /\ Key(gs[i]) = <<op.machine, op.recipe>>
                               /\ new = [gs EXCEPT ![i] = Synced(gs[i], op, take)]
    BY <1>5 DEF SyncsOne
  <2>2. /\ DOMAIN new = DOMAIN gs
        /\ new[i] = Synced(gs[i], op, take)
        /\ \A j \in DOMAIN gs : j # i => new[j] = gs[j]
    BY <2>1
  <2>3. q = i
    BY <1>1, <1>4, <2>2 DEF Range
  <2>4. Synced(h, op, take) \in Range(new)
    BY <1>1, <2>2, <2>3 DEF Range
  <2>5. QED
    BY <1>1, <2>1, <2>3, <2>4 DEF new
<1>6. CASE DropsOne(gs, op, new)
  <2>1. PICK i \in DOMAIN gs : /\ Key(gs[i]) = <<op.machine, op.recipe>>
                               /\ op.count = 0
                               /\ new = RemoveAt(gs, i)
    BY <1>6 DEF DropsOne
  <2>2. /\ DOMAIN new = 1..(Len(gs) - 1)
        /\ \A j \in 1..(Len(gs) - 1) : /\ j < i => new[j] = gs[j]
                                       /\ j >= i => new[j] = gs[j + 1]
    BY <2>1, RemovedAt
  <2>3. q = i
    <3>1. CASE q < i
      <4>1. q \in DOMAIN new /\ new[q] = h
        BY <1>1, <1>2, <2>2, <3>1
      <4>2. QED
        BY <1>4, <4>1 DEF Range
    <3>2. CASE q > i
      <4>1. q - 1 \in DOMAIN new /\ new[q - 1] = gs[(q - 1) + 1] /\ (q - 1) + 1 = q
        BY <1>2, <2>2, <3>2
      <4>2. QED
        BY <1>1, <1>4, <4>1 DEF Range
    <3>3. QED
      BY <1>2, <3>1, <3>2
  <2>4. QED
    BY <1>1, <2>1, <2>3
<1>7. CASE AddsOne(gs, op, new)
  <2>1. PICK g \in Group : new = Append(gs, g)
    BY <1>7 DEF AddsOne
  <2>2. q \in DOMAIN new /\ new[q] = gs[q]
    BY <1>2, <2>1
  <2>3. QED
    BY <1>1, <1>4, <2>2 DEF Range
<1>8. CASE LeavesAll(gs, op, new)
  BY <1>4, <1>8 DEF LeavesAll
<1>9. QED
  BY <1>3, <1>5, <1>6, <1>7, <1>8

(* An item leaves the factories of other sites alone ...                   *)
LEMMA ApplyElsewhere ==
  ASSUME NEW b, NEW op \in Op, NEW take, NEW s \in DOMAIN b, op.site # s
  PROVE  s \in DOMAIN ApplySync(b, op, take) /\ ApplySync(b, op, take)[s] = b[s]
<1> DEFINE new == ApplySync(b, op, take)
<1>1. CASE op.do = "create"
  <2>1. new = [t \in DOMAIN b \cup {op.site} |-> IF t = op.site THEN Written(op.cluster) ELSE b[t]]
    BY <1>1 DEF ApplySync
  <2>2. QED
    BY <2>1
<1>2. CASE op.do = "remove"
  <2>1. new = Restrict(b, DOMAIN b \ {op.site})
    BY <1>2 DEF ApplySync
  <2>2. QED
    BY <2>1 DEF Restrict
<1>3. CASE op.do \notin {"create", "remove"}
  <2>1. new = IF op.site \notin DOMAIN b THEN b
              ELSE [b EXCEPT ![op.site] = SyncGroups(@, op, take)]
    BY <1>3 DEF ApplySync
  <2>2. QED
    BY <2>1
<1>4. QED
  BY <1>1, <1>2, <1>3

(* ... and syncs the groups of its own.                                    *)
LEMMA ApplyHere ==
  ASSUME NEW b, NEW op, Grouped(op), NEW take, op.site \in DOMAIN b
  PROVE  /\ op.site \in DOMAIN ApplySync(b, op, take)
         /\ ApplySync(b, op, take)[op.site] = SyncGroups(b[op.site], op, take)
<1>1. ApplySync(b, op, take) = [b EXCEPT ![op.site] = SyncGroups(@, op, take)]
  BY DEF ApplySync, Grouped
<1>2. QED
  BY <1>1

(* Nothing after the first i items is about h. *)
Settled(items, i, s, h) ==
  \A j \in DOMAIN items :
    j > i /\ Grouped(items[j].op) /\ items[j].op.site = s =>
      <<items[j].op.machine, items[j].op.recipe>> # Key(h)

(* What is left of group g of site s after the first i items: itself, or a *)
(* group that carries its planned values and that no later item is about.  *)
Tracked(items, i, b, s, g) ==
  /\ s \in DOMAIN b
  /\ \E h \in Range(b[s]) : h = g \/ (Carries(h, g) /\ Settled(items, i, s, h))

(* What the items of an open diff must be like where it is accepted. *)
Acceptable(items, b) ==
  /\ items \in Seq(Item)
  /\ Pairwise(items, ClearPairs)
  /\ \A x \in Range(items) : Fit(x.op, b)

(* One item keeps track of a group, whose side the user has not given up.  *)
LEMMA TrackedStep ==
  ASSUME NEW d, NEW b0, Acceptable(d.items, b0), NEW s \in DOMAIN b0, NEW g \in Group,
         ~Yielded(d, s, g),
         NEW i \in DOMAIN d.items, d.items[i].included,
         NEW b, Layer(b), Tracked(d.items, i - 1, b, s, g)
  PROVE  Tracked(d.items, i, ApplySync(b, d.items[i].op, d.items[i].side = "theirs"), s, g)
<1> DEFINE it   == d.items[i]
           op   == it.op
           take == it.side = "theirs"
           new  == ApplySync(b, op, take)
<1>0. /\ it \in Item /\ op \in Op /\ take \in BOOLEAN /\ it \in Range(d.items) /\ i \in Nat
      /\ \A j \in DOMAIN d.items : j \in Nat /\ d.items[j] \in Item
  <2>1. \A j \in DOMAIN d.items : j \in Nat /\ d.items[j] \in Item
    BY DEF Acceptable
  <2>2. QED
    BY <2>1 DEF Item, Range
<1>1. PICK h \in Range(b[s]) : h = g \/ (Carries(h, g) /\ Settled(d.items, i - 1, s, h))
  BY DEF Tracked
<1>2. s \in DOMAIN b /\ b[s] \in Seq(Group)
  BY DEF Tracked, Layer
<1>3. Settled(d.items, i - 1, s, h) => Settled(d.items, i, s, h)
  BY <1>0 DEF Settled
<1>4. ASSUME s \in DOMAIN new, h \in Range(new[s])
      PROVE  Tracked(d.items, i, new, s, g)
  BY <1>1, <1>3, <1>4 DEF Tracked
<1>5. CASE op.site # s
  <2>1. s \in DOMAIN new /\ new[s] = b[s]
    BY <1>0, <1>2, <1>5, ApplyElsewhere
  <2>2. QED
    BY <1>1, <1>4, <2>1
<1>6. op.do # "create" \/ op.site # s
  BY <1>0 DEF Acceptable, Fit
<1>7. op.do # "remove" \/ op.site # s
  BY <1>0 DEF Yielded
<1>8. CASE Grouped(op) /\ op.site = s
  <2>1. s \in DOMAIN new /\ new[s] = SyncGroups(b[s], op, take)
    BY <1>2, <1>8, ApplyHere
  <2>2. CASE h \in Range(new[s])
    BY <1>4, <2>1, <2>2
  <2>3. CASE h \notin Range(new[s])
    <3> HIDE DEF new, take, op
    <3>1. /\ Key(h) = <<op.machine, op.recipe>>
          /\ op.count # 0 => Synced(h, op, take) \in Range(new[s])
      BY <1>0, <1>1, <1>2, <2>1, <2>3, SyncKeeps
    <3>2. ~Settled(d.items, i - 1, s, h)
      BY <1>0, <1>8, <3>1 DEF Settled, op
    <3>3. h = g
      BY <1>1, <3>2
    <3>4. ~take /\ op.count # 0
      BY <1>0, <1>8, <3>1, <3>3 DEF Yielded, op, take
    <3> DEFINE k == Synced(g, op, take)
    <3>5. k \in Range(new[s]) /\ Key(k) = <<g.machine, op.to>> /\ Carries(k, g)
      BY <1>0, <3>1, <3>3, <3>4, SyncedIs
    <3>6. Key(k) = <<op.machine, op.to>>
      BY <3>1, <3>3, <3>5 DEF Key
    <3> HIDE DEF k
    <3>7. Settled(d.items, i, s, k)
      <4>1. ASSUME NEW j \in DOMAIN d.items, j > i, Grouped(d.items[j].op), d.items[j].op.site = s
            PROVE  <<d.items[j].op.machine, d.items[j].op.recipe>> # Key(k)
        <5>0. i # j
          BY <1>0, <4>1
        <5>a. Pairwise(d.items, ClearPairs)
          BY DEF Acceptable
        <5>1. <<d.items[i], d.items[j]>> \in ClearPairs
          BY <5>0, <5>a DEF Pairwise
        <5>2. ClearOps(op, d.items[j].op)
          BY <5>1 DEF ClearPairs, op
        <5>3. Dst(op) # Src(d.items[j].op)
          BY <1>8, <4>1, <5>2 DEF ClearOps
        <5>4. QED
          BY <1>8, <3>6, <4>1, <5>3 DEF Src, Dst
      <4>2. QED
        BY <4>1 DEF Settled
    <3>8. QED
      BY <2>1, <3>5, <3>7 DEF Tracked, new, op, take
  <2>4. QED
    BY <2>2, <2>3
<1>9. op.do \in {"update", "retune", "create", "remove"}
  BY <1>0 DEF Op
<1>10. QED
  BY <1>5, <1>6, <1>7, <1>8, <1>9 DEF Grouped

(* Every group is kept track of to the end. *)
LEMMA TrackedAll ==
  ASSUME NEW d, NEW b, Layer(b), Acceptable(d.items, b), NEW s \in DOMAIN b,
         NEW g \in Range(b[s]), ~Yielded(d, s, g),
         NEW f, After(b, d.items, f, Len(d.items))
  PROVE  Tracked(d.items, Len(d.items), f[Len(d.items)], s, g)
<1> DEFINE n == Len(d.items)
           S == {i \in 0..n : Tracked(d.items, i, f[i], s, g)}
<1>0. /\ n \in Nat /\ DOMAIN d.items = 1..n /\ d.items \in Seq(Item)
      /\ After(b, d.items, f, n)
  BY DEF Acceptable
<1>1. g \in Group
  BY Places DEF Layer, Range
<1> HIDE DEF n
<1>2. 0 \in S
  <2>1. f[0] = b
    BY <1>0, AfterSteps
  <2>2. Tracked(d.items, 0, b, s, g)
    BY DEF Tracked
  <2>3. QED
    BY <1>0, <2>1, <2>2
<1>3. ASSUME NEW i \in 0..n, i - 1 \in S, i # 0
      PROVE  i \in S
  <2>1. i \in 1..n /\ i - 1 \in 0..n
    BY <1>0, <1>3
  <2>2. Tracked(d.items, i - 1, f[i - 1], s, g)
    BY <1>3
  <2>3. CASE d.items[i].included
    <3>1. f[i] = ApplySync(f[i - 1], d.items[i].op, d.items[i].side = "theirs")
      BY <1>0, <2>1, <2>3, AfterSteps
    <3>2. Layer(f[i - 1])
      BY <1>0, <2>1, AfterLayer DEF n
    <3>3. Tracked(d.items, i, f[i], s, g)
      BY <1>0, <1>1, <2>1, <2>2, <2>3, <3>1, <3>2, TrackedStep
    <3>4. QED
      BY <3>3
  <2>4. CASE ~d.items[i].included
    <3>1. f[i] = f[i - 1]
      BY <1>0, <2>1, <2>4, AfterSteps
    <3>2. \A h : Settled(d.items, i - 1, s, h) => Settled(d.items, i, s, h)
      BY <1>0, <2>1 DEF Settled
    <3>3. Tracked(d.items, i, f[i], s, g)
      BY <2>2, <3>1, <3>2 DEF Tracked
    <3>4. QED
      BY <3>3
  <2>5. QED
    BY <2>3, <2>4
<1> HIDE DEF S
<1>4. n \in S
  <2>1. SUFFICES ASSUME n \notin S PROVE FALSE
    OBVIOUS
  <2>2. \E i \in 0..n : i \notin S
    BY <1>0, <2>1
  <2>3. PICK i \in 0..n : i \notin S /\ (i # 0 => i - 1 \in S /\ i - 1 \in 0..n)
    BY <1>0, <2>2, FirstMissingFrom0
  <2>4. QED
    BY <1>2, <1>3, <2>3
<1>5. QED
  BY <1>4 DEF S, n

(* Accepting a diff that fits keeps what the user planned. *)
LEMMA AcceptKeepsEdits ==
  ASSUME NEW b, Layer(b), NEW d, Acceptable(d.items, b)
  PROVE  /\ Layer(ApplyIncluded(b, d))
         /\ EditsKept(b, ApplyIncluded(b, d), d)
<1> DEFINE n == Len(d.items)
<1>1. n \in Nat /\ n \in 0..n /\ d.items \in Seq(Item)
  BY DEF Acceptable
<1>2. PICK f : /\ After(b, d.items, f, n)
               /\ ApplyIncluded(b, d) = f[n]
  BY <1>1, AppliedIs
<1>3. Layer(f[n])
  BY <1>1, <1>2, AfterLayer
<1>4. ASSUME NEW s \in DOMAIN b, NEW g \in Range(b[s]), ~Yielded(d, s, g)
      PROVE  s \in DOMAIN f[n] /\ \E h \in Range(f[n][s]) : Carries(h, g)
  <2>1. Tracked(d.items, n, f[n], s, g)
    BY <1>2, <1>4, TrackedAll
  <2>2. Carries(g, g)
    BY DEF Carries, EffectiveCount, EffectiveClock
  <2>3. QED
    BY <2>1, <2>2 DEF Tracked
<1>5. QED
  BY <1>2, <1>3, <1>4 DEF EditsKept

(* After the first i items: built groups are apart, and no later item      *)
(* writes a key one of them has.                                           *)
ApartAt(items, i, b) ==
  /\ Layer(b)
  /\ AllApart(b)
  /\ \A j \in DOMAIN items :
       j > i /\ Grouped(items[j].op) /\ items[j].op.site \in DOMAIN b =>
         Aimed(items[j].op, b[items[j].op.site])

(* One more item keeps it so. *)
LEMMA ApartStep ==
  ASSUME NEW items, NEW b0, Acceptable(items, b0), NEW i \in DOMAIN items,
         NEW b, ApartAt(items, i - 1, b), NEW take \in BOOLEAN
  PROVE  ApartAt(items, i, ApplySync(b, items[i].op, take))
<1> DEFINE op  == items[i].op
           new == ApplySync(b, op, take)
<1>1. /\ items[i] \in Item /\ op \in Op /\ items[i] \in Range(items) /\ i \in Nat
      /\ \A j \in DOMAIN items : j \in Nat
  <2>1. \A j \in DOMAIN items : j \in Nat /\ items[j] \in Item
    BY DEF Acceptable
  <2>2. QED
    BY <2>1 DEF Item, Range
<1>2. Layer(b) /\ AllApart(b)
  BY DEF ApartAt
<1>3. Fit(op, b0)
  BY <1>1 DEF Acceptable
<1>4. /\ op.do = "create" =>
           /\ DOMAIN new = DOMAIN b \cup {op.site}
           /\ new[op.site] = Written(op.cluster)
           /\ \A s \in DOMAIN b : s # op.site => new[s] = b[s]
      /\ op.do = "remove" =>
           /\ DOMAIN new = DOMAIN b \ {op.site}
           /\ \A s \in DOMAIN new : new[s] = b[s]
      /\ op.do \in {"update", "retune"} =>
           /\ DOMAIN new = DOMAIN b
           /\ \A s \in DOMAIN b : s # op.site => new[s] = b[s]
           /\ op.site \in DOMAIN b =>
                new[op.site] = SyncGroups(b[op.site], op, take)
  <2> HIDE DEF op
  <2>1. op \in Op
    BY <1>1
  <2>2. QED
    BY <1>2, <2>1, ApplySyncIs
<1>5. Layer(new)
  BY <1>1, <1>2, ApplySyncLayer
<1>6. op.do \in {"update", "retune", "create", "remove"} /\ op.cluster \in Seq(SaveGroup)
  BY <1>1 DEF Op
<1>7. ASSUME NEW j \in DOMAIN items, j > i
      PROVE  ClearOps(op, items[j].op)
  <2>1. i # j
    BY <1>1, <1>7
  <2>2. <<items[i], items[j]>> \in ClearPairs
    BY <2>1 DEF Acceptable, Pairwise
  <2>3. QED
    BY <2>2 DEF ClearPairs
<1>a. ASSUME NEW j \in DOMAIN items, j > i, Grouped(items[j].op), items[j].op.site \in DOMAIN b
      PROVE  Aimed(items[j].op, b[items[j].op.site])
  BY <1>1, <1>a DEF ApartAt
<1>b. Grouped(op) /\ op.site \in DOMAIN b => Aimed(op, b[op.site])
  <2>1. i > i - 1
    BY <1>1
  <2>2. QED
    BY <2>1 DEF ApartAt
<1> HIDE DEF new, op
<1>8. CASE ~Grouped(op)
  <2>1. ASSUME NEW s \in DOMAIN new
        PROVE  /\ s # op.site => s \in DOMAIN b /\ new[s] = b[s]
               /\ Apart(new[s])
    <3>1. CASE op.do = "create" /\ s = op.site
      BY <1>3, <1>4, <1>6, <3>1, WrittenApart DEF Fit
    <3>2. CASE op.do = "create" /\ s # op.site
      BY <1>2, <1>4, <3>2 DEF AllApart
    <3>3. CASE op.do = "remove"
      BY <1>2, <1>4, <3>3 DEF AllApart
    <3>4. QED
      BY <1>6, <1>8, <3>1, <3>2, <3>3 DEF Grouped
  <2>2. ASSUME NEW j \in DOMAIN items, j > i, Grouped(items[j].op), items[j].op.site \in DOMAIN new
        PROVE  Aimed(items[j].op, new[items[j].op.site])
    <3>1. items[j].op.site # op.site
      BY <1>7, <1>8, <2>2 DEF ClearOps
    <3>2. QED
      BY <1>a, <2>1, <2>2, <3>1
  <2>3. QED
    BY <1>5, <2>1, <2>2 DEF ApartAt, AllApart, new, op
<1>9. CASE Grouped(op) /\ op.site \notin DOMAIN b
  <2>1. DOMAIN new = DOMAIN b /\ \A s \in DOMAIN b : new[s] = b[s]
    BY <1>4, <1>9 DEF Grouped
  <2>2. QED
    BY <1>2, <1>5, <1>a, <2>1 DEF ApartAt, AllApart, new, op
<1>10. CASE Grouped(op) /\ op.site \in DOMAIN b
  <2> DEFINE gs == b[op.site]
             hs == SyncGroups(gs, op, take)
  <2>1. /\ DOMAIN new = DOMAIN b /\ new[op.site] = hs
        /\ \A s \in DOMAIN b : s # op.site => new[s] = b[s]
    BY <1>4, <1>10 DEF Grouped
  <2>2. gs \in Seq(Group) /\ Apart(gs) /\ Aimed(op, gs) /\ op \in Op
    BY <1>1, <1>2, <1>10, <1>b DEF Layer, AllApart, op
  <2> HIDE DEF gs
  <2>3. Apart(hs) /\ \A k \in BuiltKeys(hs) : k \in BuiltKeys(gs) \cup {SrcKey(op), DstKey(op)}
    BY <2>2, SyncApart
  <2> HIDE DEF hs
  <2>4. ASSUME NEW j \in DOMAIN items, j > i, Grouped(items[j].op), items[j].op.site \in DOMAIN new
        PROVE  Aimed(items[j].op, new[items[j].op.site])
    <3> DEFINE oj == items[j].op
    <3>1. CASE oj.site # op.site
      BY <1>a, <2>1, <2>4, <3>1
    <3>2. CASE oj.site = op.site
      <4>1. Aimed(oj, gs)
        BY <1>10, <1>a, <2>4, <3>2 DEF gs
      <4>2. ClearOps(op, oj)
        BY <1>7, <2>4
      <4>3. Dst(op) # Dst(oj) /\ Src(op) # Dst(oj)
        BY <1>10, <2>4, <4>2 DEF ClearOps
      <4> HIDE DEF oj
      <4>4. DstKey(oj) # SrcKey(op) /\ DstKey(oj) # DstKey(op)
        BY <3>2, <4>3 DEF Dst, Src, SrcKey, DstKey
      <4>5. Aimed(oj, hs)
        BY <2>3, <4>1, <4>4 DEF Aimed
      <4>6. QED
        BY <2>1, <3>2, <4>5 DEF oj
    <3>3. QED
      BY <3>1, <3>2
  <2>5. AllApart(new)
    BY <1>2, <2>1, <2>3 DEF AllApart
  <2>6. QED
    BY <1>5, <2>4, <2>5 DEF ApartAt, new, op
<1>11. QED
  BY <1>8, <1>9, <1>10

(* Accepting a diff that fits leaves the built groups apart. *)
LEMMA AcceptApart ==
  ASSUME NEW b, Layer(b), AllApart(b), NEW d, Acceptable(d.items, b)
  PROVE  AllApart(ApplyIncluded(b, d))
<1> DEFINE items == d.items
           n == Len(items)
<1>1. n \in Nat /\ items \in Seq(Item) /\ DOMAIN items = 1..n
  BY DEF Acceptable
<1>2. PICK f : After(b, items, f, n) /\ ApplyIncluded(b, d) = f[n]
  BY <1>1, AppliedIs
<1>a. Acceptable(items, b)
  OBVIOUS
<1> DEFINE S == {i \in 0..n : ApartAt(items, i, f[i])}
<1> HIDE DEF items, n
<1>3. 0 \in S
  <2>1. f[0] = b
    BY <1>1, <1>2, AfterSteps
  <2>2. ASSUME NEW j \in DOMAIN items, Grouped(items[j].op)
        PROVE  Aimed(items[j].op, b[items[j].op.site])
    <3>1. Fit(items[j].op, b)
      BY <1>a DEF Acceptable, Range
    <3>2. QED
      BY <2>2, <3>1 DEF Fit
  <2>3. ApartAt(items, 0, b)
    BY <2>2 DEF ApartAt
  <2>4. QED
    BY <1>1, <2>1, <2>3
<1>4. ASSUME NEW i \in 0..n, i - 1 \in S, i # 0
      PROVE  i \in S
  <2>1. i \in 1..n /\ ApartAt(items, i - 1, f[i - 1])
    BY <1>1, <1>4
  <2>2. CASE items[i].included
    <3>1. f[i] = ApplySync(f[i - 1], items[i].op, items[i].side = "theirs")
      BY <1>1, <1>2, <2>1, <2>2, AfterSteps
    <3> DEFINE take == items[i].side = "theirs"
    <3>2. take \in BOOLEAN
      OBVIOUS
    <3> HIDE DEF take
    <3>3. ApartAt(items, i, ApplySync(f[i - 1], items[i].op, take))
      BY <1>1, <1>a, <2>1, <3>2, ApartStep
    <3>4. QED
      BY <3>1, <3>3 DEF take
  <2>3. CASE ~items[i].included
    <3>1. f[i] = f[i - 1]
      BY <1>1, <1>2, <2>1, <2>3, AfterSteps
    <3>2. \A j \in DOMAIN items : j > i => j > i - 1
      BY <1>1, <2>1
    <3>3. ApartAt(items, i, f[i])
      BY <2>1, <3>1, <3>2 DEF ApartAt
    <3>4. QED
      BY <3>3
  <2>4. QED
    BY <2>2, <2>3
<1> HIDE DEF S
<1>5. n \in S
  <2>1. SUFFICES ASSUME n \notin S PROVE FALSE
    OBVIOUS
  <2>2. \E i \in 0..n : i \notin S
    BY <1>1, <2>1
  <2>3. PICK i \in 0..n : i \notin S /\ (i # 0 => i - 1 \in S /\ i - 1 \in 0..n)
    BY <1>1, <2>2, FirstMissingFrom0
  <2>4. QED
    BY <1>3, <1>4, <2>3
<1>6. QED
  BY <1>2, <1>5 DEF S, ApartAt, n, items

------------------------------------------------------------------------------
(* What the diff sees *)

(* The operations of short lists, and of lists one after the other.        *)
LEMMA OpsOfShort ==
  /\ Ops(<<>>) = {}
  /\ \A x : Ops(<<x>>) = {x.op}
  BY ShortRange DEF Ops

(* The operations of lists one after the other. *)
LEMMA OpsOfAll ==
  ASSUME NEW ss \in Seq(Seq(Item))
  PROVE  \A o : o \in Ops(FlattenSeq(ss)) <=> \E i \in DOMAIN ss : o \in Ops(ss[i])
<1>1. \A x : x \in Range(FlattenSeq(ss)) <=> \E i \in DOMAIN ss : x \in Range(ss[i])
  BY FlattenIs
<1>2. QED
  BY <1>1 DEF Ops

(* Whether it was in conflict or not, an item keeps its operation. *)
LEMMA ReviewedOp ==
  ASSUME NEW g, NEW sg, NEW op
  PROVE  Reviewed(g, sg, op).op = op /\ Drift(op).op = op
  BY DEF Reviewed, Drift, Conflict

(* The one operation of a reviewed item. *)
LEMMA OneReviewed ==
  ASSUME NEW g, NEW sg, NEW op
  PROVE  Ops(<<Reviewed(g, sg, op)>>) = {op}
<1> DEFINE x == Reviewed(g, sg, op)
<1>1. x.op = op
  BY ReviewedOp
<1> HIDE DEF x
<1>2. Ops(<<x>>) = {x.op}
  BY OpsOfShort
<1>3. QED
  BY <1>1, <1>2 DEF x

(* What the diff sees of a factory: its keys, and the baseline it looks up *)
(* for each.                                                               *)
SameBaseline(g, h) == g.count = h.count /\ g.clock = h.clock

Alike(gs, hs) ==
  /\ Keys(gs) = Keys(hs)
  /\ \A k \in Keys(gs) : SameBaseline(Listed(gs, k), Listed(hs, k))

(* Which fuels are taken and which keys are gone depends on the keys only. *)
LEMMA KeysDecide ==
  ASSUME NEW gs, NEW hs, NEW c, Keys(gs) = Keys(hs)
  PROVE  /\ \A m : Refueled(gs, c, m) = Refueled(hs, c, m)
         /\ \A i : Taken(gs, c, i) = Taken(hs, c, i)
         /\ \A i : Burns(gs, c, i) <=> Burns(hs, c, i)
         /\ Demolished(gs, c) = Demolished(hs, c)
<1>1. \A m : Refueled(gs, c, m) = Refueled(hs, c, m) /\ Spare(gs, c, m) = Spare(hs, c, m)
  BY DEF Refueled, Spare
<1>2. \A i : Taken(gs, c, i) = Taken(hs, c, i)
  BY <1>1 DEF Taken
<1>3. Demolished(gs, c) = Demolished(hs, c)
  BY <1>1, <1>2 DEF Demolished
<1>4. QED
  BY <1>1, <1>2, <1>3 DEF Burns

(* A group drifted from a save if one with the same baseline did. *)
LEMMA DriftedAlike ==
  ASSUME NEW g, NEW h, SameBaseline(g, h), NEW sg
  PROVE  Drifted(g, sg) <=> Drifted(h, sg)
  BY DEF SameBaseline, Drifted

(* A key makes the same operations in factories that look alike. *)
LEMMA KeyItemsAlike ==
  ASSUME NEW s, NEW gs, NEW hs, Alike(gs, hs), NEW sg
  PROVE  Ops(KeyItems(s, gs, sg)) = Ops(KeyItems(s, hs, sg))
<1> DEFINE op == UpdateOp(s, sg)
           k  == Key(sg)
           g  == Listed(gs, k)
           h  == Listed(hs, k)
<1>1. Keys(gs) = Keys(hs) /\ (k \in Keys(gs) => SameBaseline(g, h))
  BY DEF Alike
<1>2. CASE k \notin Keys(gs)
  BY <1>1, <1>2 DEF KeyItems
<1>3. CASE k \in Keys(gs)
  <2>1. Drifted(g, sg) <=> Drifted(h, sg)
    BY <1>1, <1>3, DriftedAlike
  <2>2. CASE Drifted(g, sg)
    <3>1. /\ KeyItems(s, gs, sg) = <<Reviewed(g, sg, op)>>
          /\ KeyItems(s, hs, sg) = <<Reviewed(h, sg, op)>>
      BY <1>1, <1>3, <2>1, <2>2 DEF KeyItems
    <3> HIDE DEF op, g, h
    <3>2. QED
      BY <3>1, OneReviewed
  <2>3. CASE ~Drifted(g, sg)
    BY <1>1, <1>3, <2>1, <2>3 DEF KeyItems
  <2>4. QED
    BY <2>2, <2>3
<1>4. QED
  BY <1>2, <1>3

(* So does a generator that takes an old fuel. *)
LEMMA RefuelItemsAlike ==
  ASSUME NEW s, NEW gs, NEW hs, Alike(gs, hs), NEW c, NEW i
  PROVE  Ops(RefuelItems(s, gs, c, i)) = Ops(RefuelItems(s, hs, c, i))
<1> DEFINE sg == c[i]
           m  == sg.machine
           T  == Taken(gs, c, i)
<1>1. Taken(hs, c, i) = T
  BY KeysDecide DEF Alike
<1>2. CASE T = {}
  BY <1>1, <1>2 DEF RefuelItems
<1>3. CASE T # {}
  <2> DEFINE old == CHOOSE r \in T : TRUE
             new == IF sg.recipe = Unfueled THEN old ELSE sg.recipe
             g   == Listed(gs, <<m, old>>)
             h   == Listed(hs, <<m, old>>)
             op  == GroupOp("retune", s, m, old, new, sg.count, sg.clock)
  <2>1. /\ RefuelItems(s, gs, c, i) =
             IF new # old \/ Drifted(g, sg) THEN <<Reviewed(g, sg, op)>> ELSE <<>>
        /\ RefuelItems(s, hs, c, i) =
             IF new # old \/ Drifted(h, sg) THEN <<Reviewed(h, sg, op)>> ELSE <<>>
    BY <1>1, <1>3 DEF RefuelItems
  <2>2. old \in T
    BY <1>3
  <2>3. <<m, old>> \in Keys(gs)
    BY <2>2, TakenIs
  <2> HIDE DEF old, m
  <2>4. SameBaseline(g, h)
    BY <2>3 DEF Alike
  <2> HIDE DEF g, h, new, op, sg
  <2>5. Drifted(g, sg) <=> Drifted(h, sg)
    BY <2>4, DriftedAlike
  <2>6. Ops(<<Reviewed(g, sg, op)>>) = {op} /\ Ops(<<Reviewed(h, sg, op)>>) = {op}
    BY OneReviewed
  <2>7. CASE new # old \/ Drifted(g, sg)
    <3>1. /\ RefuelItems(s, gs, c, i) = <<Reviewed(g, sg, op)>>
          /\ RefuelItems(s, hs, c, i) = <<Reviewed(h, sg, op)>>
      BY <2>1, <2>5, <2>7
    <3>2. QED
      BY <2>6, <3>1
  <2>8. CASE ~(new # old \/ Drifted(g, sg))
    BY <2>1, <2>5, <2>8
  <2>9. QED
    BY <2>7, <2>8
<1>4. QED
  BY <1>2, <1>3

(* So does a key the save no longer has. *)
LEMMA DemolishedAlike ==
  ASSUME NEW s, NEW gs, NEW hs, Alike(gs, hs), NEW c, NEW k \in Demolished(gs, c)
  PROVE  DemolishedItem(s, gs, k) = DemolishedItem(s, hs, k)
<1>1. k \in Keys(gs)
  BY DEF Demolished
<1>2. Listed(gs, k).clock = Listed(hs, k).clock
  BY <1>1 DEF Alike, SameBaseline
<1>3. QED
  BY <1>2 DEF DemolishedItem

(* The operations of a factory's items, part by part. *)
LEMMA FactoryOps ==
  ASSUME NEW s, NEW gs, NEW c, Comparing(s, gs, c)
  PROVE  \A o : o \in Ops(FactoryItems(s, gs, c)) <=>
                  \/ \E i \in DOMAIN c : o \in Ops(Changed(s, gs, c)[i])
                  \/ \E i \in DOMAIN c : o \in Ops(Retuned(s, gs, c)[i])
                  \/ o \in Ops(Lost(s, gs, c))
<1> DEFINE A == Changed(s, gs, c)
           B == Retuned(s, gs, c)
           C == Lost(s, gs, c)
           fa == FlattenSeq(A)
           fb == FlattenSeq(B)
<1>0. FactoryItems(s, gs, c) = (fa \o fb) \o C
  BY FactoryParts
<1>1. A \in Seq(Seq(Item)) /\ DOMAIN A = DOMAIN c
  BY ChangedTraced
<1>2. B \in Seq(Seq(Item)) /\ DOMAIN B = DOMAIN c
  BY RetunedTraced
<1>3. C \in Seq(Item)
  BY LostGone
<1> HIDE DEF A, B, C
<1>4. fa \in Seq(Item) /\ \A o : o \in Ops(fa) <=> \E i \in DOMAIN c : o \in Ops(A[i])
  BY <1>1, FlattenIs, OpsOfAll
<1>5. fb \in Seq(Item) /\ \A o : o \in Ops(fb) <=> \E i \in DOMAIN c : o \in Ops(B[i])
  BY <1>2, FlattenIs, OpsOfAll
<1> HIDE DEF fa, fb
<1>6. fa \o fb \in Seq(Item) /\ \A x : x \in Range(fa \o fb) <=> x \in Range(fa) \/ x \in Range(fb)
  BY <1>4, <1>5, RangeOfJoin
<1> DEFINE ab == fa \o fb
           all == ab \o C
<1> HIDE DEF ab
<1>6b. ab \in Seq(Item) /\ \A x : x \in Range(ab) <=> x \in Range(fa) \/ x \in Range(fb)
  BY <1>6 DEF ab
<1>7. \A x : x \in Range(all) <=> x \in Range(ab) \/ x \in Range(C)
  BY <1>3, <1>6b, RangeOfJoin
<1> HIDE DEF all
<1>8. \A x : x \in Range(all) <=> x \in Range(fa) \/ x \in Range(fb) \/ x \in Range(C)
  BY <1>6b, <1>7
<1>9. \A o : o \in Ops(all) <=> o \in Ops(fa) \/ o \in Ops(fb) \/ o \in Ops(C)
  BY <1>8 DEF Ops
<1>10. FactoryItems(s, gs, c) = all
  BY <1>0 DEF all, ab
<1>11. QED
  BY <1>4, <1>5, <1>9, <1>10 DEF A, B, C

(* Factories that look alike differ from a save by the same operations.    *)
LEMMA FactoryAlike ==
  ASSUME NEW s, NEW gs, NEW hs, NEW c, Comparing(s, gs, c), Comparing(s, hs, c), Alike(gs, hs)
  PROVE  Ops(FactoryItems(s, gs, c)) = Ops(FactoryItems(s, hs, c))
<1>1. /\ \A i : Burns(gs, c, i) <=> Burns(hs, c, i)
      /\ Demolished(gs, c) = Demolished(hs, c)
  BY KeysDecide DEF Alike
<1>2. ASSUME NEW i \in DOMAIN c
      PROVE  /\ Ops(Changed(s, gs, c)[i]) = Ops(Changed(s, hs, c)[i])
             /\ Ops(Retuned(s, gs, c)[i]) = Ops(Retuned(s, hs, c)[i])
  <2>1. CASE Burns(gs, c, i)
    <3>1. /\ Changed(s, gs, c)[i] = <<>> /\ Changed(s, hs, c)[i] = <<>>
          /\ Retuned(s, gs, c)[i] = RefuelItems(s, gs, c, i)
          /\ Retuned(s, hs, c)[i] = RefuelItems(s, hs, c, i)
      BY <1>1, <2>1 DEF Changed, Retuned
    <3>2. QED
      BY <3>1, RefuelItemsAlike
  <2>2. CASE ~Burns(gs, c, i)
    <3>1. /\ Retuned(s, gs, c)[i] = <<>> /\ Retuned(s, hs, c)[i] = <<>>
          /\ Changed(s, gs, c)[i] = KeyItems(s, gs, c[i])
          /\ Changed(s, hs, c)[i] = KeyItems(s, hs, c[i])
      BY <1>1, <2>2 DEF Changed, Retuned
    <3>2. QED
      BY <3>1, KeyItemsAlike
  <2>3. QED
    BY <2>1, <2>2
<1>3. Lost(s, gs, c) = Lost(s, hs, c)
  <2> DEFINE D == Demolished(gs, c)
             q == SetToSeq(D)
  <2>1. IsFiniteSet(D)
    <3>1. IsFiniteSet(Keys(gs))
      BY KeysFinite DEF Comparing, KeysOnce
    <3>2. QED
      BY <3>1, FS_Subset DEF Demolished
  <2>2. q \in Seq(D)
    BY <2>1, LaidOut
  <2>3. \A i \in DOMAIN q : q[i] \in D
    BY <2>2
  <2>4. \A i \in DOMAIN q : DemolishedItem(s, gs, q[i]) = DemolishedItem(s, hs, q[i])
    BY <2>3, DemolishedAlike
  <2>5. /\ Lost(s, gs, c) = [i \in DOMAIN q |-> DemolishedItem(s, gs, q[i])]
        /\ Lost(s, hs, c) = [i \in DOMAIN q |-> DemolishedItem(s, hs, q[i])]
    BY <1>1 DEF Lost
  <2> HIDE DEF q
  <2>6. QED
    BY <2>4, <2>5
<1>4. \A o : o \in Ops(FactoryItems(s, gs, c)) <=> o \in Ops(FactoryItems(s, hs, c))
  BY <1>2, <1>3, FactoryOps
<1> DEFINE X == Ops(FactoryItems(s, gs, c))
           Y == Ops(FactoryItems(s, hs, c))
<1> HIDE DEF X, Y
<1>5. \A o : o \in X <=> o \in Y
  BY <1>4 DEF X, Y
<1>6. X = Y
  BY <1>5
<1>7. QED
  BY <1>6 DEF X, Y

(* Built layers that look alike to the diff. *)
LayersAlike(b, c) ==
  /\ DOMAIN b = DOMAIN c
  /\ \A s \in DOMAIN b : Alike(b[s], c[s])

(* Layers that look alike make the same operations at each site. *)
LEMMA SiteAlike ==
  ASSUME NEW b, NEW c, Layer(b), Layer(c), LayersAlike(b, c), NEW save \in Save, NEW s \in Site
  PROVE  Ops(SiteItems(b, save, s)) = Ops(SiteItems(c, save, s))
<1>1. DOMAIN b = DOMAIN c /\ (s \in DOMAIN b => Alike(b[s], c[s]))
  BY DEF LayersAlike
<1>2. CASE s \in DOMAIN b /\ save[s] # <<>>
  <2>1. Comparing(s, b[s], save[s]) /\ Comparing(s, c[s], save[s])
    BY <1>1, <1>2 DEF Comparing, KeysOnce, Layer, Save
  <2>2. /\ SiteItems(b, save, s) = FactoryItems(s, b[s], save[s])
        /\ SiteItems(c, save, s) = FactoryItems(s, c[s], save[s])
    BY <1>1, <1>2 DEF SiteItems
  <2>3. Alike(b[s], c[s])
    BY <1>1, <1>2
  <2>4. QED
    BY <2>1, <2>2, <2>3, FactoryAlike
<1>3. CASE ~(s \in DOMAIN b /\ save[s] # <<>>)
  <2>1. SiteItems(b, save, s) = SiteItems(c, save, s)
    BY <1>1, <1>3 DEF SiteItems
  <2>2. QED
    BY <2>1
<1>4. QED
  BY <1>2, <1>3

(* A diff depends on nothing else of the built layer.                      *)
LEMMA DiffAlike ==
  ASSUME NEW b, NEW c, Layer(b), Layer(c), LayersAlike(b, c), NEW save \in Save
  PROVE  Ops(Diff(b, save)) = Ops(Diff(c, save))
<1> DEFINE sites == SetToSeq(Site)
           ss == BySite(b, save)
           tt == BySite(c, save)
<1>0. Diff(b, save) = FlattenSeq(ss) /\ Diff(c, save) = FlattenSeq(tt)
  BY DEF Diff, BySite
<1>1. /\ ss \in Seq(Seq(Item)) /\ DOMAIN ss = DOMAIN sites
      /\ \A i \in DOMAIN sites : ss[i] = SiteItems(b, save, sites[i])
  BY BySiteIs
<1>2. /\ tt \in Seq(Seq(Item)) /\ DOMAIN tt = DOMAIN sites
      /\ \A i \in DOMAIN sites : tt[i] = SiteItems(c, save, sites[i])
  BY BySiteIs
<1>3. \A i \in DOMAIN sites : sites[i] \in Site
  BY SitesAre
<1> HIDE DEF sites, ss, tt
<1>4. \A i \in DOMAIN sites : Ops(ss[i]) = Ops(tt[i])
  BY <1>1, <1>2, <1>3, SiteAlike
<1>5. \A o : o \in Ops(FlattenSeq(ss)) <=> \E i \in DOMAIN ss : o \in Ops(ss[i])
  BY <1>1, OpsOfAll
<1>6. \A o : o \in Ops(FlattenSeq(tt)) <=> \E i \in DOMAIN tt : o \in Ops(tt[i])
  BY <1>2, OpsOfAll
<1> DEFINE X == Ops(FlattenSeq(ss))
           Y == Ops(FlattenSeq(tt))
<1>7. \A o : o \in X <=> o \in Y
  BY <1>1, <1>2, <1>4, <1>5, <1>6
<1> HIDE DEF X, Y
<1>8. X = Y
  BY <1>7
<1>9. QED
  BY <1>0, <1>8 DEF X, Y

------------------------------------------------------------------------------
(* The baseline *)

(* The last built group of each key: planned ones do not count. *)
Lasts(gs) ==
  {i \in DOMAIN gs :
     /\ ~gs[i].planned
     /\ \A j \in DOMAIN gs : j > i /\ Key(gs[j]) = Key(gs[i]) => gs[j].planned}

(* What the game last said of each key. *)
Base(gs) == {Said(gs[i]) : i \in Lasts(gs)}

(* An edit of a group that leaves a built group's baseline alone.          *)
Tuned(g, h) ==
  /\ Key(h) = Key(g) /\ h.planned = g.planned
  /\ ~g.planned => h.count = g.count /\ h.clock = g.clock

(* Setting a value of one group leaves the baseline alone. *)
LEMMA BaseOfEdit ==
  ASSUME NEW gs \in Seq(Group), NEW i \in DOMAIN gs, NEW h, Tuned(gs[i], h)
  PROVE  Base([gs EXCEPT ![i] = h]) = Base(gs)
<1> DEFINE new == [gs EXCEPT ![i] = h]
<1>1. /\ DOMAIN new = DOMAIN gs
      /\ \A j \in DOMAIN gs : Tuned(gs[j], new[j])
  <2>1. DOMAIN new = DOMAIN gs /\ new[i] = h /\ \A j \in DOMAIN gs : j # i => new[j] = gs[j]
    OBVIOUS
  <2> HIDE DEF new
  <2>2. \A g : Tuned(g, g)
    BY DEF Tuned
  <2>3. QED
    BY <2>1, <2>2
<1> HIDE DEF new
<1>2. \A j \in DOMAIN gs : Key(new[j]) = Key(gs[j]) /\ new[j].planned = gs[j].planned
  BY <1>1 DEF Tuned
<1>3. Lasts(new) = Lasts(gs)
  BY <1>1, <1>2 DEF Lasts
<1>4. \A j \in Lasts(gs) : Said(new[j]) = Said(gs[j])
  BY <1>1 DEF Lasts, Tuned, Said
<1>5. QED
  BY <1>3, <1>4 DEF Base, new

(* So does adding a planned group ... *)
LEMMA BaseOfAppend ==
  ASSUME NEW gs \in Seq(Group), NEW g, g.planned
  PROVE  Base(Append(gs, g)) = Base(gs)
<1> DEFINE new == Append(gs, g)
           n == Len(gs)
<1>1. /\ n \in Nat /\ DOMAIN gs = 1..n /\ DOMAIN new = 1..(n + 1)
      /\ new[n + 1] = g /\ \A j \in 1..n : new[j] = gs[j]
  OBVIOUS
<1> HIDE DEF new, n
<1>2. \A j \in 1..(n + 1) : j = n + 1 \/ j \in 1..n
  BY <1>1
<1>3. \A i : i \in Lasts(new) <=> i \in Lasts(gs)
  <2>1. ASSUME NEW i \in Lasts(new) PROVE i \in Lasts(gs)
    <3>1. i \in 1..n
      BY <1>1, <1>2, <2>1 DEF Lasts
    <3>2. \A j \in 1..n : j \in DOMAIN new
      BY <1>1
    <3>3. QED
      BY <1>1, <2>1, <3>1, <3>2 DEF Lasts
  <2>2. ASSUME NEW i \in Lasts(gs) PROVE i \in Lasts(new)
    <3>1. i \in 1..n /\ i \in DOMAIN new
      BY <1>1, <2>2 DEF Lasts
    <3>2. ASSUME NEW j \in DOMAIN new, j > i, Key(new[j]) = Key(new[i]) PROVE new[j].planned
      <4>1. CASE j = n + 1
        BY <1>1, <4>1
      <4>2. CASE j \in 1..n
        BY <1>1, <2>2, <3>1, <3>2, <4>2 DEF Lasts
      <4>3. QED
        BY <1>1, <1>2, <4>1, <4>2
    <3>3. ~new[i].planned
      BY <1>1, <2>2, <3>1 DEF Lasts
    <3>4. QED
      BY <3>1, <3>2, <3>3 DEF Lasts
  <2>3. QED
    BY <2>1, <2>2
<1>4. Lasts(new) = Lasts(gs)
  BY <1>3
<1>5. \A i \in Lasts(gs) : new[i] = gs[i]
  BY <1>1 DEF Lasts
<1>6. QED
  BY <1>4, <1>5 DEF Base, new

(* ... and deleting one. *)
LEMMA BaseOfRemove ==
  ASSUME NEW gs \in Seq(Group), NEW i \in DOMAIN gs, gs[i].planned
  PROVE  Base(RemoveAt(gs, i)) = Base(gs)
<1> DEFINE new == RemoveAt(gs, i)
           n == Len(gs)
<1>1. n \in Nat /\ DOMAIN gs = 1..n /\ i \in 1..n
  OBVIOUS
<1>2. /\ DOMAIN new = 1..(n - 1)
      /\ \A j \in 1..(n - 1) : /\ j < i => new[j] = gs[j]
                               /\ j >= i => new[j] = gs[j + 1]
  BY RemovedAt
<1> HIDE DEF new, n
<1>3. ASSUME NEW x \in Base(gs) PROVE x \in Base(new)
  <2>1. PICK k \in Lasts(gs) : x = Said(gs[k])
    BY <1>3 DEF Base
  <2>2. k \in 1..n /\ ~gs[k].planned /\ k # i
    BY <1>1, <2>1 DEF Lasts
  <2>3. PICK m \in 1..(n - 1) : (k < i /\ m = k) \/ (k > i /\ m = k - 1)
    <3>1. CASE k < i
      BY <1>1, <2>2, <3>1
    <3>2. CASE k > i
      <4>1. k - 1 \in 1..(n - 1)
        BY <1>1, <2>2, <3>2
      <4>2. QED
        BY <3>2, <4>1
    <3>3. QED
      BY <1>1, <2>2, <3>1, <3>2
  <2>4. new[m] = gs[k]
    <3>1. CASE k < i /\ m = k
      BY <1>2, <3>1
    <3>2. CASE k > i /\ m = k - 1
      <4>1. m >= i /\ m + 1 = k
        BY <1>1, <2>2, <3>2
      <4>2. QED
        BY <1>2, <4>1
    <3>3. QED
      BY <2>3, <3>1, <3>2
  <2>5. ASSUME NEW j \in 1..(n - 1), j > m, Key(new[j]) = Key(new[m]) PROVE new[j].planned
    <3>1. PICK l \in 1..n : new[j] = gs[l] /\ l > k
      <4>1. CASE j < i
        <5>1. j \in 1..n /\ new[j] = gs[j] /\ j > k
          BY <1>1, <1>2, <2>2, <2>3, <2>5, <4>1
        <5>2. QED
          BY <5>1
      <4>2. CASE j >= i
        <5>1. j + 1 \in 1..n /\ new[j] = gs[j + 1] /\ j + 1 > k
          BY <1>1, <1>2, <2>2, <2>3, <2>5, <4>2
        <5>2. QED
          BY <5>1
      <4>3. QED
        BY <1>1, <4>1, <4>2
    <3>2. QED
      BY <1>1, <2>1, <2>4, <2>5, <3>1 DEF Lasts
  <2>6. m \in Lasts(new)
    BY <1>2, <2>2, <2>4, <2>5 DEF Lasts
  <2>7. QED
    BY <2>1, <2>4, <2>6 DEF Base
<1>4. ASSUME NEW x \in Base(new) PROVE x \in Base(gs)
  <2>1. PICK m \in Lasts(new) : x = Said(new[m])
    BY <1>4 DEF Base
  <2>2. m \in 1..(n - 1) /\ ~new[m].planned
    BY <1>2, <2>1 DEF Lasts
  <2>3. PICK k \in 1..n : (m < i /\ k = m) \/ (m >= i /\ k = m + 1)
    <3>1. CASE m < i
      BY <1>1, <2>2, <3>1
    <3>2. CASE m >= i
      <4>1. m + 1 \in 1..n
        BY <1>1, <2>2
      <4>2. QED
        BY <3>2, <4>1
    <3>3. QED
      BY <1>1, <2>2, <3>1, <3>2
  <2>4. new[m] = gs[k] /\ k # i
    BY <1>1, <1>2, <2>2, <2>3
  <2>5. ASSUME NEW j \in 1..n, j > k, Key(gs[j]) = Key(gs[k]) PROVE gs[j].planned
    <3>1. CASE j = i
      BY <3>1
    <3>2. CASE j < i
      <4>1. j \in 1..(n - 1) /\ j > m /\ new[j] = gs[j]
        BY <1>1, <1>2, <2>2, <2>3, <2>5, <3>2
      <4>2. QED
        BY <1>2, <2>1, <2>4, <2>5, <4>1 DEF Lasts
    <3>3. CASE j > i
      <4>1. j - 1 \in 1..(n - 1) /\ j - 1 > m /\ j - 1 >= i /\ (j - 1) + 1 = j
        BY <1>1, <2>2, <2>3, <2>5, <3>3
      <4>2. new[j - 1] = gs[j]
        BY <1>2, <4>1
      <4>3. QED
        BY <1>2, <2>1, <2>4, <2>5, <4>1, <4>2 DEF Lasts
    <3>4. QED
      BY <1>1, <3>1, <3>2, <3>3
  <2>6. k \in Lasts(gs)
    BY <1>1, <2>2, <2>4, <2>5 DEF Lasts
  <2>7. QED
    BY <2>1, <2>4, <2>6 DEF Base
<1>5. Base(new) = Base(gs)
  BY <1>3, <1>4
<1>6. QED
  BY <1>5 DEF new

(* The baseline has the keys of the built groups.                          *)
LEMMA BaseKeys ==
  ASSUME NEW gs \in Seq(Group)
  PROVE  \A k : k \in BuiltKeys(gs) <=> \E x \in Base(gs) : x[1] = k
<1>0. Len(gs) \in Nat /\ DOMAIN gs = 1..Len(gs)
  BY Places
<1>1. ASSUME NEW k \in BuiltKeys(gs) PROVE \E x \in Base(gs) : x[1] = k
  <2> DEFINE S == {i \in BuiltAt(gs) : Key(gs[i]) = k}
  <2>1. S \in SUBSET (0..Len(gs)) /\ S # {}
    BY <1>0 DEF BuiltKeys, BuiltAt
  <2>2. Max(S) \in S /\ \A i \in S : i <= Max(S)
    BY <1>0, <2>1, MaxIs
  <2> DEFINE m == Max(S)
  <2> HIDE DEF m
  <2>3. m \in S /\ \A i \in S : i <= m
    BY <2>2 DEF m
  <2>4. \A j \in DOMAIN gs : j > m /\ Key(gs[j]) = Key(gs[m]) => gs[j].planned
    BY <1>0, <2>3 DEF BuiltAt
  <2>5. m \in Lasts(gs)
    BY <2>3, <2>4 DEF Lasts, BuiltAt
  <2>6. Said(gs[m]) \in Base(gs) /\ Said(gs[m])[1] = k
    BY <2>3, <2>5 DEF Base, Said
  <2>7. QED
    BY <2>6
<1>2. ASSUME NEW x \in Base(gs) PROVE x[1] \in BuiltKeys(gs)
  BY DEF Base, Lasts, BuiltKeys, BuiltAt, Said
<1>3. QED
  BY <1>1, <1>2

(* An item that fits a built layer fits one with the same baselines.       *)
LEMMA AimedAlike ==
  ASSUME NEW gs \in Seq(Group), NEW hs \in Seq(Group), Base(hs) = Base(gs), NEW op, Aimed(op, gs)
  PROVE  Aimed(op, hs)
<1>1. \A k : k \in BuiltKeys(hs) => k \in BuiltKeys(gs)
  BY BaseKeys
<1>2. QED
  BY <1>1 DEF Aimed

(* Without planned groups, the baseline is what the diff looks up.         *)
Unmixed(gs) == \A i \in DOMAIN gs : ~gs[i].planned

(* Each key of a factory without planned groups has one baseline, its      *)
(* listed one.                                                             *)
LEMMA BaseIs ==
  ASSUME NEW gs \in Seq(Group), Unmixed(gs)
  PROVE  /\ \A k \in Keys(gs) : Said(Listed(gs, k)) \in Base(gs)
         /\ \A x \in Base(gs) : x[1] \in Keys(gs) /\ x = Said(Listed(gs, x[1]))
<1>0. Len(gs) \in Nat /\ DOMAIN gs = 1..Len(gs)
  BY Places
<1>1. ASSUME NEW k \in Keys(gs) PROVE Said(Listed(gs, k)) \in Base(gs)
  <2> DEFINE m == Max(At(gs, k))
  <2>1. /\ m \in DOMAIN gs /\ Listed(gs, k) = gs[m] /\ Key(gs[m]) = k
        /\ \A i \in DOMAIN gs : Key(gs[i]) = k => i <= m
    <3>1. /\ m \in DOMAIN gs /\ Listed(gs, k) = gs[m] /\ Key(Listed(gs, k)) = k
          /\ \A i \in DOMAIN gs : Key(gs[i]) = k => i <= m
      BY ListedIs
    <3>2. QED
      BY <3>1
  <2> HIDE DEF m
  <2>2. \A j \in DOMAIN gs : ~(j > m /\ Key(gs[j]) = Key(gs[m]))
    BY <1>0, <2>1
  <2>3. m \in Lasts(gs)
    BY <2>1, <2>2 DEF Lasts, Unmixed
  <2>4. QED
    BY <2>1, <2>3 DEF Base
<1>2. ASSUME NEW x \in Base(gs) PROVE x[1] \in Keys(gs) /\ x = Said(Listed(gs, x[1]))
  <2>1. PICK i \in Lasts(gs) : x = Said(gs[i])
    BY <1>2 DEF Base
  <2> DEFINE k == Key(gs[i])
             m == Max(At(gs, k))
  <2>2. i \in DOMAIN gs /\ k \in Keys(gs) /\ x[1] = k
    BY <2>1 DEF Lasts, Keys, Range, Said
  <2>3. /\ m \in DOMAIN gs /\ Listed(gs, k) = gs[m] /\ Key(Listed(gs, k)) = k /\ i <= m
    BY <2>2, ListedIs
  <2> HIDE DEF m
  <2>4. Key(gs[m]) = Key(gs[i])
    BY <2>3
  <2> HIDE DEF k
  <2>5. ~(m > i)
    BY <2>1, <2>3, <2>4 DEF Lasts, Unmixed
  <2>6. m = i
    BY <1>0, <2>2, <2>3, <2>5
  <2>7. QED
    BY <2>1, <2>2, <2>3, <2>6
<1>3. QED
  BY <1>1, <1>2

(* Such factories look alike if their baselines are the same. *)
LEMMA BaseDecides ==
  ASSUME NEW gs \in Seq(Group), NEW hs \in Seq(Group), Unmixed(gs), Unmixed(hs), Base(gs) = Base(hs)
  PROVE  Alike(gs, hs)
<1>1. ASSUME NEW k \in Keys(gs)
      PROVE  k \in Keys(hs) /\ SameBaseline(Listed(gs, k), Listed(hs, k))
  <2> DEFINE x == Said(Listed(gs, k))
  <2>1. x[1] = k
    BY ListedIs DEF Said
  <2>2. x \in Base(hs)
    BY BaseIs
  <2>3. x[1] \in Keys(hs) /\ x = Said(Listed(hs, x[1]))
    BY <2>2, BaseIs
  <2>4. Said(Listed(gs, k)) = Said(Listed(hs, k))
    BY <2>1, <2>3
  <2>5. QED
    BY <2>1, <2>3, <2>4 DEF Said, SameBaseline
<1>2. ASSUME NEW k \in Keys(hs) PROVE k \in Keys(gs)
  <2> DEFINE x == Said(Listed(hs, k))
  <2>1. x[1] = k
    BY ListedIs DEF Said
  <2>2. x \in Base(gs)
    BY BaseIs
  <2>3. QED
    BY <2>1, <2>2, BaseIs
<1>3. Keys(gs) = Keys(hs)
  BY <1>1, <1>2
<1>4. QED
  BY <1>1, <1>3 DEF Alike

------------------------------------------------------------------------------
(* Fuels and generators matched by rank *)

(* The rank of a number among those of a set. *)
Rank(S, x) == Cardinality(Below(S, x))

(* A rank is a number, and each member has its own. *)
LEMMA RankIs ==
  ASSUME NEW S, IsFiniteSet(S), S \subseteq Nat
  PROVE  /\ \A x : Rank(S, x) \in Nat
         /\ \A x, y \in S : Rank(S, x) = Rank(S, y) => x = y
         /\ \A x, y \in S : x < y => Rank(S, x) < Rank(S, y)
<1>1. \A x : IsFiniteSet(Below(S, x)) /\ Rank(S, x) \in Nat
  <2>1. \A x : Below(S, x) \in SUBSET S
    BY DEF Below
  <2>2. QED
    BY <2>1, FS_Subset, FS_CardinalityType DEF Rank
<1>2. ASSUME NEW x \in S, NEW y \in S, x < y
      PROVE  Rank(S, x) < Rank(S, y)
  <2>1. Below(S, x) \in SUBSET Below(S, y)
    <3>1. x \in Nat /\ y \in Nat /\ \A z \in S : z \in Nat
      OBVIOUS
    <3>2. \A z \in S : z < x => z < y
      BY <1>2, <3>1
    <3>3. QED
      BY <3>2 DEF Below
  <2>2. Rank(S, x) <= Rank(S, y)
    BY <1>1, <2>1, FS_Subset DEF Rank
  <2>3. Rank(S, x) # Rank(S, y)
    BY <1>2, BelowStrict DEF Rank
  <2>4. QED
    BY <1>1, <2>2, <2>3
<1>3. ASSUME NEW x \in S, NEW y \in S, Rank(S, x) = Rank(S, y)
      PROVE  x = y
  <2>1. x \in Nat /\ y \in Nat
    OBVIOUS
  <2>2. ~(x < y) /\ ~(y < x)
    BY <1>1, <1>2, <1>3
  <2>3. QED
    BY <2>1, <2>2
<1>4. QED
  BY <1>1, <1>2, <1>3

(* Every rank up to that of a member is the rank of one. *)
LEMMA RankTaken ==
  ASSUME NEW S, IsFiniteSet(S), S \subseteq Nat, NEW x \in S, NEW n \in Nat, n <= Rank(S, x)
  PROVE  \E y \in S : Rank(S, y) = n
<1> DEFINE T == {y \in S : n <= Rank(S, y)}
<1>1. T \in SUBSET Nat /\ T # {}
  OBVIOUS
<1>2. PICK m \in T : \A k \in T : m <= k
  BY <1>1, LeastMember
<1>3. m \in S /\ m \in Nat /\ n <= Rank(S, m) /\ Rank(S, m) \in Nat
  BY <1>1, <1>2, RankIs
<1>4. ASSUME n < Rank(S, m) PROVE FALSE
  <2>1. Below(S, m) \in SUBSET (0..m) /\ IsFiniteSet(Below(S, m))
    <3>1. Below(S, m) \in SUBSET S
      BY DEF Below
    <3>2. \A y \in Below(S, m) : y \in Nat /\ y < m
      BY <3>1 DEF Below
    <3>3. QED
      BY <1>3, <3>1, <3>2, FS_Subset
  <2>2. Below(S, m) # {}
    BY <1>3, <1>4, FS_EmptySet DEF Rank
  <2> DEFINE y == Max(Below(S, m))
  <2>3. y \in Below(S, m) /\ \A z \in Below(S, m) : z <= y
    BY <1>3, <2>1, <2>2, MaxIs
  <2> HIDE DEF y
  <2>4. y \in S /\ y < m /\ y \in Nat
    BY <2>3 DEF Below
  <2>5. Below(S, y) = Below(S, m) \ {y}
    <3>1. \A z \in S : z \in Nat
      OBVIOUS
    <3>2. \A z \in S : z < m => z <= y
      BY <2>3 DEF Below
    <3>3. \A z \in S : z < y <=> z < m /\ z # y
      BY <1>3, <2>4, <3>1, <3>2
    <3>4. QED
      BY <3>3 DEF Below
  <2>6. Rank(S, y) = Rank(S, m) - 1
    BY <2>1, <2>3, <2>5, FS_RemoveElement DEF Rank
  <2>7. n <= Rank(S, y)
    BY <1>3, <1>4, <2>6
  <2>8. QED
    BY <1>2, <1>3, <2>4, <2>7
<1>5. Rank(S, m) = n
  BY <1>3, <1>4
<1>6. QED
  BY <1>3, <1>5

\* The pairs of members of two sets that have one rank.
Paired(R, S, i, r) == i \in R /\ r \in S /\ Rank(S, r) = Rank(R, i)

\* Two sets of numbers, and what is left of each.
Numbers(R, S, P, Q) ==
  /\ IsFiniteSet(R) /\ R \subseteq Nat /\ P \subseteq R
  /\ IsFiniteSet(S) /\ S \subseteq Nat /\ Q \subseteq S

\* Pairs go or stay together.
Together(R, S, P, Q) == \A i, r : Paired(R, S, i, r) => (i \in P <=> r \in Q)

(* A pair that stays is a pair of what is left. *)
LEMMA PairStays ==
  ASSUME NEW R, NEW S, NEW P, NEW Q, Numbers(R, S, P, Q), Together(R, S, P, Q),
         NEW i \in P, NEW r, Paired(R, S, i, r)
  PROVE  Paired(P, Q, i, r)
<1>1. /\ IsFiniteSet(R) /\ R \subseteq Nat /\ P \subseteq R
      /\ IsFiniteSet(S) /\ S \subseteq Nat /\ Q \subseteq S
  BY DEF Numbers
<1>2. i \in R /\ r \in S /\ Rank(S, r) = Rank(R, i) /\ r \in Q
  BY DEF Paired, Together
<1>3. ASSUME NEW j \in Below(P, i) PROVE \E q \in Below(Q, r) : Paired(R, S, j, q)
  <2>1. j \in P /\ j \in R /\ j < i
    BY <1>1 DEF Below
  <2>2. Rank(R, j) < Rank(R, i) /\ Rank(R, j) \in Nat /\ Rank(R, i) \in Nat
    BY <1>1, <1>2, <2>1, RankIs
  <2>3. PICK q \in S : Rank(S, q) = Rank(R, j)
    <3>1. Rank(R, j) <= Rank(S, r)
      BY <1>2, <2>2
    <3>2. QED
      BY <1>1, <1>2, <2>2, <3>1, RankTaken
  <2>4. Paired(R, S, j, q)
    BY <2>1, <2>3 DEF Paired
  <2>5. q \in Q
    BY <2>1, <2>4 DEF Together
  <2>6. q < r
    <3>1. q \in Nat /\ r \in Nat
      BY <1>1, <1>2
    <3> DEFINE n == Rank(S, q)
               k == Rank(S, r)
    <3>a. n < k /\ n \in Nat /\ k \in Nat
      BY <1>2, <2>2, <2>3
    <3>b. r < q => k < n
      BY <1>1, <1>2, RankIs
    <3> HIDE DEF n, k
    <3>2. ~(r < q) /\ r # q
      <4>1. r # q
        BY <3>a DEF n, k
      <4>2. QED
        BY <3>a, <3>b, <4>1
    <3>3. QED
      BY <3>1, <3>2
  <2>7. QED
    BY <2>4, <2>5, <2>6 DEF Below
<1>4. ASSUME NEW q \in Below(Q, r) PROVE \E j \in Below(P, i) : Paired(R, S, j, q)
  <2>1. q \in Q /\ q \in S /\ q < r
    BY <1>1 DEF Below
  <2>2. Rank(S, q) < Rank(S, r) /\ Rank(S, q) \in Nat /\ Rank(S, r) \in Nat
    BY <1>1, <1>2, <2>1, RankIs
  <2>3. PICK j \in R : Rank(R, j) = Rank(S, q)
    <3>1. Rank(S, q) <= Rank(R, i)
      BY <1>2, <2>2
    <3>2. QED
      BY <1>1, <1>2, <2>2, <3>1, RankTaken
  <2>4. Paired(R, S, j, q)
    BY <2>1, <2>3 DEF Paired
  <2>5. j \in P
    BY <2>1, <2>4 DEF Together
  <2>6. j < i
    <3>1. j \in Nat /\ i \in Nat
      BY <1>1, <1>2
    <3> DEFINE n == Rank(R, j)
               k == Rank(R, i)
    <3>a. n < k /\ n \in Nat /\ k \in Nat
      BY <1>2, <2>2, <2>3
    <3>b. i < j => k < n
      BY <1>1, <1>2, RankIs
    <3> HIDE DEF n, k
    <3>2. ~(i < j) /\ i # j
      <4>1. i # j
        BY <3>a DEF n, k
      <4>2. QED
        BY <3>a, <3>b, <4>1
    <3>3. QED
      BY <3>1, <3>2
  <2>7. QED
    BY <2>4, <2>5, <2>6 DEF Below
<1>5. \A j \in R, q, t \in S : Paired(R, S, j, q) /\ Paired(R, S, j, t) => q = t
  BY <1>1, RankIs DEF Paired
<1>6. \A j, k \in R, q \in S : Paired(R, S, j, q) /\ Paired(R, S, k, q) => j = k
  BY <1>1, RankIs DEF Paired
<1> DEFINE f == [j \in Below(P, i) |-> CHOOSE q \in Below(Q, r) : Paired(R, S, j, q)]
<1>7. \A j \in Below(P, i) : f[j] \in Below(Q, r) /\ Paired(R, S, j, f[j])
  BY <1>3
<1>8. f \in [Below(P, i) -> Below(Q, r)]
  BY <1>7
<1> HIDE DEF f
<1>9. Below(P, i) \subseteq R /\ Below(Q, r) \subseteq S
  BY <1>1 DEF Below
<1>10. f \in Bijection(Below(P, i), Below(Q, r))
  <2>1. \A j, k \in Below(P, i) : f[j] = f[k] => j = k
    BY <1>6, <1>7, <1>9
  <2>2. \A q \in Below(Q, r) : \E j \in Below(P, i) : f[j] = q
    BY <1>4, <1>5, <1>7, <1>9
  <2>3. QED
    BY <1>8, <2>1, <2>2 DEF Bijection, Injection, Surjection, IsInjective
<1>11. Cardinality(Below(P, i)) = Cardinality(Below(Q, r))
  <2>1. IsFiniteSet(Below(P, i))
    BY <1>1, <1>9, FS_Subset
  <2>2. QED
    BY <1>10, <2>1, FS_Bijection DEF ExistsBijection
<1>12. QED
  BY <1>2, <1>11 DEF Paired, Rank

(* And a pair of what is left was one before. *)
LEMMA PairWas ==
  ASSUME NEW R, NEW S, NEW P, NEW Q, Numbers(R, S, P, Q), Together(R, S, P, Q),
         NEW i, NEW r, Paired(P, Q, i, r)
  PROVE  Paired(R, S, i, r)
<1>1. /\ IsFiniteSet(R) /\ R \subseteq Nat /\ P \subseteq R
      /\ IsFiniteSet(S) /\ S \subseteq Nat /\ Q \subseteq S
  BY DEF Numbers
<1>2. IsFiniteSet(P) /\ P \subseteq Nat /\ IsFiniteSet(Q) /\ Q \subseteq Nat
  BY <1>1, FS_Subset
<1>3. i \in P /\ r \in Q /\ i \in R /\ r \in S /\ Rank(Q, r) = Rank(P, i)
  BY <1>1 DEF Paired
<1>4. Rank(R, i) \in Nat /\ Rank(S, r) \in Nat
  BY <1>1, RankIs
<1>5. CASE Rank(R, i) <= Rank(S, r)
  <2>1. PICK q \in S : Rank(S, q) = Rank(R, i)
    BY <1>1, <1>3, <1>4, <1>5, RankTaken
  <2>2. Paired(R, S, i, q)
    BY <1>3, <2>1 DEF Paired
  <2>3. Paired(P, Q, i, q)
    BY <1>3, <2>2, PairStays
  <2>4. q = r
    BY <1>2, <1>3, <2>3, RankIs DEF Paired
  <2>5. QED
    BY <2>2, <2>4
<1>6. CASE Rank(S, r) <= Rank(R, i)
  <2>1. PICK j \in R : Rank(R, j) = Rank(S, r)
    BY <1>1, <1>3, <1>4, <1>6, RankTaken
  <2>2. Paired(R, S, j, r)
    BY <1>3, <2>1 DEF Paired
  <2>3. j \in P
    BY <1>3, <2>2 DEF Together
  <2>4. Paired(P, Q, j, r)
    BY <2>2, <2>3, PairStays
  <2>5. j = i
    BY <1>2, <1>3, <2>4, RankIs DEF Paired
  <2>6. QED
    BY <2>2, <2>5
<1>7. QED
  BY <1>4, <1>5, <1>6

------------------------------------------------------------------------------
(* Fuels taken *)

(* A sequence that lays out a finite set holds all of it. *)
LEMMA LaidOutAll ==
  ASSUME NEW S, IsFiniteSet(S)
  PROVE  \A x : x \in S <=> \E i \in DOMAIN SetToSeq(S) : SetToSeq(S)[i] = x
<1> DEFINE n == Cardinality(S)
           q == SetToSeq(S)
<1>1. n \in Nat /\ ExistsBijection(1..n, S)
  BY FS_CardinalityType
<1>2. \E f \in [1..n -> S] : IsInjective(f)
  BY <1>1 DEF ExistsBijection, Bijection, Injection
<1>3. q \in [1..n -> S] /\ IsInjective(q)
  BY <1>2 DEF SetToSeq
<1> HIDE DEF q, n
<1>4. q \in Injection(1..n, S)
  BY <1>3 DEF Injection
<1>5. Cardinality(1..n) = n
  BY <1>1, FS_Interval
<1>6. q \in Surjection(1..n, S)
  BY <1>4, <1>5, FS_Injection DEF n
<1>7. QED
  BY <1>3, <1>6 DEF Surjection, q

(* The generators and fuels that are matched are finitely many numbers. *)
LEMMA MatchedFinite ==
  ASSUME NEW s, NEW gs, NEW c, Comparing(s, gs, c), NEW m
  PROVE  /\ IsFiniteSet(Refueled(gs, c, m)) /\ Refueled(gs, c, m) \subseteq Nat
         /\ IsFiniteSet(Spare(gs, c, m)) /\ Spare(gs, c, m) \subseteq Nat
<1>1. Len(c) \in Nat /\ DOMAIN c = 1..Len(c)
  BY SavePlaces DEF Comparing
<1>2. IsFiniteSet(1..Len(c)) /\ \A n \in 1..Len(c) : n \in Nat
  BY <1>1, FS_Interval
<1>3. IsFiniteSet(Refueled(gs, c, m)) /\ Refueled(gs, c, m) \subseteq Nat
  <2>1. Refueled(gs, c, m) \in SUBSET (1..Len(c))
    BY <1>1 DEF Refueled
  <2>2. QED
    BY <1>2, <2>1, FS_Subset
<1> DEFINE K == {k \in Keys(gs) : \E r \in Spare(gs, c, m) : k = <<m, r>>}
           f == [k \in K |-> k[2]]
<1>4. IsFiniteSet(K)
  <2>1. IsFiniteSet(Keys(gs))
    BY KeysFinite DEF Comparing
  <2>2. QED
    BY <2>1, FS_Subset
<1>5. f \in Surjection(K, Spare(gs, c, m))
  <2>1. \A r \in Spare(gs, c, m) : <<m, r>> \in K /\ f[<<m, r>>] = r
    BY DEF Spare
  <2>2. \A k \in K : f[k] \in Spare(gs, c, m)
    OBVIOUS
  <2>3. f \in [K -> Spare(gs, c, m)]
    BY <2>2
  <2> HIDE DEF f, K
  <2>4. QED
    BY <2>1, <2>3 DEF Surjection
<1> HIDE DEF f, K
<1>6. IsFiniteSet(Spare(gs, c, m))
  BY <1>4, <1>5, FS_Surjection
<1>7. Spare(gs, c, m) \subseteq Nat
  BY DriftAssumption DEF Spare
<1>8. QED
  BY <1>3, <1>6, <1>7

(* A generator takes the fuel of its own rank. *)
LEMMA TakenPaired ==
  ASSUME NEW gs, NEW c, NEW i, NEW m, c[i].machine = m, i \in Refueled(gs, c, m)
  PROVE  \A r : r \in Taken(gs, c, i) <=>
                  Paired(Refueled(gs, c, m), Spare(gs, c, m), i, r)
  BY DEF Taken, Paired, Rank

(* It takes at most one. *)
LEMMA OneTaken ==
  ASSUME NEW s, NEW gs, NEW c, Comparing(s, gs, c), NEW i, Burns(gs, c, i),
         NEW r \in Taken(gs, c, i), NEW q \in Taken(gs, c, i)
  PROVE  q = r
<1> DEFINE m == c[i].machine
           R == Refueled(gs, c, m)
           S == Spare(gs, c, m)
<1>1. i \in R
  BY DEF Burns
<1>2. Paired(R, S, i, r) /\ Paired(R, S, i, q)
  BY <1>1, TakenPaired
<1>3. IsFiniteSet(S) /\ S \subseteq Nat
  BY MatchedFinite
<1> HIDE DEF R, S
<1>4. QED
  BY <1>2, <1>3, RankIs DEF Paired

(* Of the generators and fuels of machine m some are left, in pairs. *)
Left(gs, hs, c, m) ==
  /\ Refueled(hs, c, m) \subseteq Refueled(gs, c, m)
  /\ Spare(hs, c, m) \subseteq Spare(gs, c, m)
  /\ Together(Refueled(gs, c, m), Spare(gs, c, m), Refueled(hs, c, m), Spare(hs, c, m))

(* The generators left take the fuels they took. *)
LEMMA LeftTake ==
  ASSUME NEW s, NEW gs, NEW c, Comparing(s, gs, c), NEW hs, NEW i,
         Left(gs, hs, c, c[i].machine), Burns(hs, c, i)
  PROVE  Burns(gs, c, i) /\ Taken(hs, c, i) = Taken(gs, c, i)
<1> DEFINE m == c[i].machine
           R == Refueled(gs, c, m)
           S == Spare(gs, c, m)
           P == Refueled(hs, c, m)
           Q == Spare(hs, c, m)
<1>1. i \in P /\ P \subseteq R /\ Q \subseteq S /\ Together(R, S, P, Q) /\ i \in R
  BY DEF Left, Burns
<1>2. Numbers(R, S, P, Q)
  BY <1>1, MatchedFinite DEF Numbers
<1>3. \A r : r \in Taken(gs, c, i) <=> Paired(R, S, i, r)
  BY <1>1, TakenPaired
<1>4. \A r : r \in Taken(hs, c, i) <=> Paired(P, Q, i, r)
  BY <1>1, TakenPaired
<1>5. Burns(gs, c, i)
  BY <1>1 DEF Burns
<1> HIDE DEF R, S, P, Q
<1>6. \A r : Paired(P, Q, i, r) <=> Paired(R, S, i, r)
  BY <1>1, <1>2, PairStays, PairWas
<1>7. \A r : r \in Taken(hs, c, i) <=> r \in Taken(gs, c, i)
  BY <1>3, <1>4, <1>6
<1>8. QED
  BY <1>5, <1>7

------------------------------------------------------------------------------
(* The operations of a group of a save *)

\* A generator's refuelling.
Retune(s, sg, old) ==
  GroupOp("retune", s, sg.machine, old,
          IF sg.recipe = Unfueled THEN old ELSE sg.recipe, sg.count, sg.clock)

(* What the i-th group of a save makes. *)
Makes(s, gs, c, i) == Ops(Changed(s, gs, c)[i]) \cup Ops(Retuned(s, gs, c)[i])

(* A group with a key of the factory makes an update if it drifted, one of *)
(* a new key that refuels nothing makes one in any case.                   *)
LEMMA KeyMakes ==
  ASSUME NEW s, NEW gs, NEW c, NEW i \in DOMAIN c, ~Burns(gs, c, i)
  PROVE  /\ Key(c[i]) \notin Keys(gs) => Makes(s, gs, c, i) = {UpdateOp(s, c[i])}
         /\ Key(c[i]) \in Keys(gs) /\ Drifted(Listed(gs, Key(c[i])), c[i]) =>
              Makes(s, gs, c, i) = {UpdateOp(s, c[i])}
         /\ Key(c[i]) \in Keys(gs) /\ ~Drifted(Listed(gs, Key(c[i])), c[i]) =>
              Makes(s, gs, c, i) = {}
<1> DEFINE sg == c[i]
           k == Key(sg)
           g == Listed(gs, k)
           op == UpdateOp(s, sg)
<1>1. Changed(s, gs, c)[i] = KeyItems(s, gs, sg) /\ Retuned(s, gs, c)[i] = <<>>
  BY DEF Changed, Retuned
<1>2. Makes(s, gs, c, i) = Ops(KeyItems(s, gs, sg))
  BY <1>1, OpsOfShort DEF Makes
<1>3. /\ k \notin Keys(gs) => KeyItems(s, gs, sg) = <<Drift(op)>>
      /\ k \in Keys(gs) /\ Drifted(g, sg) => KeyItems(s, gs, sg) = <<Reviewed(g, sg, op)>>
      /\ k \in Keys(gs) /\ ~Drifted(g, sg) => KeyItems(s, gs, sg) = <<>>
  BY DEF KeyItems
<1> HIDE DEF sg, k, g, op
<1>4. Ops(<<Drift(op)>>) = {op} /\ Ops(<<Reviewed(g, sg, op)>>) = {op} /\ Ops(<<>>) = {}
  BY OneReviewed, OpsOfShort, ReviewedOp
<1>5. QED
  BY <1>2, <1>3, <1>4 DEF sg, k, g, op

(* A generator of a new key makes an update if it takes no old fuel, and   *)
(* otherwise a refuelling if there is anything to change.                  *)
LEMMA FuelMakes ==
  ASSUME NEW s, NEW gs, NEW c, Comparing(s, gs, c), NEW i \in DOMAIN c, Burns(gs, c, i)
  PROVE  /\ Taken(gs, c, i) = {} => Makes(s, gs, c, i) = {UpdateOp(s, c[i])}
         /\ \A r \in Taken(gs, c, i) :
              LET op == Retune(s, c[i], r)
                  g  == Listed(gs, <<c[i].machine, r>>)
              IN  /\ op.to # r \/ Drifted(g, c[i]) => Makes(s, gs, c, i) = {op}
                  /\ ~(op.to # r \/ Drifted(g, c[i])) => Makes(s, gs, c, i) = {}
<1> DEFINE sg == c[i]
           m == sg.machine
           T == Taken(gs, c, i)
           fuel == RefuelItems(s, gs, c, i)
<1>1. Changed(s, gs, c)[i] = <<>> /\ Retuned(s, gs, c)[i] = fuel
  BY DEF Changed, Retuned
<1>2. Makes(s, gs, c, i) = Ops(fuel)
  BY <1>1, OpsOfShort DEF Makes
<1>3. ASSUME T = {} PROVE Ops(fuel) = {UpdateOp(s, sg)}
  <2> DEFINE op == UpdateOp(s, sg)
  <2>1. fuel = <<Drift(op)>>
    BY <1>3 DEF RefuelItems
  <2> HIDE DEF op, fuel
  <2>2. Ops(<<Drift(op)>>) = {op}
    BY OpsOfShort, ReviewedOp
  <2>3. QED
    BY <2>1, <2>2 DEF op
<1>4. ASSUME NEW r \in T
      PROVE  LET op == Retune(s, sg, r)
                 g  == Listed(gs, <<m, r>>)
             IN  /\ op.to # r \/ Drifted(g, sg) => Ops(fuel) = {op}
                 /\ ~(op.to # r \/ Drifted(g, sg)) => Ops(fuel) = {}
  <2> DEFINE old == CHOOSE q \in T : TRUE
             new == IF sg.recipe = Unfueled THEN r ELSE sg.recipe
             g   == Listed(gs, <<m, r>>)
             op  == GroupOp("retune", s, m, r, new, sg.count, sg.clock)
  <2>1. old = r
    <3>1. old \in T
      BY <1>4
    <3>2. QED
      BY <1>4, <3>1, OneTaken
  <2>2. T # {}
    BY <1>4
  <2>3. fuel = IF new # r \/ Drifted(g, sg) THEN <<Reviewed(g, sg, op)>> ELSE <<>>
    BY <2>1, <2>2 DEF RefuelItems
  <2>4. op = Retune(s, sg, r) /\ op.to = new
    BY DEF Retune, GroupOp
  <2> HIDE DEF new, g, op, fuel, sg, m
  <2>5. Ops(<<Reviewed(g, sg, op)>>) = {op} /\ Ops(<<>>) = {}
    BY OneReviewed, OpsOfShort
  <2>6. /\ op.to # r \/ Drifted(g, sg) => Ops(fuel) = {op}
        /\ ~(op.to # r \/ Drifted(g, sg)) => Ops(fuel) = {}
    BY <2>3, <2>4, <2>5
  <2>7. QED
    BY <2>4, <2>6, Zenon DEF g
<1> HIDE DEF fuel
<1>5. QED
  BY <1>2, <1>3, <1>4

(* The operations of a factory: those of the save's groups, and one for    *)
(* each key that is gone.                                                  *)
LEMMA FactoryMakes ==
  ASSUME NEW s, NEW gs, NEW c, Comparing(s, gs, c)
  PROVE  \A o : o \in Ops(FactoryItems(s, gs, c)) <=>
                  \/ \E i \in DOMAIN c : o \in Makes(s, gs, c, i)
                  \/ \E k \in Demolished(gs, c) : o = DemolishedItem(s, gs, k).op
<1> DEFINE D == Demolished(gs, c)
           q == SetToSeq(D)
<1>1. IsFiniteSet(D)
  <2>1. IsFiniteSet(Keys(gs))
    BY KeysFinite DEF Comparing
  <2>2. QED
    BY <2>1, FS_Subset DEF Demolished
<1>2. \A k : k \in D <=> \E i \in DOMAIN q : q[i] = k
  BY <1>1, LaidOutAll
<1>3. Lost(s, gs, c) = [i \in DOMAIN q |-> DemolishedItem(s, gs, q[i])]
  BY DEF Lost
<1> HIDE DEF D, q
<1>4. \A x : x \in Range(Lost(s, gs, c)) <=> \E k \in D : x = DemolishedItem(s, gs, k)
  BY <1>2, <1>3 DEF Range
<1>5. \A o : o \in Ops(Lost(s, gs, c)) <=> \E k \in D : o = DemolishedItem(s, gs, k).op
  BY <1>4 DEF Ops
<1>6. QED
  BY <1>5, FactoryOps DEF D, Makes

------------------------------------------------------------------------------
(* Factories of the game only *)

(* No planned groups, and no two of one key. *)
Plain(gs) == gs \in Seq(Group) /\ Unmixed(gs) /\ Apart(gs)

Says(gs) == {Said(gs[i]) : i \in DOMAIN gs}

(* There the game said of each key what the listed group of it says. *)
LEMMA PlainIs ==
  ASSUME NEW gs, Plain(gs)
  PROVE  /\ \A i, j \in DOMAIN gs : Key(gs[i]) = Key(gs[j]) => i = j
         /\ \A k : k \in Keys(gs) <=> \E x \in Says(gs) : x[1] = k
         /\ \A x \in Says(gs) : x = Said(Listed(gs, x[1]))
<1>1. BuiltAt(gs) = DOMAIN gs
  BY DEF Plain, Unmixed, BuiltAt
<1>2. \A i, j \in DOMAIN gs : Key(gs[i]) = Key(gs[j]) => i = j
  BY <1>1 DEF Plain, Apart
<1>3. \A i \in DOMAIN gs : Said(gs[i])[1] = Key(gs[i])
  BY DEF Said
<1>4. \A k : k \in Keys(gs) <=> \E x \in Says(gs) : x[1] = k
  BY <1>3 DEF Keys, Range, Says
<1>5. ASSUME NEW i \in DOMAIN gs PROVE Said(gs[i]) = Said(Listed(gs, Said(gs[i])[1]))
  <2> DEFINE k == Key(gs[i])
             m == Max(At(gs, k))
  <2>1. k \in Keys(gs)
    BY DEF Keys, Range
  <2>2. m \in DOMAIN gs /\ Listed(gs, k) = gs[m] /\ Key(Listed(gs, k)) = k
    BY <2>1, ListedIs DEF Plain
  <2> HIDE DEF m
  <2>3. m = i
    BY <1>2, <2>2
  <2>4. QED
    BY <1>3, <2>2, <2>3
<1>6. QED
  BY <1>2, <1>4, <1>5 DEF Says

\* An item that takes its group out.
Drops(op) == op.do = "update" /\ op.count = 0

(* What the game says once an item is accepted: of the key it leaves its   *)
(* group, what the item says, and nothing of the key the group had.        *)
Moved(gs, hs, op) ==
  \A x : x \in Says(hs) <=>
           \/ x \in Says(gs) /\ x[1] # SrcKey(op)
           \/ ~Drops(op) /\ x = <<DstKey(op), op.count, Clamp(op.clock)>>

(* An item finds its group, or adds one.                                   *)
Finds(op, gs) ==
  SrcKey(op) \notin Keys(gs) => op.do = "update" /\ op.count > 0

(* So it is when an item of a diff is accepted. *)
LEMMA SyncMoves ==
  ASSUME NEW gs, Plain(gs), NEW op \in Op, NEW take \in BOOLEAN, Grouped(op), Aimed(op, gs),
         Finds(op, gs)
  PROVE  /\ Plain(SyncGroups(gs, op, take))
         /\ Moved(gs, SyncGroups(gs, op, take), op)
<1> DEFINE hs == SyncGroups(gs, op, take)
           said == <<DstKey(op), op.count, Clamp(op.clock)>>
<1>0. /\ gs \in Seq(Group) /\ Apart(gs) /\ \A i \in DOMAIN gs : ~gs[i].planned /\ gs[i] \in Group
      /\ \A i, j \in DOMAIN gs : Key(gs[i]) = Key(gs[j]) => i = j
      /\ Len(gs) \in Nat /\ DOMAIN gs = 1..Len(gs)
  BY PlainIs, Places DEF Plain, Unmixed
<1>1. \/ SyncsOne(gs, op, take, hs) \/ DropsOne(gs, op, hs)
      \/ AddsOne(gs, op, hs) \/ LeavesAll(gs, op, hs)
  BY <1>0, SyncGroupsIs
<1>2. hs \in Seq(Group) /\ Apart(hs)
  BY <1>0, SyncGroupsTyped, SyncApart
<1>3. SrcKey(op) \in Keys(gs) <=> At(gs, SrcKey(op)) # {}
  BY DEF Keys, Range, At
<1>4. \A i \in DOMAIN gs : Said(gs[i])[1] = Key(gs[i])
  BY DEF Said
<1> HIDE DEF hs
<1>5. CASE SyncsOne(gs, op, take, hs)
  <2>1. PICK i \in DOMAIN gs : /\ Key(gs[i]) = SrcKey(op)
                               /\ op.do = "retune" \/ op.count > 0
                               /\ hs = [gs EXCEPT ![i] = Synced(gs[i], op, take)]
    BY <1>5 DEF SyncsOne, SrcKey
  <2> DEFINE h == Synced(gs[i], op, take)
  <2>2. h.planned = gs[i].planned /\ Key(h) = <<gs[i].machine, op.to>> /\ h.count = op.count
        /\ h.clock = Clamp(op.clock)
    BY <1>0, SyncedIs
  <2>3. gs[i].machine = op.machine
    BY <2>1 DEF Key, SrcKey
  <2>4. hs = [gs EXCEPT ![i] = h]
    BY <2>1
  <2> HIDE DEF h
  <2>5. Said(h) = said
    BY <2>2, <2>3 DEF Said, DstKey
  <2>6. DOMAIN hs = DOMAIN gs /\ hs[i] = h /\ \A j \in DOMAIN gs : j # i => hs[j] = gs[j]
    BY <2>4
  <2>7. Unmixed(hs)
    BY <1>0, <2>2, <2>6 DEF Unmixed
  <2>8. ~Drops(op)
    <3>1. op.count \in Nat
      BY DEF Op
    <3>2. QED
      BY <2>1, <3>1 DEF Drops
  <2>9. \A j \in DOMAIN gs : j # i <=> Key(gs[j]) # SrcKey(op)
    BY <1>0, <2>1
  <2>10. Moved(gs, hs, op)
    <3>1. ASSUME NEW x \in Says(hs) PROVE (x \in Says(gs) /\ x[1] # SrcKey(op)) \/ x = said
      <4>1. PICK j \in DOMAIN hs : x = Said(hs[j])
        BY <3>1 DEF Says
      <4>2. QED
        BY <1>4, <2>5, <2>6, <2>9, <4>1 DEF Says
    <3>2. ASSUME NEW x \in Says(gs), x[1] # SrcKey(op) PROVE x \in Says(hs)
      <4>1. PICK j \in DOMAIN gs : x = Said(gs[j])
        BY <3>2 DEF Says
      <4>2. QED
        BY <1>4, <2>6, <2>9, <3>2, <4>1 DEF Says
    <3>3. said \in Says(hs)
      BY <2>5, <2>6 DEF Says
    <3>4. QED
      BY <2>8, <3>1, <3>2, <3>3 DEF Moved
  <2>11. QED
    BY <1>2, <2>7, <2>10 DEF Plain, hs
<1>6. CASE DropsOne(gs, op, hs)
  <2>1. PICK i \in DOMAIN gs : /\ Key(gs[i]) = SrcKey(op)
                               /\ Drops(op)
                               /\ hs = RemoveAt(gs, i)
    BY <1>6 DEF DropsOne, SrcKey, Drops
  <2> DEFINE n == Len(gs)
  <2>2. /\ DOMAIN hs = 1..(n - 1)
        /\ \A j \in 1..(n - 1) : /\ j < i => hs[j] = gs[j]
                                 /\ j >= i => hs[j] = gs[j + 1]
    BY <1>0, <2>1, RemovedAt
  <2>3. n \in Nat /\ DOMAIN gs = 1..n /\ i \in 1..n
    BY <1>0
  <2> HIDE DEF n
  <2>4. ASSUME NEW j \in DOMAIN hs PROVE \E k \in DOMAIN gs : k # i /\ hs[j] = gs[k]
    <3>1. CASE j < i
      BY <2>2, <2>3, <3>1
    <3>2. CASE j >= i
      <4>1. j + 1 \in DOMAIN gs /\ j + 1 # i /\ hs[j] = gs[j + 1]
        BY <2>2, <2>3, <3>2
      <4>2. QED
        BY <4>1
    <3>3. QED
      BY <2>2, <2>3, <3>1, <3>2
  <2>5. ASSUME NEW k \in DOMAIN gs, k # i PROVE \E j \in DOMAIN hs : hs[j] = gs[k]
    <3>1. CASE k < i
      <4>1. k \in 1..(n - 1)
        BY <2>3, <3>1
      <4>2. QED
        BY <2>2, <3>1, <4>1
    <3>2. CASE k > i
      <4>1. k - 1 \in 1..(n - 1) /\ k - 1 >= i /\ (k - 1) + 1 = k
        BY <2>3, <3>2
      <4>2. hs[k - 1] = gs[k]
        BY <2>2, <4>1
      <4>3. QED
        BY <2>2, <4>1, <4>2
    <3>3. QED
      BY <2>3, <2>5, <3>1, <3>2
  <2>6. \A k \in DOMAIN gs : k # i <=> Key(gs[k]) # SrcKey(op)
    BY <1>0, <2>1
  <2>7. Unmixed(hs)
    BY <1>0, <2>4 DEF Unmixed
  <2>8. \A x : x \in Says(hs) <=> x \in Says(gs) /\ x[1] # SrcKey(op)
    <3>1. ASSUME NEW x \in Says(hs) PROVE x \in Says(gs) /\ x[1] # SrcKey(op)
      <4>1. PICK j \in DOMAIN hs : x = Said(hs[j])
        BY <3>1 DEF Says
      <4>2. PICK k \in DOMAIN gs : k # i /\ hs[j] = gs[k]
        BY <2>4
      <4>3. x = Said(gs[k]) /\ x[1] = Key(gs[k])
        BY <1>4, <4>1, <4>2
      <4>4. QED
        BY <2>6, <4>2, <4>3 DEF Says
    <3>2. ASSUME NEW x \in Says(gs), x[1] # SrcKey(op) PROVE x \in Says(hs)
      <4>1. PICK k \in DOMAIN gs : x = Said(gs[k])
        BY <3>2 DEF Says
      <4>2. k # i
        BY <1>4, <2>6, <3>2, <4>1
      <4>3. QED
        BY <2>5, <4>1, <4>2 DEF Says
    <3>3. QED
      BY <3>1, <3>2
  <2>9. QED
    BY <1>2, <2>1, <2>7, <2>8 DEF Plain, Moved, hs
<1>7. CASE AddsOne(gs, op, hs)
  <2>1. PICK g \in Group : /\ ~g.planned
                           /\ Said(g) = <<SrcKey(op), op.count, Clamp(op.clock)>>
                           /\ hs = Append(gs, g)
    BY <1>7 DEF AddsOne
  <2>2. op.do = "update" /\ op.count > 0 /\ SrcKey(op) \notin Keys(gs)
    BY <1>3, <1>7 DEF AddsOne
  <2>3. DstKey(op) = SrcKey(op)
    BY <2>2 DEF Aimed, SrcKey, DstKey
  <2>4. Said(g) = said
    BY <2>1, <2>3
  <2> DEFINE n == Len(gs)
  <2>5. /\ n \in Nat /\ DOMAIN gs = 1..n /\ DOMAIN hs = 1..(n + 1)
        /\ hs[n + 1] = g /\ \A j \in 1..n : hs[j] = gs[j]
    BY <1>0, <2>1
  <2> HIDE DEF n
  <2>6. \A j : j \in DOMAIN hs <=> j \in DOMAIN gs \/ j = n + 1
    BY <2>5
  <2>7. Unmixed(hs)
    BY <1>0, <2>1, <2>5, <2>6 DEF Unmixed
  <2>8. \A j \in DOMAIN gs : Key(gs[j]) # SrcKey(op)
    BY <2>2 DEF Keys, Range
  <2>9. \A x : x \in Says(hs) <=> x \in Says(gs) \/ x = said
    <3>1. \A x : x \in Says(hs) <=> (\E j \in DOMAIN gs : x = Said(gs[j])) \/ x = Said(g)
      BY <2>5, <2>6 DEF Says
    <3>2. QED
      BY <2>4, <3>1 DEF Says
  <2>10. \A x \in Says(gs) : x[1] # SrcKey(op)
    BY <1>4, <2>8 DEF Says
  <2>11. ~Drops(op)
    <3>1. op.count \in Nat
      BY DEF Op
    <3>2. QED
      BY <2>2, <3>1 DEF Drops
  <2>12. Moved(gs, hs, op)
    BY <2>9, <2>10, <2>11 DEF Moved
  <2>13. QED
    BY <1>2, <2>7, <2>12 DEF Plain, hs
<1>8. CASE LeavesAll(gs, op, hs)
  <2>1. SrcKey(op) \notin Keys(gs) /\ ~(op.do = "update" /\ op.count > 0)
    BY <1>3, <1>8 DEF LeavesAll
  <2>2. QED
    BY <2>1 DEF Finds
<1>9. QED
  BY <1>1, <1>5, <1>6, <1>7, <1>8

(* What such a move does to the keys and what is listed for them. *)
LEMMA MovedKeys ==
  ASSUME NEW gs, NEW hs, Plain(gs), Plain(hs), NEW op, Moved(gs, hs, op)
  PROVE  /\ \A k : k \in Keys(hs) <=> \/ k \in Keys(gs) /\ k # SrcKey(op)
                                      \/ ~Drops(op) /\ k = DstKey(op)
         /\ \A k \in Keys(gs) : k # SrcKey(op) /\ k # DstKey(op) =>
              SameBaseline(Listed(gs, k), Listed(hs, k))
         /\ ~Drops(op) => LET g == Listed(hs, DstKey(op))
                          IN  g.count = op.count /\ g.clock = Clamp(op.clock)
<1> DEFINE said == <<DstKey(op), op.count, Clamp(op.clock)>>
<1>1. /\ \A k : k \in Keys(gs) <=> \E x \in Says(gs) : x[1] = k
      /\ \A x \in Says(gs) : x = Said(Listed(gs, x[1]))
      /\ \A k : k \in Keys(hs) <=> \E x \in Says(hs) : x[1] = k
      /\ \A x \in Says(hs) : x = Said(Listed(hs, x[1]))
  BY PlainIs
<1>2. \A x : x \in Says(hs) <=> (x \in Says(gs) /\ x[1] # SrcKey(op)) \/ (~Drops(op) /\ x = said)
  BY DEF Moved
<1>3. said[1] = DstKey(op)
  OBVIOUS
<1>4. \A k : k \in Keys(hs) <=> (k \in Keys(gs) /\ k # SrcKey(op)) \/ (~Drops(op) /\ k = DstKey(op))
  BY <1>1, <1>2, <1>3
<1>5. ASSUME NEW k \in Keys(gs), k # SrcKey(op)
      PROVE  SameBaseline(Listed(gs, k), Listed(hs, k))
  <2>1. PICK x \in Says(gs) : x[1] = k
    BY <1>1
  <2>2. x \in Says(hs)
    BY <1>2, <1>5, <2>1
  <2>3. x = Said(Listed(gs, k)) /\ x = Said(Listed(hs, k))
    BY <1>1, <2>1, <2>2
  <2>4. QED
    BY <2>3 DEF Said, SameBaseline
<1>6. ASSUME ~Drops(op)
      PROVE  LET g == Listed(hs, DstKey(op)) IN g.count = op.count /\ g.clock = Clamp(op.clock)
  <2>1. said = Said(Listed(hs, DstKey(op)))
    BY <1>1, <1>2, <1>3, <1>6
  <2>2. QED
    BY <2>1 DEF Said
<1>7. QED
  BY <1>4, <1>5, <1>6

------------------------------------------------------------------------------
(* What an accepted item leaves of the diff of its factory *)

(* The keys after a step: the groups J of the save have found theirs, and  *)
(* of the keys the save does not have, those in L are gone.  A fuel that   *)
(* was taken is gone if the generator that took it has found its key.      *)
Settles(gs, hs, c, J, L) ==
  /\ \A j \in DOMAIN c : Key(c[j]) \in Keys(hs) <=> Key(c[j]) \in Keys(gs) \/ j \in J
  /\ \A k : k \notin Keys(c) => (k \in Keys(hs) <=> k \in Keys(gs) /\ k \notin L)
  /\ \A j \in DOMAIN c : Burns(gs, c, j) =>
       \A r \in Taken(gs, c, j) : j \in J <=> <<c[j].machine, r>> \in L

(* The other generators take the fuels they took ... *)
LEMMA SettledTake ==
  ASSUME NEW s, NEW gs, NEW c, Comparing(s, gs, c), NEW hs, NEW J, NEW L,
         Settles(gs, hs, c, J, L)
  PROVE  \A j \in DOMAIN c :
           /\ Burns(hs, c, j) <=> Burns(gs, c, j) /\ j \notin J
           /\ Burns(hs, c, j) => Taken(hs, c, j) = Taken(gs, c, j)
<1>1. \A j \in DOMAIN c : Key(c[j]) \in Keys(hs) <=> Key(c[j]) \in Keys(gs) \/ j \in J
  BY DEF Settles
<1>2. \A m : Refueled(hs, c, m) = Refueled(gs, c, m) \ J
  BY <1>1 DEF Refueled
<1>3. \A k : k \notin Keys(c) => (k \in Keys(hs) <=> k \in Keys(gs) /\ k \notin L)
  BY DEF Settles
<1>4. \A m : Spare(hs, c, m) = {r \in Spare(gs, c, m) : <<m, r>> \notin L}
  BY <1>3 DEF Spare
<1>5. ASSUME NEW m PROVE Left(gs, hs, c, m)
  <2> DEFINE R == Refueled(gs, c, m)
             S == Spare(gs, c, m)
             P == Refueled(hs, c, m)
             Q == Spare(hs, c, m)
  <2>1. P = R \ J /\ \A r : r \in Q <=> r \in S /\ <<m, r>> \notin L
    BY <1>2, <1>4
  <2>2. ASSUME NEW i, NEW r, Paired(R, S, i, r) PROVE i \in P <=> r \in Q
    <3>1. i \in R /\ r \in S
      BY <2>2 DEF Paired
    <3>2. i \in DOMAIN c /\ c[i].machine = m
      BY <3>1 DEF Refueled
    <3>3. Burns(gs, c, i)
      BY <3>1, <3>2 DEF Burns
    <3>4. r \in Taken(gs, c, i)
      BY <2>2, <3>1, <3>2, TakenPaired
    <3>5. i \in J <=> <<m, r>> \in L
      BY <3>2, <3>3, <3>4 DEF Settles
    <3>6. QED
      BY <2>1, <3>1, <3>5
  <2>3. P \subseteq R /\ Q \subseteq S
    BY <2>1
  <2>4. Together(R, S, P, Q)
    BY <2>2 DEF Together
  <2>5. QED
    BY <2>3, <2>4 DEF Left
<1>6. ASSUME NEW j \in DOMAIN c
      PROVE  Burns(hs, c, j) <=> Burns(gs, c, j) /\ j \notin J
  BY <1>2 DEF Burns
<1>7. ASSUME NEW j \in DOMAIN c, Burns(hs, c, j)
      PROVE  Taken(hs, c, j) = Taken(gs, c, j)
  BY <1>5, <1>7, LeftTake
<1>8. QED
  BY <1>6, <1>7

(* ... and of the keys that were gone from the save those in L are gone    *)
(* from the factory too.                                                   *)
LEMMA SettledGone ==
  ASSUME NEW s, NEW gs, NEW c, Comparing(s, gs, c), NEW hs, NEW J, NEW L,
         Settles(gs, hs, c, J, L)
  PROVE  Demolished(hs, c) = Demolished(gs, c) \ L
<1>1. \A k : k \notin Keys(c) => (k \in Keys(hs) <=> k \in Keys(gs) /\ k \notin L)
  BY DEF Settles
<1>2. \A m : \A j \in Refueled(gs, c, m) : j \in DOMAIN c /\ c[j].machine = m /\ Burns(gs, c, j)
  BY DEF Refueled, Burns
<1>3. \A m : \A j \in Refueled(hs, c, m) : j \in DOMAIN c /\ c[j].machine = m /\ Burns(hs, c, j)
  BY DEF Refueled, Burns
<1>4. \A j \in DOMAIN c :
        /\ Burns(hs, c, j) <=> Burns(gs, c, j) /\ j \notin J
        /\ Burns(hs, c, j) => Taken(hs, c, j) = Taken(gs, c, j)
  BY SettledTake
<1>5. ASSUME NEW k \in Demolished(hs, c) PROVE k \in Demolished(gs, c) /\ k \notin L
  <2>1. k \in Keys(gs) /\ k \notin Keys(c) /\ k \notin L
    BY <1>1, <1>5 DEF Demolished
  <2>2. k = <<k[1], k[2]>>
    BY <2>1 DEF Keys, Key
  <2>3. ASSUME NEW j \in Refueled(gs, c, k[1]), k[2] \in Taken(gs, c, j) PROVE FALSE
    <3>1. j \in DOMAIN c /\ c[j].machine = k[1] /\ Burns(gs, c, j)
      BY <1>2
    <3>2. j \notin J
      BY <2>1, <2>2, <2>3, <3>1 DEF Settles
    <3>3. Burns(hs, c, j) /\ k[2] \in Taken(hs, c, j)
      BY <1>4, <2>3, <3>1, <3>2
    <3>4. j \in Refueled(hs, c, k[1])
      BY <3>1, <3>3 DEF Burns
    <3>5. QED
      BY <1>5, <3>3, <3>4 DEF Demolished
  <2>4. QED
    BY <2>1, <2>3 DEF Demolished
<1>6. ASSUME NEW k \in Demolished(gs, c), k \notin L PROVE k \in Demolished(hs, c)
  <2>1. k \in Keys(hs) /\ k \notin Keys(c)
    BY <1>1, <1>6 DEF Demolished
  <2>2. ASSUME NEW j \in Refueled(hs, c, k[1]), k[2] \in Taken(hs, c, j) PROVE FALSE
    <3>1. j \in DOMAIN c /\ c[j].machine = k[1] /\ Burns(hs, c, j)
      BY <1>3
    <3>2. Burns(gs, c, j) /\ k[2] \in Taken(gs, c, j)
      BY <1>4, <2>2, <3>1
    <3>3. j \in Refueled(gs, c, k[1])
      BY <3>1, <3>2 DEF Burns
    <3>4. QED
      BY <1>6, <3>2, <3>3 DEF Demolished
  <2>3. QED
    BY <2>1, <2>2 DEF Demolished
<1> DEFINE A == Demolished(hs, c)
           B == Demolished(gs, c)
<1> HIDE DEF A, B
<1>7. \A k : k \in A <=> k \in B /\ k \notin L
  BY <1>5, <1>6 DEF A, B
<1>8. A = B \ L
  BY <1>7
<1>9. QED
  BY <1>8 DEF A, B

(* A group of the save makes what it made if its key and its fuel, and     *)
(* what the factory says of them, are what they were.                      *)
LEMMA MakesSame ==
  ASSUME NEW s, NEW gs, NEW hs, NEW c, Comparing(s, gs, c), Comparing(s, hs, c),
         NEW j \in DOMAIN c,
         Burns(hs, c, j) <=> Burns(gs, c, j),
         Burns(gs, c, j) => Taken(hs, c, j) = Taken(gs, c, j),
         Key(c[j]) \in Keys(hs) <=> Key(c[j]) \in Keys(gs),
         Key(c[j]) \in Keys(gs) =>
           SameBaseline(Listed(gs, Key(c[j])), Listed(hs, Key(c[j]))),
         Burns(gs, c, j) =>
           \A r \in Taken(gs, c, j) :
             SameBaseline(Listed(gs, <<c[j].machine, r>>), Listed(hs, <<c[j].machine, r>>))
  PROVE  Makes(s, hs, c, j) = Makes(s, gs, c, j)
<1> DEFINE k == Key(c[j])
<1>1. CASE ~Burns(gs, c, j)
  <2>1. k \in Keys(gs) => (Drifted(Listed(gs, k), c[j]) <=> Drifted(Listed(hs, k), c[j]))
    BY DriftedAlike
  <2>2. CASE k \notin Keys(gs)
    BY <1>1, <2>2, KeyMakes
  <2>3. CASE k \in Keys(gs) /\ Drifted(Listed(gs, k), c[j])
    BY <1>1, <2>1, <2>3, KeyMakes
  <2>4. CASE k \in Keys(gs) /\ ~Drifted(Listed(gs, k), c[j])
    BY <1>1, <2>1, <2>4, KeyMakes
  <2>5. QED
    BY <2>2, <2>3, <2>4
<1>2. CASE Burns(gs, c, j)
  <2> DEFINE T == Taken(gs, c, j)
  <2>1. Taken(hs, c, j) = T /\ Burns(hs, c, j)
    BY <1>2
  <2>2. CASE T = {}
    BY <1>2, <2>1, <2>2, FuelMakes
  <2>3. CASE T # {}
    <3>1. PICK r \in T : TRUE
      BY <2>3
    <3> DEFINE op == Retune(s, c[j], r)
               g == Listed(gs, <<c[j].machine, r>>)
               h == Listed(hs, <<c[j].machine, r>>)
               odd == op.to # r
    <3>2. /\ odd \/ Drifted(g, c[j]) => Makes(s, gs, c, j) = {op}
          /\ ~(odd \/ Drifted(g, c[j])) => Makes(s, gs, c, j) = {}
      BY <1>2, FuelMakes, Zenon
    <3>3. /\ odd \/ Drifted(h, c[j]) => Makes(s, hs, c, j) = {op}
          /\ ~(odd \/ Drifted(h, c[j])) => Makes(s, hs, c, j) = {}
      <4>1. r \in Taken(hs, c, j)
        BY <2>1
      <4>2. QED
        BY <2>1, <4>1, FuelMakes, Zenon
    <3>4. SameBaseline(g, h)
      BY <1>2
    <3> HIDE DEF op, g, h, odd
    <3>5. Drifted(g, c[j]) <=> Drifted(h, c[j])
      BY <3>4, DriftedAlike
    <3>6. QED
      BY <3>2, <3>3, <3>5
  <2>4. QED
    BY <2>2, <2>3
<1>3. QED
  BY <1>1, <1>2

(* The operation a group of the save makes: an update of its key, or the   *)
(* refuelling of the group whose fuel it takes.                            *)
Updates(gs, c, i, op) ==
  /\ op.do = "update"
  /\ SrcKey(op) = Key(c[i]) /\ DstKey(op) = Key(c[i])
  /\ Burns(gs, c, i) => Taken(gs, c, i) = {}

Refuels(gs, c, i, op) ==
  /\ Burns(gs, c, i)
  /\ op.do = "retune"
  /\ op.machine = c[i].machine
  /\ op.recipe \in Taken(gs, c, i)
  /\ op.to = IF c[i].recipe = Unfueled THEN op.recipe ELSE c[i].recipe

MadeFrom(gs, c, i, op) ==
  /\ op.count = c[i].count /\ op.clock = c[i].clock /\ ~Drops(op)
  /\ op.count > 0
  /\ Updates(gs, c, i, op) \/ Refuels(gs, c, i, op)

(* It makes one at most, and of this kind. *)
LEMMA MadeIs ==
  ASSUME NEW s, NEW gs, NEW c, Comparing(s, gs, c), NEW i \in DOMAIN c,
         NEW op \in Makes(s, gs, c, i)
  PROVE  /\ Makes(s, gs, c, i) = {op}
         /\ MadeFrom(gs, c, i, op)
<1>0. /\ c[i].machine \in Machine /\ c[i].recipe \in Recipe /\ c[i].count \in Nat
      /\ c[i].count > 0 /\ c[i].clock \in Nat /\ s \in Site
  BY SavePlaces DEF Comparing
<1>1. ASSUME op = UpdateOp(s, c[i]), Burns(gs, c, i) => Taken(gs, c, i) = {}
      PROVE  MadeFrom(gs, c, i, op)
  <2>1. /\ op.do = "update" /\ op.machine = c[i].machine /\ op.recipe = c[i].recipe
        /\ op.to = c[i].recipe /\ op.count = c[i].count /\ op.clock = c[i].clock
    BY <1>1 DEF UpdateOp, GroupOp
  <2>2. QED
    BY <1>0, <1>1, <2>1 DEF MadeFrom, Updates, SrcKey, DstKey, Key, Drops
<1>2. ASSUME NEW r \in Taken(gs, c, i), op = Retune(s, c[i], r), Burns(gs, c, i)
      PROVE  MadeFrom(gs, c, i, op)
  <2> DEFINE new == IF c[i].recipe = Unfueled THEN r ELSE c[i].recipe
  <2>1. /\ op.do = "retune" /\ op.machine = c[i].machine /\ op.recipe = r
        /\ op.to = new /\ op.count = c[i].count /\ op.clock = c[i].clock
    BY <1>2 DEF Retune, GroupOp
  <2>2. QED
    BY <1>0, <1>2, <2>1 DEF MadeFrom, Refuels, Drops
<1>3. CASE ~Burns(gs, c, i)
  <2>1. Makes(s, gs, c, i) \in {{UpdateOp(s, c[i])}, {}}
    BY <1>3, KeyMakes
  <2>2. QED
    BY <1>1, <1>3, <2>1
<1>4. CASE Burns(gs, c, i) /\ Taken(gs, c, i) = {}
  <2>1. Makes(s, gs, c, i) = {UpdateOp(s, c[i])}
    BY <1>4, FuelMakes
  <2>2. QED
    BY <1>1, <1>4, <2>1
<1>5. CASE Burns(gs, c, i) /\ Taken(gs, c, i) # {}
  <2>1. PICK r \in Taken(gs, c, i) : TRUE
    BY <1>5
  <2> DEFINE o == Retune(s, c[i], r)
             odd == o.to # r \/ Drifted(Listed(gs, <<c[i].machine, r>>), c[i])
  <2>2. /\ odd => Makes(s, gs, c, i) = {o}
        /\ ~odd => Makes(s, gs, c, i) = {}
    BY <1>5, FuelMakes, Zenon
  <2> HIDE DEF o, odd
  <2>a. op = o
    BY <2>2
  <2>3. MadeFrom(gs, c, i, op)
    BY <1>2, <1>5, <2>a DEF o
  <2>4. QED
    BY <2>2, <2>3
<1>6. QED
  BY <1>3, <1>4, <1>5

(* The fuel that is taken. *)
LEMMA RefuelsKey ==
  ASSUME NEW s, NEW gs, NEW c, Comparing(s, gs, c), NEW i, NEW op, Refuels(gs, c, i, op)
  PROVE  /\ SrcKey(op) \in Keys(gs) /\ SrcKey(op) \notin Keys(c)
         /\ SrcKey(op) = <<c[i].machine, op.recipe>>
         /\ Key(c[i]) \notin Keys(gs)
         /\ \A r \in Taken(gs, c, i) : <<c[i].machine, r>> = SrcKey(op)
         /\ c[i].recipe = Unfueled => DstKey(op) = SrcKey(op)
         /\ c[i].recipe # Unfueled => DstKey(op) = Key(c[i])
<1>1. SrcKey(op) \in Keys(gs) /\ SrcKey(op) \notin Keys(c) /\ SrcKey(op) = <<c[i].machine, op.recipe>>
  BY TakenIs DEF Refuels, SrcKey
<1>2. Key(c[i]) \notin Keys(gs)
  BY DEF Refuels, Burns, Refueled
<1>3. \A r \in Taken(gs, c, i) : r = op.recipe
  BY OneTaken DEF Refuels
<1>4. op.machine = c[i].machine /\ op.to = IF c[i].recipe = Unfueled THEN op.recipe ELSE c[i].recipe
  BY DEF Refuels
<1>5. /\ c[i].recipe = Unfueled => DstKey(op) = SrcKey(op)
      /\ c[i].recipe # Unfueled => DstKey(op) = Key(c[i])
  BY <1>4 DEF DstKey, SrcKey, Key
<1>6. QED
  BY <1>1, <1>2, <1>3, <1>5

(* Once it is accepted the group of the save has found its own: there is   *)
(* nothing left to make of it.                                             *)
LEMMA NothingLeft ==
  ASSUME NEW s, NEW gs, NEW hs, NEW c, Plain(gs), Plain(hs), Comparing(s, gs, c), Comparing(s, hs, c),
         NEW i \in DOMAIN c, NEW op, MadeFrom(gs, c, i, op), Moved(gs, hs, op)
  PROVE  Makes(s, hs, c, i) = {}
<1> DEFINE g == Listed(hs, DstKey(op))
<1>1. /\ \A k : k \in Keys(hs) <=> (k \in Keys(gs) /\ k # SrcKey(op)) \/ k = DstKey(op)
      /\ g.count = op.count /\ g.clock = Clamp(op.clock)
  BY MovedKeys DEF MadeFrom
<1>2. ~Drifted(g, c[i])
  BY <1>1 DEF Drifted, MadeFrom
<1> HIDE DEF g
<1>3. CASE DstKey(op) = Key(c[i])
  <2>1. Key(c[i]) \in Keys(hs)
    BY <1>1, <1>3
  <2>2. ~Burns(hs, c, i)
    BY <2>1 DEF Burns, Refueled
  <2>3. QED
    BY <1>2, <1>3, <2>1, <2>2, KeyMakes DEF g
<1>4. CASE Refuels(gs, c, i, op) /\ c[i].recipe = Unfueled
  <2>1. DstKey(op) = SrcKey(op) /\ SrcKey(op) \in Keys(gs) /\ SrcKey(op) = <<c[i].machine, op.recipe>>
    BY <1>4, RefuelsKey
  <2> DEFINE A == Keys(gs)
             B == Keys(hs)
  <2>2. A = B
    <3> HIDE DEF A, B
    <3>1. \A k : k \in B <=> k \in A
      BY <1>1, <2>1 DEF A, B
    <3>2. QED
      BY <3>1
  <2>3. Burns(hs, c, i) /\ op.recipe \in Taken(hs, c, i)
    BY <1>4, <2>2, KeysDecide DEF Refuels
  <2>4. Retune(s, c[i], op.recipe).to = op.recipe
    BY <1>4 DEF Retune, GroupOp
  <2>5. ~Drifted(Listed(hs, <<c[i].machine, op.recipe>>), c[i])
    BY <1>2, <2>1 DEF g
  <2>6. QED
    BY <2>3, <2>4, <2>5, FuelMakes
<1>5. QED
  BY <1>3, <1>4, RefuelsKey DEF MadeFrom, Updates

(* The other groups of the save find in the factory what they found. *)
LEMMA MadeSettles ==
  ASSUME NEW s, NEW gs, NEW hs, NEW c, Plain(gs), Plain(hs), Comparing(s, gs, c), Comparing(s, hs, c),
         NEW i \in DOMAIN c, NEW op, MadeFrom(gs, c, i, op), Moved(gs, hs, op)
  PROVE  \E J, L :
           /\ Settles(gs, hs, c, J, L)
           /\ J \subseteq {i}
           /\ \A k \in Demolished(gs, c) : k \notin L
<1>1. \A k : k \in Keys(hs) <=> (k \in Keys(gs) /\ k # SrcKey(op)) \/ k = DstKey(op)
  BY MovedKeys DEF MadeFrom
<1>2. /\ \A j \in DOMAIN c : Key(c[j]) \in Keys(c)
      /\ \A j \in DOMAIN c : Key(c[j]) = Key(c[i]) => j = i
  BY SavePlaces DEF Comparing, KeysOnce
<1>3. \A j \in DOMAIN c : \A r \in Taken(gs, c, j) : <<c[j].machine, r>> \notin Keys(c)
  BY TakenIs
<1>4. \A k \in Demolished(gs, c) : k \notin Keys(c)
  BY DEF Demolished
<1>5. CASE Updates(gs, c, i, op)
  <2>1. SrcKey(op) = Key(c[i]) /\ DstKey(op) = Key(c[i]) /\ Key(c[i]) \in Keys(c)
    BY <1>2, <1>5 DEF Updates
  <2>2. \A k : k \in Keys(hs) <=> k \in Keys(gs) \/ k = Key(c[i])
    BY <1>1, <2>1
  <2>3. \A j \in DOMAIN c : Burns(gs, c, j) =>
          \A r \in Taken(gs, c, j) : j \in {i} <=> <<c[j].machine, r>> \in {}
    BY <1>5 DEF Updates
  <2>4. Settles(gs, hs, c, {i}, {})
    BY <1>2, <2>1, <2>2, <2>3 DEF Settles
  <2>5. QED
    BY <2>4
<1>6. CASE Refuels(gs, c, i, op) /\ c[i].recipe = Unfueled
  <2>1. DstKey(op) = SrcKey(op) /\ SrcKey(op) \in Keys(gs)
    BY <1>6, RefuelsKey
  <2>2. \A k : k \in Keys(hs) <=> k \in Keys(gs)
    BY <1>1, <2>1
  <2>3. Settles(gs, hs, c, {}, {})
    BY <2>2 DEF Settles
  <2>4. QED
    BY <2>3
<1>7. CASE Refuels(gs, c, i, op) /\ c[i].recipe # Unfueled
  <2> DEFINE src == SrcKey(op)
  <2>1. /\ DstKey(op) = Key(c[i]) /\ src \in Keys(gs) /\ src \notin Keys(c)
        /\ src = <<c[i].machine, op.recipe>>
        /\ \A r \in Taken(gs, c, i) : <<c[i].machine, r>> = src
    BY <1>7, RefuelsKey
  <2> HIDE DEF src
  <2>2. \A k : k \in Keys(hs) <=> (k \in Keys(gs) /\ k # src) \/ k = Key(c[i])
    BY <1>1, <2>1 DEF src
  <2>3. \A j \in DOMAIN c : Key(c[j]) \in Keys(hs) <=> Key(c[j]) \in Keys(gs) \/ j \in {i}
    BY <1>2, <2>1, <2>2
  <2>4. \A k : k \notin Keys(c) => (k \in Keys(hs) <=> k \in Keys(gs) /\ k \notin {src})
    BY <1>2, <2>2
  <2>5. ASSUME NEW j \in DOMAIN c, Burns(gs, c, j), NEW r \in Taken(gs, c, j)
        PROVE  j \in {i} <=> <<c[j].machine, r>> \in {src}
    <3>1. ASSUME j # i, <<c[j].machine, r>> = src PROVE FALSE
      <4>1. c[j].machine = c[i].machine /\ r = op.recipe
        BY <2>1, <3>1
      <4>2. r \in Taken(gs, c, i) /\ Burns(gs, c, i)
        BY <1>7, <4>1 DEF Refuels
      <4>3. QED
        BY <2>5, <3>1, <4>1, <4>2, TakenOnce DEF Burns, Comparing
    <3>2. QED
      BY <2>1, <3>1
  <2>6. Settles(gs, hs, c, {i}, {src})
    BY <2>3, <2>4, <2>5 DEF Settles
  <2>7. ASSUME src \in Demolished(gs, c) PROVE FALSE
    <3>1. i \in Refueled(gs, c, c[i].machine) /\ op.recipe \in Taken(gs, c, i)
      BY <1>7 DEF Refuels, Burns
    <3>2. src[1] = c[i].machine /\ src[2] = op.recipe
      BY <2>1
    <3>3. QED
      BY <2>7, <3>1, <3>2 DEF Demolished
  <2>8. QED
    BY <2>6, <2>7
<1>8. QED
  BY <1>5, <1>6, <1>7 DEF MadeFrom

(* The other groups of the save are about other keys, and so are the gone. *)
LEMMA MadeElsewhere ==
  ASSUME NEW s, NEW gs, NEW c, Comparing(s, gs, c), NEW i \in DOMAIN c, NEW op, MadeFrom(gs, c, i, op),
         NEW k \in {SrcKey(op), DstKey(op)}
  PROVE  /\ \A j \in DOMAIN c : j # i =>
              /\ Key(c[j]) # k
              /\ Burns(gs, c, j) => \A r \in Taken(gs, c, j) : <<c[j].machine, r>> # k
         /\ \A d \in Demolished(gs, c) : d # k
<1>1. /\ \A j \in DOMAIN c : Key(c[j]) \in Keys(c)
      /\ \A j \in DOMAIN c : Key(c[j]) = Key(c[i]) => j = i
  BY SavePlaces DEF Comparing, KeysOnce
<1>2. \A j \in DOMAIN c : \A r \in Taken(gs, c, j) : <<c[j].machine, r>> \notin Keys(c)
  BY TakenIs
<1>3. \A d \in Demolished(gs, c) : d \notin Keys(c)
  BY DEF Demolished
<1>4. CASE k = Key(c[i])
  BY <1>1, <1>2, <1>3, <1>4
<1>5. CASE Refuels(gs, c, i, op) /\ k = SrcKey(op)
  <2>1. k \notin Keys(c) /\ k = <<c[i].machine, op.recipe>>
    BY <1>5, RefuelsKey
  <2>2. op.recipe \in Taken(gs, c, i) /\ Burns(gs, c, i)
    BY <1>5 DEF Refuels
  <2>3. ASSUME NEW j \in DOMAIN c, j # i, Burns(gs, c, j), NEW r \in Taken(gs, c, j),
               <<c[j].machine, r>> = k
        PROVE  FALSE
    <3>1. c[j].machine = c[i].machine /\ r = op.recipe
      BY <2>1, <2>3
    <3>2. QED
      BY <2>2, <2>3, <3>1, TakenOnce DEF Burns, Comparing
  <2>4. ASSUME k \in Demolished(gs, c) PROVE FALSE
    <3>1. i \in Refueled(gs, c, k[1]) /\ k[2] \in Taken(gs, c, i)
      BY <2>1, <2>2 DEF Burns
    <3>2. QED
      BY <2>4, <3>1 DEF Demolished
  <2>5. QED
    BY <1>1, <2>1, <2>3, <2>4
<1>6. k = Key(c[i]) \/ (Refuels(gs, c, i, op) /\ k = SrcKey(op))
  <2>1. CASE Updates(gs, c, i, op)
    BY <2>1 DEF Updates
  <2>2. CASE Refuels(gs, c, i, op)
    BY <2>2, RefuelsKey
  <2>3. QED
    BY <2>1, <2>2 DEF MadeFrom
<1>7. QED
  BY <1>4, <1>5, <1>6

(* The item of a demolished group. *)
LEMMA GoneIs ==
  ASSUME NEW s, NEW gs, NEW c, NEW k \in Demolished(gs, c)
  PROVE  LET op == DemolishedItem(s, gs, k).op
         IN  op.do = "update" /\ SrcKey(op) = k /\ DstKey(op) = k /\ Drops(op)
<1> DEFINE o == GroupOp("update", s, k[1], k[2], k[2], 0, Listed(gs, k).clock)
<1>1. DemolishedItem(s, gs, k).op = o
  BY ReviewedOp DEF DemolishedItem
<1>2. o.do = "update" /\ o.machine = k[1] /\ o.recipe = k[2] /\ o.to = k[2] /\ o.count = 0
  BY DEF GroupOp
<1>3. k = <<k[1], k[2]>>
  BY DEF Demolished, Keys, Key
<1> HIDE DEF o
<1>4. QED
  BY <1>1, <1>2, <1>3 DEF SrcKey, DstKey, Drops

(* Two factories make the same operations but one. *)
Leaves(s, gs, hs, c, op) ==
  \A o : o \in Ops(FactoryItems(s, hs, c)) <=> o \in Ops(FactoryItems(s, gs, c)) /\ o # op

(* Accepting what a group of the save makes leaves everything else.        *)
LEMMA MadeLeaves ==
  ASSUME NEW s, NEW gs, NEW hs, NEW c, Plain(gs), Plain(hs), Comparing(s, gs, c), Comparing(s, hs, c),
         NEW i \in DOMAIN c, NEW op \in Makes(s, gs, c, i), Moved(gs, hs, op)
  PROVE  Leaves(s, gs, hs, c, op)
<1>1. Makes(s, gs, c, i) = {op} /\ MadeFrom(gs, c, i, op)
  BY MadeIs
<1>2. Makes(s, hs, c, i) = {}
  BY <1>1, NothingLeft
<1>3. PICK J, L : /\ Settles(gs, hs, c, J, L)
                  /\ J \subseteq {i}
                  /\ \A k \in Demolished(gs, c) : k \notin L
  BY <1>1, MadeSettles
<1>4. /\ \A k : k \in Keys(hs) <=> (k \in Keys(gs) /\ k # SrcKey(op)) \/ (~Drops(op) /\ k = DstKey(op))
      /\ \A k \in Keys(gs) : k # SrcKey(op) /\ k # DstKey(op) =>
           SameBaseline(Listed(gs, k), Listed(hs, k))
  BY MovedKeys
<1>5. /\ \A j \in DOMAIN c : j # i =>
           /\ Key(c[j]) # SrcKey(op) /\ Key(c[j]) # DstKey(op)
           /\ Burns(gs, c, j) => \A r \in Taken(gs, c, j) :
                <<c[j].machine, r>> # SrcKey(op) /\ <<c[j].machine, r>> # DstKey(op)
      /\ \A d \in Demolished(gs, c) : d # SrcKey(op) /\ d # DstKey(op)
  BY <1>1, MadeElsewhere
<1>6. ASSUME NEW j \in DOMAIN c, j # i
      PROVE  Makes(s, hs, c, j) = Makes(s, gs, c, j) /\ op \notin Makes(s, gs, c, j)
  <2>1. /\ Burns(hs, c, j) <=> Burns(gs, c, j)
        /\ Burns(gs, c, j) => Taken(hs, c, j) = Taken(gs, c, j)
    BY <1>3, <1>6, SettledTake
  <2>2. /\ Key(c[j]) \in Keys(hs) <=> Key(c[j]) \in Keys(gs)
        /\ Key(c[j]) \in Keys(gs) => SameBaseline(Listed(gs, Key(c[j])), Listed(hs, Key(c[j])))
    BY <1>4, <1>5, <1>6
  <2>3. ASSUME Burns(gs, c, j), NEW r \in Taken(gs, c, j)
        PROVE  SameBaseline(Listed(gs, <<c[j].machine, r>>), Listed(hs, <<c[j].machine, r>>))
    <3>1. <<c[j].machine, r>> \in Keys(gs)
      BY TakenIs
    <3>2. QED
      BY <1>4, <1>5, <1>6, <2>3, <3>1
  <2>4. Makes(s, hs, c, j) = Makes(s, gs, c, j)
    BY <2>1, <2>2, <2>3, MakesSame
  <2>5. ASSUME op \in Makes(s, gs, c, j) PROVE FALSE
    <3>1. MadeFrom(gs, c, j, op)
      BY <2>5, MadeIs
    <3>2. CASE Updates(gs, c, j, op)
      BY <1>5, <1>6, <3>2 DEF Updates
    <3>3. CASE Refuels(gs, c, j, op)
      <4>1. SrcKey(op) = <<c[j].machine, op.recipe>>
        BY <3>3, RefuelsKey
      <4>2. QED
        BY <1>5, <1>6, <3>3, <4>1 DEF Refuels
    <3>4. QED
      BY <3>1, <3>2, <3>3 DEF MadeFrom
  <2>6. QED
    BY <2>4, <2>5
<1>7. Demolished(hs, c) = Demolished(gs, c)
  BY <1>3, SettledGone
<1>8. ASSUME NEW k \in Demolished(gs, c)
      PROVE  /\ DemolishedItem(s, hs, k) = DemolishedItem(s, gs, k)
             /\ DemolishedItem(s, gs, k).op # op
  <2>1. k \in Keys(gs)
    BY DEF Demolished
  <2>2. SameBaseline(Listed(gs, k), Listed(hs, k))
    BY <1>4, <1>5, <2>1
  <2>3. DemolishedItem(s, hs, k) = DemolishedItem(s, gs, k)
    BY <2>2 DEF SameBaseline, DemolishedItem
  <2>4. DemolishedItem(s, gs, k).op # op
    BY <1>5, GoneIs
  <2>5. QED
    BY <2>3, <2>4
<1>9. ASSUME NEW o
      PROVE  o \in Ops(FactoryItems(s, hs, c)) <=> o \in Ops(FactoryItems(s, gs, c)) /\ o # op
  <2>1. (\E j \in DOMAIN c : o \in Makes(s, hs, c, j))
          <=> (\E j \in DOMAIN c : o \in Makes(s, gs, c, j)) /\ o # op
    BY <1>1, <1>2, <1>6
  <2>2. (\E k \in Demolished(hs, c) : o = DemolishedItem(s, hs, k).op)
          <=> (\E k \in Demolished(gs, c) : o = DemolishedItem(s, gs, k).op) /\ o # op
    BY <1>7, <1>8
  <2>3. QED
    BY <2>1, <2>2, FactoryMakes
<1>10. QED
  BY <1>9 DEF Leaves

(* So does accepting that a group is gone.                                 *)
LEMMA GoneLeaves ==
  ASSUME NEW s, NEW gs, NEW hs, NEW c, Plain(gs), Plain(hs), Comparing(s, gs, c), Comparing(s, hs, c),
         NEW d \in Demolished(gs, c), NEW op, op = DemolishedItem(s, gs, d).op, Moved(gs, hs, op)
  PROVE  Leaves(s, gs, hs, c, op)
<1>1. SrcKey(op) = d /\ DstKey(op) = d /\ Drops(op)
  BY GoneIs
<1>2. /\ \A k : k \in Keys(hs) <=> k \in Keys(gs) /\ k # d
      /\ \A k \in Keys(gs) : k # d => SameBaseline(Listed(gs, k), Listed(hs, k))
  BY <1>1, MovedKeys
<1>3. d \in Keys(gs) /\ d \notin Keys(c) /\ \A j \in Refueled(gs, c, d[1]) : d[2] \notin Taken(gs, c, j)
  BY DEF Demolished
<1>4. \A j \in DOMAIN c : Key(c[j]) \in Keys(c)
  BY SavePlaces DEF Comparing
<1>5. ASSUME NEW j \in DOMAIN c, Burns(gs, c, j), NEW r \in Taken(gs, c, j)
      PROVE  <<c[j].machine, r>> # d /\ <<c[j].machine, r>> \in Keys(gs)
  <2>1. <<c[j].machine, r>> \in Keys(gs)
    BY TakenIs
  <2>2. ASSUME <<c[j].machine, r>> = d PROVE FALSE
    <3>1. j \in Refueled(gs, c, d[1]) /\ d[2] = r
      BY <1>5, <2>2 DEF Burns
    <3>2. QED
      BY <1>3, <1>5, <3>1
  <2>3. QED
    BY <2>1, <2>2
<1>6. Settles(gs, hs, c, {}, {d})
  <2>1. \A j \in DOMAIN c : Key(c[j]) \in Keys(hs) <=> Key(c[j]) \in Keys(gs) \/ j \in {}
    BY <1>2, <1>3, <1>4
  <2>2. \A k : k \notin Keys(c) => (k \in Keys(hs) <=> k \in Keys(gs) /\ k \notin {d})
    BY <1>2
  <2>3. QED
    BY <1>5, <2>1, <2>2 DEF Settles
<1>7. Demolished(hs, c) = Demolished(gs, c) \ {d}
  BY <1>6, SettledGone
<1>8. ASSUME NEW j \in DOMAIN c
      PROVE  Makes(s, hs, c, j) = Makes(s, gs, c, j) /\ op \notin Makes(s, gs, c, j)
  <2>1. /\ Burns(hs, c, j) <=> Burns(gs, c, j)
        /\ Burns(gs, c, j) => Taken(hs, c, j) = Taken(gs, c, j)
    BY <1>6, SettledTake
  <2>2. /\ Key(c[j]) \in Keys(hs) <=> Key(c[j]) \in Keys(gs)
        /\ Key(c[j]) \in Keys(gs) => SameBaseline(Listed(gs, Key(c[j])), Listed(hs, Key(c[j])))
    BY <1>2, <1>3, <1>4
  <2>3. Burns(gs, c, j) =>
          \A r \in Taken(gs, c, j) :
            SameBaseline(Listed(gs, <<c[j].machine, r>>), Listed(hs, <<c[j].machine, r>>))
    BY <1>2, <1>5
  <2>4. Makes(s, hs, c, j) = Makes(s, gs, c, j)
    BY <2>1, <2>2, <2>3, MakesSame
  <2>5. ASSUME op \in Makes(s, gs, c, j) PROVE FALSE
    <3>1. MadeFrom(gs, c, j, op)
      BY <2>5, MadeIs
    <3>2. QED
      BY <1>1, <3>1 DEF MadeFrom
  <2>6. QED
    BY <2>4, <2>5
<1>9. ASSUME NEW k \in Demolished(gs, c), k # d
      PROVE  /\ DemolishedItem(s, hs, k) = DemolishedItem(s, gs, k)
             /\ DemolishedItem(s, gs, k).op # op
  <2>1. k \in Keys(gs)
    BY DEF Demolished
  <2>2. SameBaseline(Listed(gs, k), Listed(hs, k))
    BY <1>2, <1>9, <2>1
  <2>3. DemolishedItem(s, hs, k) = DemolishedItem(s, gs, k)
    BY <2>2 DEF SameBaseline, DemolishedItem
  <2>4. DemolishedItem(s, gs, k).op # op
    BY <1>1, <1>9, GoneIs
  <2>5. QED
    BY <2>3, <2>4
<1>10. ASSUME NEW o
      PROVE  o \in Ops(FactoryItems(s, hs, c)) <=> o \in Ops(FactoryItems(s, gs, c)) /\ o # op
  <2>1. (\E j \in DOMAIN c : o \in Makes(s, hs, c, j))
          <=> (\E j \in DOMAIN c : o \in Makes(s, gs, c, j)) /\ o # op
    BY <1>8
  <2>2. (\E k \in Demolished(hs, c) : o = DemolishedItem(s, hs, k).op)
          <=> (\E k \in Demolished(gs, c) : o = DemolishedItem(s, gs, k).op) /\ o # op
    BY <1>7, <1>9
  <2>3. QED
    BY <2>1, <2>2, FactoryMakes
<1>11. QED
  BY <1>10 DEF Leaves

(* Accepting an item of a factory of the game leaves the others. *)
LEMMA FactoryLeaves ==
  ASSUME NEW s, NEW gs, NEW c, Plain(gs), Comparing(s, gs, c), NEW take \in BOOLEAN,
         NEW op \in Ops(FactoryItems(s, gs, c))
  PROVE  /\ Plain(SyncGroups(gs, op, take))
         /\ Leaves(s, gs, SyncGroups(gs, op, take), c, op)
<1> DEFINE hs == SyncGroups(gs, op, take)
<1>1. op \in Op /\ Grouped(op) /\ Aimed(op, gs)
  <2>1. PICK x \in Range(FactoryItems(s, gs, c)) : op = x.op
    BY DEF Ops
  <2>2. x \in Item /\ Grouped(x.op) /\ Aimed(x.op, gs)
    BY <2>1, FactoryItemsAre
  <2>3. QED
    BY <2>1, <2>2 DEF Item
<1>2. ASSUME Finds(op, gs) PROVE Plain(hs) /\ Moved(gs, hs, op) /\ Comparing(s, hs, c)
  <2>1. Plain(hs) /\ Moved(gs, hs, op)
    BY <1>1, <1>2, SyncMoves
  <2> HIDE DEF hs
  <2>2. QED
    BY <2>1 DEF Plain, Comparing
<1> HIDE DEF hs
<1>3. ASSUME NEW i \in DOMAIN c, op \in Makes(s, gs, c, i)
      PROVE  Plain(hs) /\ Leaves(s, gs, hs, c, op)
  <2>1. MadeFrom(gs, c, i, op)
    BY <1>3, MadeIs
  <2>2. Finds(op, gs)
    BY <2>1, RefuelsKey DEF MadeFrom, Updates, Finds
  <2>3. QED
    BY <1>2, <1>3, <2>2, MadeLeaves
<1>4. ASSUME NEW d \in Demolished(gs, c), op = DemolishedItem(s, gs, d).op
      PROVE  Plain(hs) /\ Leaves(s, gs, hs, c, op)
  <2>1. SrcKey(op) = d /\ d \in Keys(gs)
    BY <1>4, GoneIs DEF Demolished
  <2>2. Finds(op, gs)
    BY <2>1 DEF Finds
  <2>3. QED
    BY <1>2, <1>4, <2>2, GoneLeaves
<1>5. QED
  BY <1>3, <1>4, FactoryMakes DEF hs

(* A factory just written from a save is in sync with it. *)
LEMMA WrittenInSync ==
  ASSUME NEW s \in Site, NEW c \in Seq(SaveGroup), KeysOnce(c)
  PROVE  /\ Plain(Written(c))
         /\ \A o : o \notin Ops(FactoryItems(s, Written(c), c))
<1> DEFINE gs == Written(c)
<1>0. /\ \A i \in DOMAIN c : /\ c[i].machine \in Machine /\ c[i].recipe \in Recipe
                             /\ c[i].count \in Nat /\ c[i].clock \in Nat
                             /\ Key(c[i]) \in Keys(c)
      /\ DOMAIN c = 1..Len(c) /\ Len(c) \in Nat
  BY SavePlaces
<1>1. Plain(gs)
  BY WrittenIs, WrittenApart DEF Plain, Unmixed
<1>2. DOMAIN gs = DOMAIN c /\ \A i \in DOMAIN c : gs[i] = BuiltGroup(c[i], i)
  BY DEF Written
<1> HIDE DEF gs
<1>3. ASSUME NEW i \in DOMAIN c PROVE Said(gs[i]) = <<Key(c[i]), c[i].count, Clamp(c[i].clock)>>
  <2> DEFINE g == BuiltGroup(c[i], i)
  <2>1. i \in Nat
    BY <1>0
  <2>2. Key(g) = <<c[i].machine, c[i].recipe>> /\ g.count = c[i].count /\ g.clock = Clamp(c[i].clock)
    BY <1>0, <2>1, BuiltGroupIs
  <2> HIDE DEF g
  <2>3. gs[i] = g
    BY <1>2 DEF g
  <2>4. Said(g) = <<Key(c[i]), c[i].count, Clamp(c[i].clock)>>
    BY <2>2 DEF Said, Key
  <2>5. QED
    BY <2>3, <2>4
<1>4. \A k : k \in Keys(gs) <=> \E x \in Says(gs) : x[1] = k
  BY <1>1, PlainIs
<1>5. \A x \in Says(gs) : x = Said(Listed(gs, x[1]))
  BY <1>1, PlainIs
<1>6. ASSUME NEW i \in DOMAIN c PROVE Makes(s, gs, c, i) = {}
  <2> DEFINE x == <<Key(c[i]), c[i].count, Clamp(c[i].clock)>>
  <2>1. x \in Says(gs) /\ x[1] = Key(c[i])
    BY <1>2, <1>3 DEF Says
  <2>2. Key(c[i]) \in Keys(gs)
    BY <1>4, <2>1
  <2>3. Said(Listed(gs, Key(c[i]))) = x
    BY <1>5, <2>1
  <2>4. ~Drifted(Listed(gs, Key(c[i])), c[i])
    BY <2>3 DEF Said, Drifted
  <2>5. ~Burns(gs, c, i)
    BY <2>2 DEF Burns, Refueled
  <2>6. QED
    BY <2>2, <2>4, <2>5, KeyMakes
<1>7. Demolished(gs, c) = {}
  <2>1. ASSUME NEW k \in Keys(gs) PROVE k \in Keys(c)
    <3>1. PICK x \in Says(gs) : x[1] = k
      BY <1>4
    <3>2. PICK i \in DOMAIN gs : x = Said(gs[i])
      BY <3>1 DEF Says
    <3>3. i \in DOMAIN c /\ k = Key(c[i])
      BY <1>2, <1>3, <3>1, <3>2
    <3>4. QED
      BY <1>0, <3>3
  <2>2. QED
    BY <2>1 DEF Demolished
<1>8. Comparing(s, gs, c)
  BY <1>1 DEF Comparing, Plain
<1>9. QED
  BY <1>1, <1>6, <1>7, <1>8, FactoryMakes DEF gs

------------------------------------------------------------------------------
(* What an accepted item leaves of the diff *)

(* A built layer of the game only. *)
PlainLayer(b) ==
  /\ DOMAIN b \subseteq Site
  /\ \A s \in DOMAIN b : Plain(b[s])

(* It is a layer without planned groups, each key there once. *)
LEMMA PlainLayerIs ==
  ASSUME NEW b
  PROVE  PlainLayer(b) <=> Layer(b) /\ ~Mixed(b) /\ AllApart(b)
<1>1. \A gs : Unmixed(gs) <=> \A g \in Range(gs) : ~g.planned
  BY DEF Unmixed, Range
<1>2. QED
  BY <1>1 DEF PlainLayer, Plain, Layer, Mixed, AllApart

(* The operations of a diff are those of the sites. *)
LEMMA DiffOps ==
  ASSUME NEW b, Layer(b), NEW save \in Save
  PROVE  \A o : o \in Ops(Diff(b, save)) <=> \E s \in Site : o \in Ops(SiteItems(b, save, s))
<1> DEFINE sites == SetToSeq(Site)
           ss == BySite(b, save)
<1>0. Diff(b, save) = FlattenSeq(ss)
  BY DEF Diff, BySite
<1>1. /\ ss \in Seq(Seq(Item)) /\ DOMAIN ss = DOMAIN sites
      /\ \A i \in DOMAIN sites : ss[i] = SiteItems(b, save, sites[i])
  BY BySiteIs
<1>2. \A s : s \in Site <=> \E i \in DOMAIN sites : sites[i] = s
  BY DriftAssumption, LaidOutAll
<1> HIDE DEF sites, ss
<1>3. \A o : o \in Ops(FlattenSeq(ss)) <=> \E i \in DOMAIN ss : o \in Ops(ss[i])
  BY <1>1, OpsOfAll
<1>4. QED
  BY <1>0, <1>1, <1>2, <1>3

(* The items of a site whose factory is not compared. *)
LEMMA SiteOps ==
  ASSUME NEW b, NEW save, NEW s
  PROVE  /\ s \in DOMAIN b /\ save[s] # <<>> => SiteItems(b, save, s) = FactoryItems(s, b[s], save[s])
         /\ s \in DOMAIN b /\ save[s] = <<>> =>
              Ops(SiteItems(b, save, s)) = {FactoryOp("remove", s, <<>>)}
         /\ s \notin DOMAIN b /\ save[s] # <<>> =>
              Ops(SiteItems(b, save, s)) = {FactoryOp("create", s, save[s])}
         /\ s \notin DOMAIN b /\ save[s] = <<>> => Ops(SiteItems(b, save, s)) = {}
<1>1. \A op : Ops(<<Drift(op)>>) = {op}
  <2>1. ASSUME NEW op PROVE Ops(<<Drift(op)>>) = {op}
    <3> DEFINE x == Drift(op)
    <3>1. x.op = op
      BY ReviewedOp
    <3> HIDE DEF x
    <3>2. Ops(<<x>>) = {op}
      BY <3>1, OpsOfShort
    <3>3. QED
      BY <3>2 DEF x
  <2>2. QED
    BY <2>1
<1>2. CASE s \in DOMAIN b /\ save[s] # <<>>
  BY <1>2 DEF SiteItems
<1>3. CASE s \in DOMAIN b /\ save[s] = <<>>
  <2>1. SiteItems(b, save, s) = <<Drift(FactoryOp("remove", s, <<>>))>>
    BY <1>3 DEF SiteItems
  <2>2. QED
    BY <1>1, <1>3, <2>1
<1>4. CASE s \notin DOMAIN b /\ save[s] # <<>>
  <2>1. SiteItems(b, save, s) = <<Drift(FactoryOp("create", s, save[s]))>>
    BY <1>4 DEF SiteItems
  <2>2. QED
    BY <1>1, <1>4, <2>1
<1>5. CASE s \notin DOMAIN b /\ save[s] = <<>>
  <2>1. SiteItems(b, save, s) = <<>>
    BY <1>5 DEF SiteItems
  <2>2. QED
    BY <1>5, <2>1, OpsOfShort
<1>6. QED
  BY <1>2, <1>3, <1>4, <1>5

(* Accepting one item of a diff leaves the others. *)
LEMMA ApplyLeaves ==
  ASSUME NEW b, PlainLayer(b), NEW save \in Save, NEW take \in BOOLEAN,
         NEW op \in Ops(Diff(b, save))
  PROVE  /\ PlainLayer(ApplySync(b, op, take))
         /\ \A o : o \in Ops(Diff(ApplySync(b, op, take), save)) <=>
                     o \in Ops(Diff(b, save)) /\ o # op
<1> DEFINE new == ApplySync(b, op, take)
           s == op.site
<1>0. Layer(b)
  BY PlainLayerIs
<1>1. PICK t \in Site : op \in Ops(SiteItems(b, save, t))
  BY <1>0, DiffOps
<1>2. ASSUME NEW u \in Site, NEW o \in Ops(SiteItems(b, save, u))
      PROVE  o.site = u /\ o \in Op /\ Fit(o, b)
  <2>1. PICK x \in Range(SiteItems(b, save, u)) : o = x.op
    BY <1>2 DEF Ops
  <2>2. About(b, u, x)
    BY <1>0, <2>1, SiteItemsAre
  <2>3. QED
    BY <2>1, <2>2 DEF About, Item
<1>3. s \in Site /\ t = s /\ op \in Op /\ Fit(op, b) /\ op \in Ops(SiteItems(b, save, s))
  BY <1>1, <1>2
<1>4. /\ save[s] \in Seq(SaveGroup) /\ KeysOnce(save[s])
  BY <1>3 DEF Save, KeysOnce
<1>5. Layer(new)
  BY <1>0, <1>3, ApplySyncLayer
<1> HIDE DEF s
<1>6. /\ op.do = "create" => /\ DOMAIN new = DOMAIN b \cup {s}
                             /\ new[s] = Written(op.cluster)
      /\ op.do = "remove" => DOMAIN new = DOMAIN b \ {s}
      /\ Grouped(op) => /\ DOMAIN new = DOMAIN b
                        /\ s \in DOMAIN b => new[s] = SyncGroups(b[s], op, take)
      /\ \A u \in DOMAIN new : u # s => new[u] = b[u]
  <2>1. op.do \in {"update", "retune", "create", "remove"}
    BY <1>3 DEF Op
  <2>2. QED
    BY <1>0, <1>3, <2>1, ApplySyncIs DEF s, Grouped
<1>7. \A u : u # s => (u \in DOMAIN new <=> u \in DOMAIN b)
  <2>1. op.do \in {"update", "retune", "create", "remove"}
    BY <1>3 DEF Op
  <2>2. QED
    BY <1>6, <2>1 DEF Grouped
<1> HIDE DEF new
<1>8. ASSUME NEW u \in Site, u # s
      PROVE  SiteItems(new, save, u) = SiteItems(b, save, u) /\ op \notin Ops(SiteItems(b, save, u))
  <2>1. (u \in DOMAIN new <=> u \in DOMAIN b) /\ (u \in DOMAIN new => new[u] = b[u])
    BY <1>6, <1>7, <1>8
  <2>2. SiteItems(new, save, u) = SiteItems(b, save, u)
    BY <2>1 DEF SiteItems
  <2>3. op \notin Ops(SiteItems(b, save, u))
    BY <1>2, <1>8 DEF s
  <2>4. QED
    BY <2>2, <2>3
<1>9. /\ s \in DOMAIN new => Plain(new[s])
      /\ \A o : o \in Ops(SiteItems(new, save, s)) <=> o \in Ops(SiteItems(b, save, s)) /\ o # op
  <2>1. CASE s \in DOMAIN b /\ save[s] # <<>>
    <3>1. Plain(b[s]) /\ Comparing(s, b[s], save[s])
      BY <1>3, <1>4, <2>1 DEF PlainLayer, Plain, Comparing
    <3>2. SiteItems(b, save, s) = FactoryItems(s, b[s], save[s])
      BY <2>1, SiteOps
    <3>3. op \in Ops(FactoryItems(s, b[s], save[s]))
      BY <1>3, <3>2
    <3>4. Grouped(op)
      <4>1. PICK x \in Range(FactoryItems(s, b[s], save[s])) : op = x.op
        BY <3>3 DEF Ops
      <4>2. QED
        BY <3>1, <4>1, FactoryItemsAre
    <3> DEFINE hs == SyncGroups(b[s], op, take)
    <3>5. Plain(hs) /\ Leaves(s, b[s], hs, save[s], op)
      BY <3>1, <3>3, FactoryLeaves
    <3> HIDE DEF hs
    <3>6. s \in DOMAIN new /\ new[s] = hs
      BY <1>6, <2>1, <3>4 DEF hs
    <3>7. SiteItems(new, save, s) = FactoryItems(s, hs, save[s])
      BY <2>1, <3>6, SiteOps
    <3>8. QED
      BY <3>2, <3>5, <3>6, <3>7 DEF Leaves
  <2>2. CASE s \in DOMAIN b /\ save[s] = <<>>
    <3> DEFINE c0 == <<>>
               do == "remove"
    <3>1. c0 \in Seq(SaveGroup) /\ do \in {"create", "remove"}
      OBVIOUS
    <3> HIDE DEF c0, do
    <3>2. FactoryOp(do, s, c0).do = do
      BY <1>3, <3>1, FactoryOpIs
    <3>3. Ops(SiteItems(b, save, s)) = {FactoryOp(do, s, c0)}
      BY <2>2, SiteOps DEF do, c0
    <3>4. op = FactoryOp(do, s, c0) /\ op.do = "remove"
      BY <1>3, <3>2, <3>3 DEF do
    <3>5. s \notin DOMAIN new
      BY <1>6, <3>4
    <3>6. Ops(SiteItems(new, save, s)) = {}
      BY <2>2, <3>5, SiteOps
    <3>7. QED
      BY <3>3, <3>4, <3>5, <3>6
  <2>3. CASE s \notin DOMAIN b /\ save[s] # <<>>
    <3> DEFINE c == save[s]
               do == "create"
    <3>1. c \in Seq(SaveGroup) /\ do \in {"create", "remove"}
      BY <1>4
    <3> HIDE DEF do
    <3>2. FactoryOp(do, s, c).do = do /\ FactoryOp(do, s, c).cluster = c
      BY <1>3, <3>1, FactoryOpIs
    <3>3. Ops(SiteItems(b, save, s)) = {FactoryOp(do, s, c)}
      BY <2>3, SiteOps DEF do
    <3>4. op = FactoryOp(do, s, c) /\ op.do = "create" /\ op.cluster = c
      BY <1>3, <3>2, <3>3 DEF do
    <3>5. s \in DOMAIN new /\ new[s] = Written(c)
      BY <1>6, <3>4
    <3>6. Plain(Written(c)) /\ \A o : o \notin Ops(FactoryItems(s, Written(c), c))
      BY <1>3, <1>4, WrittenInSync
    <3>7. SiteItems(new, save, s) = FactoryItems(s, Written(c), c)
      BY <2>3, <3>5, SiteOps
    <3>8. QED
      BY <3>3, <3>4, <3>5, <3>6, <3>7
  <2>4. CASE s \notin DOMAIN b /\ save[s] = <<>>
    BY <1>3, <2>4, SiteOps
  <2>5. QED
    BY <2>1, <2>2, <2>3, <2>4
<1>10. PlainLayer(new)
  <2>1. DOMAIN new \subseteq Site
    BY <1>5 DEF Layer
  <2>2. ASSUME NEW u \in DOMAIN new PROVE Plain(new[u])
    <3>1. CASE u = s
      BY <1>9, <3>1
    <3>2. CASE u # s
      BY <1>6, <1>7, <3>2 DEF PlainLayer
    <3>3. QED
      BY <3>1, <3>2
  <2>3. QED
    BY <2>1, <2>2 DEF PlainLayer
<1>11. ASSUME NEW o
       PROVE  o \in Ops(Diff(new, save)) <=> o \in Ops(Diff(b, save)) /\ o # op
  <2>1. o \in Ops(Diff(new, save)) <=> \E u \in Site : o \in Ops(SiteItems(new, save, u))
    BY <1>5, DiffOps
  <2>2. o \in Ops(Diff(b, save)) <=> \E u \in Site : o \in Ops(SiteItems(b, save, u))
    BY <1>0, DiffOps
  <2>3. \A u \in Site : o \in Ops(SiteItems(new, save, u)) <=> o \in Ops(SiteItems(b, save, u)) /\ o # op
    BY <1>8, <1>9
  <2>4. QED
    BY <2>1, <2>2, <2>3
<1>12. QED
  BY <1>10, <1>11 DEF new

(* After the first i items the diff is what it was without those of them   *)
(* that were included.                                                     *)
RestAt(items, i, save, b0, b) ==
  /\ PlainLayer(b)
  /\ \A o : o \in Ops(Diff(b, save)) <=>
              /\ o \in Ops(Diff(b0, save))
              /\ \A j \in 1..i : items[j].included => o # items[j].op

(* No two items of a diff do the same. *)
LEMMA OpsDiffer ==
  ASSUME NEW items \in Seq(Item), Pairwise(items, ClearPairs),
         NEW i \in DOMAIN items, NEW j \in DOMAIN items, i # j
  PROVE  items[i].op # items[j].op
<1>1. ClearOps(items[i].op, items[j].op)
  BY DEF Pairwise, ClearPairs
<1>2. QED
  BY <1>1 DEF ClearOps

(* One more item. *)
LEMMA RestStep ==
  ASSUME NEW items \in Seq(Item), Pairwise(items, ClearPairs), NEW save \in Save, NEW b0,
         Ops(Diff(b0, save)) = Ops(items),
         NEW i \in DOMAIN items, items[i].included, NEW b, RestAt(items, i - 1, save, b0, b),
         NEW take \in BOOLEAN
  PROVE  RestAt(items, i, save, b0, ApplySync(b, items[i].op, take))
<1>0. Len(items) \in Nat /\ DOMAIN items = 1..Len(items)
  OBVIOUS
<1> DEFINE op == items[i].op
           new == ApplySync(b, op, take)
<1>1. \A j : j \in 1..i <=> j \in 1..(i - 1) \/ j = i
  BY <1>0
<1>2. \A j \in 1..(i - 1) : j \in DOMAIN items /\ j # i
  BY <1>0
<1>3. \A j \in 1..(i - 1) : op # items[j].op
  BY <1>2, OpsDiffer
<1>4. op \in Ops(items)
  BY DEF Ops, Range
<1> HIDE DEF op
<1>5. op \in Ops(Diff(b, save)) /\ PlainLayer(b)
  BY <1>3, <1>4 DEF RestAt
<1>6. /\ PlainLayer(new)
      /\ \A o : o \in Ops(Diff(new, save)) <=> o \in Ops(Diff(b, save)) /\ o # op
  BY <1>5, ApplyLeaves
<1> HIDE DEF new
<1>7. ASSUME NEW o
      PROVE  o \in Ops(Diff(new, save)) <=>
               /\ o \in Ops(Diff(b0, save))
               /\ \A j \in 1..i : items[j].included => o # items[j].op
  <2>1. o \in Ops(Diff(b, save)) <=>
          /\ o \in Ops(Diff(b0, save))
          /\ \A j \in 1..(i - 1) : items[j].included => o # items[j].op
    BY DEF RestAt
  <2>2. QED
    BY <1>1, <1>6, <2>1 DEF op
<1>8. RestAt(items, i, save, b0, new)
  BY <1>6, <1>7 DEF RestAt
<1>9. QED
  BY <1>8 DEF new, op

(* Accepting part of a diff leaves the rest of it. *)
LEMMA AcceptLeaves ==
  ASSUME NEW b, PlainLayer(b), NEW d, d.save \in Save, Acceptable(d.items, b),
         Ops(Diff(b, d.save)) = Ops(d.items)
  PROVE  Ops(Diff(ApplyIncluded(b, d), d.save)) =
           {it.op : it \in {x \in Range(d.items) : ~x.included}}
<1> DEFINE items == d.items
           n == Len(items)
           save == d.save
<1>1. /\ items \in Seq(Item) /\ Pairwise(items, ClearPairs) /\ n \in Nat /\ DOMAIN items = 1..n
  BY DEF Acceptable
<1>2. PICK f : After(b, items, f, n) /\ ApplyIncluded(b, d) = f[n]
  BY <1>1, AppliedIs
<1> HIDE DEF items, n, save
<1> DEFINE S == {i \in 0..n : RestAt(items, i, save, b, f[i])}
<1>4. 0 \in S
  <2>1. RestAt(items, 0, save, b, b)
    BY DEF RestAt
  <2>2. f[0] = b
    BY <1>1, <1>2, AfterSteps
  <2>3. QED
    BY <1>1, <2>1, <2>2
<1>5. ASSUME NEW i \in 0..n, i # 0, i - 1 \in S, i - 1 \in 0..n PROVE i \in S
  <2>1. i \in 1..n /\ RestAt(items, i - 1, save, b, f[i - 1])
    BY <1>5
  <2>2. CASE items[i].included
    <3> DEFINE take == items[i].side = "theirs"
    <3>1. f[i] = ApplySync(f[i - 1], items[i].op, take) /\ take \in BOOLEAN
      BY <1>1, <1>2, <2>1, <2>2, AfterSteps
    <3> HIDE DEF take
    <3>2. save \in Save /\ Ops(Diff(b, save)) = Ops(items) /\ i \in DOMAIN items
      BY <1>1, <2>1 DEF save, items
    <3>3. RestAt(items, i, save, b, ApplySync(f[i - 1], items[i].op, take))
      BY <1>1, <2>1, <2>2, <3>1, <3>2, RestStep
    <3>4. QED
      BY <3>1, <3>3
  <2>3. CASE ~items[i].included
    <3>1. f[i] = f[i - 1]
      BY <1>1, <1>2, <2>1, <2>3, AfterSteps
    <3>2. \A j : j \in 1..i <=> j \in 1..(i - 1) \/ j = i
      BY <1>1, <2>1
    <3>3. RestAt(items, i, save, b, f[i])
      BY <2>1, <2>3, <3>1, <3>2 DEF RestAt
    <3>4. QED
      BY <3>3
  <2>4. QED
    BY <2>2, <2>3
<1> HIDE DEF S
<1>6. n \in S
  <2>1. SUFFICES ASSUME n \notin S PROVE FALSE
    OBVIOUS
  <2>2. \E i \in 0..n : i \notin S
    BY <1>1, <2>1
  <2>3. PICK i \in 0..n : i \notin S /\ (i # 0 => i - 1 \in S /\ i - 1 \in 0..n)
    BY <1>1, <2>2, FirstMissingFrom0
  <2>4. QED
    BY <1>4, <1>5, <2>3
<1>7. RestAt(items, n, save, b, f[n])
  BY <1>6 DEF S
<1>8. Ops(Diff(b, save)) = Ops(items)
  BY DEF save, items
<1> DEFINE X == Ops(Diff(f[n], save))
           Y == {it.op : it \in {x \in Range(items) : ~x.included}}
<1>9. ASSUME NEW o PROVE o \in X <=> o \in Y
  <2>1. o \in X <=> o \in Ops(items) /\ \A j \in 1..n : items[j].included => o # items[j].op
    BY <1>7, <1>8 DEF RestAt
  <2>2. o \in Ops(items) <=> \E j \in 1..n : o = items[j].op
    BY <1>1 DEF Ops, Range
  <2>3. o \in Y <=> \E j \in 1..n : ~items[j].included /\ o = items[j].op
    BY <1>1 DEF Range
  <2>4. \A i, j \in 1..n : items[i].op = items[j].op => i = j
    BY <1>1, OpsDiffer
  <2> HIDE DEF X, Y
  <2>5. QED
    BY <2>1, <2>2, <2>3, <2>4
<1> HIDE DEF X, Y
<1>10. X = Y
  BY <1>9
<1>11. QED
  BY <1>2, <1>10 DEF X, Y, items, save

------------------------------------------------------------------------------
(* The journal *)

HistType ==
  /\ \E S : hist \in Seq(S)
  /\ pos \in DOMAIN hist

(* A commit keeps the versions up to the current one and adds one.         *)
LEMMA CommitIs ==
  ASSUME HistType, NEW built, NEW diffs, Commit(built, diffs)
  PROVE  /\ HistType'
         /\ DOMAIN hist' = 1..(pos + 1)
         /\ plan' = [built |-> built, diffs |-> diffs]
         /\ \A v \in 1..pos : v \in DOMAIN hist /\ hist'[v] = hist[v]
<1> DEFINE pl == [built |-> built, diffs |-> diffs]
<1>1. PICK S : hist \in Seq(S)
  BY DEF HistType
<1>2. pos \in 1..Len(hist) /\ Len(hist) \in Nat /\ DOMAIN hist = 1..Len(hist)
  BY <1>1 DEF HistType
<1>3. /\ SubSeq(hist, 1, pos) \in Seq(S)
      /\ Len(SubSeq(hist, 1, pos)) = pos
      /\ \A v \in 1..pos : SubSeq(hist, 1, pos)[v] = hist[v]
  BY <1>1, <1>2
<1> DEFINE t == SubSeq(hist, 1, pos)
           U == S \cup {pl}
<1>4. t \in Seq(U) /\ pl \in U /\ Len(t) = pos /\ \A v \in 1..pos : t[v] = hist[v]
  <2>1. t \in Seq(S) /\ S \subseteq U
    BY <1>3
  <2>2. t \in Seq(U)
    BY <2>1
  <2>3. QED
    BY <1>3, <2>2
<1>5. hist' = Append(t, pl) /\ pos' = pos + 1
  BY DEF Commit
<1> HIDE DEF pl, t, U
<1>6. /\ hist' \in Seq(U) /\ Len(hist') = pos + 1 /\ hist'[pos + 1] = pl
      /\ \A v \in 1..pos : hist'[v] = t[v]
  BY <1>2, <1>4, <1>5
<1>7. DOMAIN hist' = 1..(pos + 1)
  BY <1>6
<1>8. HistType'
  BY <1>2, <1>5, <1>6, <1>7 DEF HistType
<1>9. QED
  BY <1>2, <1>4, <1>5, <1>6, <1>7, <1>8 DEF plan, pl

------------------------------------------------------------------------------
(* The proposals of every version *)

(* A version's proposals are numbered up to n, have a status, and at most  *)
(* one is open.                                                            *)
Orderly(diffs, n) ==
  /\ DOMAIN diffs \subseteq 1..n
  /\ \A p \in DOMAIN diffs : "status" \in DOMAIN diffs[p]
  /\ \A p, q \in DOMAIN diffs :
       diffs[p].status = "open" /\ diffs[q].status = "open" => p = q

IInv ==
  /\ HistType
  /\ drafted \in Nat
  /\ \A v \in DOMAIN hist : Orderly(hist[v].diffs, drafted)

(* The current version is one of those in order. *)
LEMMA OrderlyPlan ==
  ASSUME IInv
  PROVE  Orderly(plan.diffs, drafted)
  BY DEF IInv, HistType, plan

(* No proposal opens or changes its number.                                *)
LEMMA NothingOpens ==
  ASSUME NEW n, NEW d, NEW e, Orderly(d, n), DOMAIN e = DOMAIN d,
         \A p \in DOMAIN d :
           /\ "status" \in DOMAIN e[p]
           /\ e[p].status = "open" => d[p].status = "open"
  PROVE  Orderly(e, n)
  BY DEF Orderly

(* A decided proposal stays in order. *)
LEMMA StatusSet ==
  ASSUME NEW n, NEW d, Orderly(d, n), NEW p \in DOMAIN d, NEW s, s # "open"
  PROVE  LET e == [d EXCEPT ![p].status = s]
         IN  /\ Orderly(e, n)
             /\ DOMAIN e = DOMAIN d
             /\ e[p].status = s
             /\ \A q \in DOMAIN d \ {p} : e[q] = d[q]
<1> DEFINE e == [d EXCEPT ![p].status = s]
<1>1. DOMAIN e = DOMAIN d /\ \A q \in DOMAIN d \ {p} : e[q] = d[q]
  OBVIOUS
<1>2. e[p] = [d[p] EXCEPT !.status = s]
  OBVIOUS
<1>3. "status" \in DOMAIN d[p]
  BY DEF Orderly
<1>4. "status" \in DOMAIN e[p] /\ e[p].status = s
  BY <1>2, <1>3
<1> HIDE DEF e
<1>5. Orderly(e, n)
  BY <1>1, <1>4, NothingOpens DEF Orderly
<1>6. QED
  BY <1>1, <1>4, <1>5 DEF e

(* An item toggled or a side chosen changes no status. *)
LEMMA ItemSet ==
  ASSUME NEW n, NEW d, Orderly(d, n), NEW p \in DOMAIN d, NEW i, NEW item
  PROVE  LET e == [d EXCEPT ![p].items[i] = item]
         IN  /\ Orderly(e, n)
             /\ DOMAIN e = DOMAIN d
             /\ \A q \in DOMAIN d : e[q].status = d[q].status
<1> DEFINE e == [d EXCEPT ![p].items[i] = item]
<1>1. DOMAIN e = DOMAIN d /\ \A q \in DOMAIN d \ {p} : e[q] = d[q]
  OBVIOUS
<1>2. e[p] = [d[p] EXCEPT !.items = [d[p].items EXCEPT ![i] = item]]
  OBVIOUS
<1>3. DOMAIN e[p] = DOMAIN d[p] /\ e[p].status = d[p].status
  BY <1>2 DEF Orderly
<1> HIDE DEF e
<1>4. \A q \in DOMAIN d : "status" \in DOMAIN e[q] /\ e[q].status = d[q].status
  BY <1>1, <1>3 DEF Orderly
<1>5. Orderly(e, n)
  BY <1>1, <1>4, NothingOpens
<1>6. QED
  BY <1>1, <1>4, <1>5 DEF e

(* A new draft closes every open proposal. *)
LEMMA Supersedes ==
  ASSUME NEW n \in Nat, NEW d, Orderly(d, n), NEW new,
         "status" \in DOMAIN new
  PROVE  LET e == Superseding(d, n + 1, new)
         IN  /\ Orderly(e, n + 1)
             /\ \A p \in DOMAIN d : p # n + 1 /\ e[p].status # "open"
             /\ \A p \in DOMAIN d : d[p].status = "open" => e[p].status = "rejected"
<1> DEFINE e == Superseding(d, n + 1, new)
<1>1. /\ DOMAIN e = DOMAIN d \cup {n + 1}
      /\ e[n + 1] = new
  BY DEF Superseding
<1>2. ASSUME NEW p \in DOMAIN d
      PROVE  /\ p # n + 1
             /\ "status" \in DOMAIN e[p]
             /\ e[p].status # "open"
             /\ d[p].status = "open" => e[p].status = "rejected"
  <2>1. p # n + 1 /\ "status" \in DOMAIN d[p]
    BY DEF Orderly
  <2>2. CASE d[p].status = "open"
    <3>1. e[p] = [d[p] EXCEPT !.status = "rejected"]
      BY <2>1, <2>2 DEF Superseding
    <3>2. "status" \in DOMAIN e[p] /\ e[p].status = "rejected"
      BY <2>1, <3>1
    <3>3. QED
      BY <2>1, <3>2
  <2>3. CASE d[p].status # "open"
    <3>1. e[p] = d[p]
      BY <2>1, <2>3 DEF Superseding
    <3>2. QED
      BY <2>1, <2>3, <3>1
  <2>4. QED
    BY <2>2, <2>3
<1> HIDE DEF e
<1>3. DOMAIN e \subseteq 1..(n + 1)
  BY <1>1 DEF Orderly
<1>4. Orderly(e, n + 1)
  BY <1>1, <1>2, <1>3 DEF Orderly
<1>5. QED
  BY <1>2, <1>4 DEF e

(* What each kind of step does to the proposals of the current plan.       *)
LEMMA DraftShape ==
  ASSUME NEW save
  PROVE  "status" \in DOMAIN Drafted(save) /\ Drafted(save).status = "open"
  BY DEF Drafted

(* The invariant survives a commit whose proposals are in order.           *)
LEMMA CommitKeeps ==
  ASSUME IInv, NEW built, NEW diffs, Commit(built, diffs),
         drafted' \in {drafted, drafted + 1}, Orderly(diffs, drafted')
  PROVE  IInv'
<1>1. /\ HistType' /\ DOMAIN hist' = 1..(pos + 1)
      /\ hist'[pos'].diffs = diffs /\ pos' = pos + 1
      /\ \A v \in 1..pos : v \in DOMAIN hist /\ hist'[v] = hist[v]
  <2>1. plan' = [built |-> built, diffs |-> diffs]
    BY CommitIs DEF IInv
  <2>2. hist'[pos'].diffs = diffs
    BY <2>1 DEF plan
  <2>3. pos' = pos + 1
    BY DEF Commit
  <2>4. QED
    BY <2>2, <2>3, CommitIs DEF IInv
<1>2. drafted' \in Nat /\ 1..drafted \subseteq 1..drafted'
  BY DEF IInv
<1>3. ASSUME NEW v \in DOMAIN hist'
      PROVE  Orderly(hist'[v].diffs, drafted')
  <2>1. CASE v = pos + 1
    BY <1>1, <2>1
  <2>2. CASE v # pos + 1
    <3>1. pos \in Nat
      <4>1. PICK S : hist \in Seq(S)
        BY DEF IInv, HistType
      <4>2. QED
        BY <4>1 DEF IInv, HistType
    <3>2. v \in 1..pos
      BY <1>1, <2>2, <3>1
    <3>3. Orderly(hist[v].diffs, drafted) /\ hist'[v] = hist[v]
      BY <1>1, <3>2 DEF IInv
    <3>4. QED
      BY <1>2, <3>3 DEF Orderly
  <2>3. QED
    BY <2>1, <2>2
<1>4. QED
  BY <1>1, <1>2, <1>3 DEF IInv

------------------------------------------------------------------------------
(* The steps *)

(* Every step but a draft keeps the count of drafts, and every step that   *)
(* writes an entry keeps the proposals in order.                           *)
LEMMA InitInv == Init => IInv
<1> SUFFICES ASSUME Init PROVE IInv
  OBVIOUS
<1>1. hist = <<EmptyPlan>> /\ pos = 1 /\ drafted = 0
  BY DEF Init
<1>2. hist \in Seq({EmptyPlan}) /\ DOMAIN hist = {1} /\ hist[1] = EmptyPlan
  BY <1>1
<1>3. DOMAIN EmptyPlan.diffs = {}
  BY DEF EmptyPlan
<1>4. Orderly(EmptyPlan.diffs, 0)
  BY <1>3 DEF Orderly
<1>5. HistType
  BY <1>1, <1>2 DEF HistType
<1>6. QED
  BY <1>1, <1>2, <1>4, <1>5 DEF IInv

(* Importing a save that differs drafts a proposal and closes the others. *)
LEMMA DraftInv ==
  ASSUME IInv, NEW save, ImportDrift(save)
  PROVE  /\ IInv'
         /\ \A p \in Open(plan) : plan'.diffs[p].status = "rejected"
<1> DEFINE e == Superseding(plan.diffs, drafted + 1, Drafted(save))
<1>1. /\ drafted' = drafted + 1 /\ drafted \in Nat
      /\ Commit(plan.built, e)
  BY DEF ImportDrift, IInv
<1>2. /\ Orderly(e, drafted + 1)
      /\ \A p \in DOMAIN plan.diffs :
           plan.diffs[p].status = "open" => e[p].status = "rejected"
  BY <1>1, OrderlyPlan, DraftShape, Supersedes
<1> HIDE DEF e
<1>3. IInv'
  BY <1>1, <1>2, CommitKeeps
<1>4. plan'.diffs = e
  BY <1>1, CommitIs DEF IInv
<1>5. QED
  BY <1>2, <1>3, <1>4 DEF Open

(* Reviewing opens and closes nothing. *)
LEMMA ReviewInv ==
  ASSUME IInv, NEW p, NEW i, NEW item, Reviewing(p, i, item)
  PROVE  /\ IInv'
         /\ \A q \in Open(plan) : plan'.diffs[q].status = "open"
<1> DEFINE e == [plan.diffs EXCEPT ![p].items[i] = item]
<1>1. p \in DOMAIN plan.diffs /\ Commit(plan.built, e) /\ drafted' = drafted
  BY DEF Reviewing, Open
<1>2. /\ Orderly(e, drafted)
      /\ \A q \in DOMAIN plan.diffs : e[q].status = plan.diffs[q].status
  BY <1>1, OrderlyPlan, ItemSet
<1> HIDE DEF e
<1>3. IInv'
  BY <1>1, <1>2, CommitKeeps
<1>4. plan'.diffs = e
  BY <1>1, CommitIs DEF IInv
<1>5. QED
  BY <1>2, <1>3, <1>4 DEF Open

(* Rejecting accepts nothing. *)
LEMMA RejectInv ==
  ASSUME IInv, NEW p, RejectProposal(p)
  PROVE  /\ IInv'
         /\ \A q \in Open(plan) : plan'.diffs[q].status # "accepted"
<1> DEFINE e == [plan.diffs EXCEPT ![p].status = "rejected"]
<1>1. p \in DOMAIN plan.diffs /\ Commit(plan.built, e) /\ drafted' = drafted
  BY DEF RejectProposal, Open
<1>2. /\ Orderly(e, drafted)
      /\ e[p].status = "rejected"
      /\ \A q \in DOMAIN plan.diffs \ {p} : e[q] = plan.diffs[q]
  BY <1>1, OrderlyPlan, StatusSet
<1> HIDE DEF e
<1>3. IInv'
  BY <1>1, <1>2, CommitKeeps
<1>4. plan'.diffs = e
  BY <1>1, CommitIs DEF IInv
<1>5. QED
  BY <1>2, <1>3, <1>4 DEF Open

(* Accepting decides one proposal only. *)
LEMMA AcceptInv ==
  ASSUME IInv, NEW p, AcceptProposal(p)
  PROVE  /\ IInv'
         /\ \A q \in Open(plan) \ {p} : plan'.diffs[q].status = "open"
<1> DEFINE e == [plan.diffs EXCEPT ![p].status = "accepted"]
           b == ApplyIncluded(plan.built, plan.diffs[p])
<1>1. p \in DOMAIN plan.diffs /\ Commit(b, e) /\ drafted' = drafted
  BY DEF AcceptProposal, Open
<1>2. /\ Orderly(e, drafted)
      /\ \A q \in DOMAIN plan.diffs \ {p} : e[q] = plan.diffs[q]
  BY <1>1, OrderlyPlan, StatusSet
<1> HIDE DEF e, b
<1>3. IInv'
  BY <1>1, <1>2, CommitKeeps
<1>4. plan'.diffs = e
  BY <1>1, CommitIs DEF IInv
<1>5. QED
  BY <1>2, <1>3, <1>4 DEF Open

(* Commits that leave the proposals alone.                                 *)
LEMMA BuiltInv ==
  ASSUME IInv, NEW built, Commit(built, plan.diffs), drafted' = drafted
  PROVE  IInv' /\ plan'.diffs = plan.diffs
<1>1. IInv'
  BY OrderlyPlan, CommitKeeps
<1>2. plan'.diffs = plan.diffs
  BY CommitIs DEF IInv
<1>3. QED
  BY <1>1, <1>2

(* Undo and redo write no version. *)
LEMMA MoveInv ==
  ASSUME IInv, hist' = hist, drafted' = drafted, pos' \in DOMAIN hist
  PROVE  IInv'
  BY DEF IInv, HistType

(* The steps of one kind, with their bound variables dropped.              *)
Import  == \E save \in Saves : ImportFirst(save) \/ ImportDrift(save) \/ ImportInSync(save)
Review  == \E p, i, item : Reviewing(p, i, item)
Reject  == \E p \in Open(plan) : RejectProposal(p)
Accept  == \E p \in Open(plan) : AcceptProposal(p)
Edit    == \E s, gs : EditGroups(s, gs)

(* Every step is of one of these kinds. *)
LEMMA NextKinds ==
  ASSUME Next
  PROVE  Import \/ Review \/ Reject \/ Accept \/ Edit \/ Undo \/ Redo
<1>1. ASSUME NEW p \in Open(plan), NEW i \in DOMAIN plan.diffs[p].items,
             \/ ToggleProposalItem(p, i)
             \/ \E side \in Sides : SetProposalItemChoice(p, i, side)
      PROVE  Review
  BY <1>1 DEF ToggleProposalItem, SetProposalItemChoice, Review
<1>2. ASSUME NEW s \in DOMAIN plan.built, NEW i \in DOMAIN plan.built[s],
             \/ \E n \in EditCounts : SetGroupCount(s, i, n)
             \/ \E c \in EditClocks : SetGroupClock(s, i, c)
             \/ DeleteGroup(s, i)
      PROVE  Edit
  BY <1>2 DEF SetGroupCount, SetGroupClock, DeleteGroup, Edit
<1>3. ASSUME NEW s \in DOMAIN plan.built,
             \E m \in Machine, r \in Recipe, n \in EditCounts : AddGroup(s, m, r, n)
      PROVE  Edit
  BY <1>3 DEF AddGroup, Edit
<1>4. QED
  BY <1>1, <1>2, <1>3 DEF Next, Import, Reject, Accept

(* Undo and redo stay within the journal. *)
LEMMA Moves ==
  ASSUME IInv, Undo \/ Redo
  PROVE  IInv' /\ hist' = hist
<1>1. PICK S : hist \in Seq(S)
  BY DEF IInv, HistType
<1>2. pos' \in DOMAIN hist
  BY <1>1 DEF IInv, HistType, Undo, Redo
<1>3. QED
  BY <1>2, MoveInv DEF Undo, Redo

(* Every step keeps the proposals in order. *)
LEMMA NextInv ==
  ASSUME IInv, [Next]_vars
  PROVE  IInv'
<1>1. ASSUME NEW save \in Saves, ImportFirst(save) PROVE IInv'
  BY <1>1, BuiltInv DEF ImportFirst
<1>2. ASSUME NEW save \in Saves, ImportDrift(save) PROVE IInv'
  BY <1>2, DraftInv
<1>3. ASSUME NEW save \in Saves, ImportInSync(save) PROVE IInv'
  BY <1>3, MoveInv DEF ImportInSync, IInv, HistType
<1>4. CASE Review
  BY <1>4, ReviewInv DEF Review
<1>5. CASE Reject
  BY <1>5, RejectInv DEF Reject
<1>6. CASE Accept
  BY <1>6, AcceptInv DEF Accept
<1>7. CASE Edit
  BY <1>7, BuiltInv DEF Edit, EditGroups
<1>8. CASE Undo \/ Redo
  BY <1>8, Moves
<1>9. CASE UNCHANGED vars
  BY <1>9, MoveInv DEF vars, IInv, HistType
<1>10. QED
  BY <1>1, <1>2, <1>3, <1>4, <1>5, <1>6, <1>7, <1>8, <1>9, NextKinds DEF Import

(* In every version of the journal the drift proposals are in order. *)
THEOREM DiffsInOrder == Spec => []IInv
  BY InitInv, NextInv, PTL DEF Spec

(* Undo and redo never show a version with two open drift proposals.       *)
THEOREM AlwaysOneOpenDiff == Spec => []OneOpenDiff
<1>1. IInv => OneOpenDiff
  BY DEF IInv, Orderly, OneOpenDiff, Open
<1>2. QED
  BY <1>1, DiffsInOrder, PTL

------------------------------------------------------------------------------
(* The record of the newest import *)

(* Until a write is lost, the record names what the newest import drafted; *)
(* there is no record only before the first import.                        *)
RecordInv ==
  /\ newest.diff \in 0..drafted
  /\ lost \in Nat
  /\ lost = 0 => \/ last = newest.diff
                 \/ last = NoRecord /\ drafted = 0

(* Before the first import there is no record. *)
LEMMA RecordInit == Init => RecordInv
  BY DEF Init, RecordInv, NoDiff

(* write_last_import names the newest import, or is lost. *)
LEMMA WriteKeepsRecord ==
  ASSUME RecordInv, NEW p \in 0..drafted', NEW save, WriteLastImport(p, save)
  PROVE  RecordInv'
<1>1. newest'.diff = p
  BY DEF WriteLastImport
<1>2. CASE last' = p /\ lost' = lost
  BY <1>1, <1>2 DEF RecordInv
<1>3. CASE lost' = lost + 1
  <2>1. lost' \in Nat /\ lost' # 0
    BY <1>3 DEF RecordInv
  <2>2. QED
    BY <1>1, <2>1 DEF RecordInv
<1>4. QED
  BY <1>2, <1>3 DEF WriteLastImport

(* Only an import writes the record. *)
LEMMA RecordNext ==
  ASSUME IInv, RecordInv, [Next]_vars
  PROVE  RecordInv'
<1>0. drafted \in Nat /\ NoDiff \in 0..drafted
  BY DEF IInv, NoDiff
<1>1. ASSUME NEW save \in Saves, ImportFirst(save) PROVE RecordInv'
  BY <1>0, <1>1, WriteKeepsRecord DEF ImportFirst
<1>2. ASSUME NEW save \in Saves, ImportDrift(save) PROVE RecordInv'
  <2>1. drafted' = drafted + 1 /\ WriteLastImport(drafted + 1, save)
    BY <1>2 DEF ImportDrift
  <2>2. drafted + 1 \in 0..drafted'
    BY <1>0, <2>1
  <2>3. QED
    BY <2>1, <2>2, WriteKeepsRecord
<1>3. ASSUME NEW save \in Saves, ImportInSync(save) PROVE RecordInv'
  BY <1>0, <1>3, WriteKeepsRecord DEF ImportInSync
<1>4. ASSUME UNCHANGED <<drafted, last, newest, lost>> PROVE RecordInv'
  BY <1>4 DEF RecordInv
<1>5. CASE Review \/ Reject \/ Accept \/ Edit \/ Undo \/ Redo \/ UNCHANGED vars
  BY <1>4, <1>5 DEF Review, Reviewing, Reject, RejectProposal, Accept, AcceptProposal,
                    Edit, EditGroups, Undo, Redo, vars
<1>6. QED
  BY <1>1, <1>2, <1>3, <1>5, NextKinds DEF Import

(* The gate of accept_proposal lets only the newest diff through.          *)
LEMMA GateHolds ==
  ASSUME IInv, RecordInv, NEW p, AcceptProposal(p), lost = 0
  PROVE  newest.diff = p
<1>1. p \in 1..drafted /\ drafted # 0
  BY OrderlyPlan DEF AcceptProposal, Open, Orderly, IInv
<1>2. last = newest.diff /\ last # NoRecord
  BY <1>1 DEF RecordInv, NoRecord, IInv
<1>3. QED
  BY <1>2 DEF AcceptProposal

(* No step but accept_proposal takes an open proposal to accepted. *)
LEMMA OnlyAcceptAccepts ==
  ASSUME IInv, Next, NEW p, Accepts(p), hist' # hist
  PROVE  AcceptProposal(p)
<1>1. p \in Open(plan) /\ plan'.diffs[p].status = "accepted"
  BY DEF Accepts
<1>2. ASSUME plan'.diffs = plan.diffs PROVE FALSE
  BY <1>1, <1>2 DEF Open
<1>3. ASSUME NEW save \in Saves, ImportFirst(save) PROVE FALSE
  BY <1>2, <1>3, BuiltInv DEF ImportFirst
<1>4. ASSUME NEW save \in Saves, ImportDrift(save) PROVE FALSE
  BY <1>1, <1>4, DraftInv
<1>5. ASSUME NEW save \in Saves, ImportInSync(save) PROVE FALSE
  BY <1>5 DEF ImportInSync
<1>6. CASE Review
  BY <1>1, <1>6, ReviewInv DEF Review
<1>7. CASE Reject
  BY <1>1, <1>7, RejectInv DEF Reject
<1>8. CASE Accept
  BY <1>1, <1>8, AcceptInv DEF Accept
<1>9. CASE Edit
  BY <1>2, <1>9, BuiltInv DEF Edit, EditGroups
<1>10. CASE Undo \/ Redo
  BY <1>10, Moves
<1>11. QED
  BY <1>3, <1>4, <1>5, <1>6, <1>7, <1>8, <1>9, <1>10, NextKinds DEF Import

(* The last-import record names the newest import until a write of it is lost. *)
THEOREM RecordTracksNewest == Spec => []RecordInv
<1>1. IInv /\ RecordInv /\ [Next]_vars => RecordInv'
  BY RecordNext
<1>2. QED
  BY <1>1, RecordInit, DiffsInOrder, PTL DEF Spec

(* As long as no write of the record was lost, only the proposal of the    *)
(* newest import is ever accepted, whatever was undone or redone before.   *)
THEOREM AlwaysNewestAccepted == Spec => OnlyNewestDiffAccepted
<1> DEFINE Step == \A p \in 1..MaxDiffs :
                     Accepts(p) /\ hist' # hist => newest.diff = p \/ lost > 0
<1>1. IInv /\ RecordInv /\ [Next]_vars => [Step]_vars
  <2> SUFFICES ASSUME IInv, RecordInv, Next, NEW p \in 1..MaxDiffs,
                      Accepts(p), hist' # hist, ~(lost > 0)
               PROVE  newest.diff = p
    OBVIOUS
  <2>1. lost = 0
    BY DEF RecordInv
  <2>2. AcceptProposal(p)
    BY OnlyAcceptAccepts
  <2>3. QED
    BY <2>1, <2>2, GateHolds
<1>2. Spec => [][Step]_vars
  BY <1>1, DiffsInOrder, RecordTracksNewest, PTL DEF Spec
<1>3. QED
  BY <1>2 DEF OnlyNewestDiffAccepted

------------------------------------------------------------------------------
(* Sound versions *)

(* The same factories, of which the game last said the same.               *)
SameBase(b, c) ==
  /\ DOMAIN c = DOMAIN b
  /\ \A s \in DOMAIN b : Base(c[s]) = Base(b[s])

(* Unmixed layers with the same baselines look alike. *)
LEMMA SameBaseAlike ==
  ASSUME NEW b, NEW c, Layer(b), Layer(c), ~Mixed(b), ~Mixed(c), SameBase(b, c)
  PROVE  LayersAlike(b, c)
<1>1. ASSUME NEW s \in DOMAIN b PROVE Alike(b[s], c[s])
  <2>1. s \in DOMAIN c /\ Base(b[s]) = Base(c[s]) /\ b[s] \in Seq(Group) /\ c[s] \in Seq(Group)
    BY DEF SameBase, Layer
  <2>2. Unmixed(b[s]) /\ Unmixed(c[s])
    BY <2>1 DEF Mixed, Unmixed, Range
  <2>3. QED
    BY <2>1, <2>2, BaseDecides
<1>2. QED
  BY <1>1 DEF LayersAlike, SameBase

(* The operations of an unmixed diff are those of a diff against a layer   *)
(* of which the game last said what it says of this one.                   *)
Fresh(d, b) ==
  ~d.mixed =>
    \E c : /\ Layer(c) /\ ~Mixed(c) /\ SameBase(b, c)
           /\ Ops(Diff(c, d.save)) = Ops(d.items)

(* What an open diff is like in any version of the plan.                   *)
Pending(d, b) ==
  /\ DOMAIN b # {}
  /\ Acceptable(d.items, b)
  /\ Fresh(d, b)

Sound(pl) ==
  /\ Layer(pl.built)
  /\ AllApart(pl.built)
  /\ \A p \in DOMAIN pl.diffs : pl.diffs[p] \in Proposal
  /\ \A p \in Open(pl) : Pending(pl.diffs[p], pl.built)

(* From one version to the next nothing reopens, and accepting a diff      *)
(* keeps what the user planned and leaves what was not included.           *)
Follows(old, new) ==
  \A p \in DOMAIN old.diffs \cap DOMAIN new.diffs :
    /\ p \notin Open(old) => p \notin Open(new)
    /\ p \in Open(old) /\ new.diffs[p].status = "accepted" =>
         /\ EditsKept(old.built, new.built, old.diffs[p])
         /\ RestLeft(old.built, new.built, old.diffs[p])

SoundInv ==
  \A v \in DOMAIN hist :
    /\ Sound(hist[v])
    /\ v + 1 \in DOMAIN hist => Follows(hist[v], hist[v + 1])

(* A sound diff of an unmixed layer still says what a fresh one would.     *)
LEMMA FreshFits ==
  ASSUME NEW d \in Proposal, NEW b, Layer(b), ~Mixed(b), ~d.mixed, Fresh(d, b)
  PROVE  Ops(Diff(b, d.save)) = Ops(d.items)
<1>1. PICK c : /\ Layer(c) /\ ~Mixed(c) /\ SameBase(b, c)
               /\ Ops(Diff(c, d.save)) = Ops(d.items)
  BY DEF Fresh
<1>2. d.save \in Save
  BY DriftAssumption DEF Proposal
<1>3. LayersAlike(b, c)
  BY <1>1, SameBaseAlike
<1>4. QED
  BY <1>1, <1>2, <1>3, DiffAlike

(* The current version is sound. *)
LEMMA SoundPlan ==
  ASSUME IInv, SoundInv
  PROVE  Sound(plan) /\ Layer(plan.built) /\ AllApart(plan.built)
  BY DEF IInv, HistType, SoundInv, plan, Sound

(* A commit of a sound version that follows the current one.               *)
LEMMA CommitSound ==
  ASSUME IInv, SoundInv, NEW built, NEW diffs, Commit(built, diffs),
         Sound([built |-> built, diffs |-> diffs]),
         Follows(plan, [built |-> built, diffs |-> diffs])
  PROVE  SoundInv'
<1> DEFINE new == [built |-> built, diffs |-> diffs]
<1>1. /\ DOMAIN hist' = 1..(pos + 1) /\ plan' = new /\ pos' = pos + 1
      /\ \A v \in 1..pos : v \in DOMAIN hist /\ hist'[v] = hist[v]
  BY CommitIs DEF IInv, Commit
<1>2. pos \in Nat /\ pos \in 1..pos
  <2>1. PICK S : hist \in Seq(S)
    BY DEF IInv, HistType
  <2>2. QED
    BY <2>1 DEF IInv, HistType
<1>3. hist'[pos + 1] = new /\ hist[pos] = plan
  BY <1>1 DEF plan
<1>4. Sound(new) /\ Follows(plan, new)
  OBVIOUS
<1> HIDE DEF new
<1>5. ASSUME NEW v \in DOMAIN hist'
      PROVE  Sound(hist'[v]) /\ (v + 1 \in DOMAIN hist' => Follows(hist'[v], hist'[v + 1]))
  <2>1. CASE v = pos + 1
    BY <1>1, <1>2, <1>3, <1>4, <2>1
  <2>2. CASE v = pos
    <3>1. hist'[v] = plan /\ hist'[v + 1] = new
      BY <1>1, <1>2, <1>3, <2>2
    <3>2. QED
      BY <1>4, <3>1, SoundPlan
  <2>3. CASE v \in 1..pos /\ v # pos
    <3>1. v + 1 \in 1..pos
      BY <1>2, <2>3
    <3>2. hist'[v] = hist[v] /\ hist'[v + 1] = hist[v + 1] /\ v \in DOMAIN hist /\ v + 1 \in DOMAIN hist
      BY <1>1, <2>3, <3>1
    <3>3. Sound(hist[v]) /\ Follows(hist[v], hist[v + 1])
      BY <3>2 DEF SoundInv
    <3>4. QED
      BY <3>2, <3>3
  <2>4. QED
    BY <1>1, <1>2, <2>1, <2>2, <2>3
<1>6. QED
  BY <1>5 DEF SoundInv

(* A commit that opens and accepts nothing follows the current version.    *)
LEMMA QuietFollows ==
  ASSUME NEW old, NEW new,
         \A p \in DOMAIN old.diffs \cap DOMAIN new.diffs :
           /\ new.diffs[p].status = "open" => old.diffs[p].status = "open"
           /\ new.diffs[p].status = "accepted" => old.diffs[p].status = "accepted"
  PROVE  Follows(old, new)
  BY DEF Follows, Open

(* Accepting a sound diff leaves what was not included. *)
LEMMA SoundLeaves ==
  ASSUME NEW d \in Proposal, NEW b, Layer(b), AllApart(b), Pending(d, b)
  PROVE  RestLeft(b, ApplyIncluded(b, d), d)
<1>1. SUFFICES ASSUME ~d.mixed, ~Mixed(b)
               PROVE  Ops(Diff(ApplyIncluded(b, d), d.save)) =
                        {it.op : it \in {x \in Range(d.items) : ~x.included}}
  BY DEF RestLeft
<1>2. d.save \in Save
  BY DriftAssumption DEF Proposal
<1>3. PlainLayer(b)
  BY <1>1, PlainLayerIs
<1>4. Ops(Diff(b, d.save)) = Ops(d.items)
  BY <1>1, FreshFits DEF Pending
<1>5. Acceptable(d.items, b)
  BY DEF Pending
<1>6. QED
  BY <1>2, <1>3, <1>4, <1>5, AcceptLeaves

(* The built layer of a first import. *)
LEMMA WriteBuiltLayerIs ==
  ASSUME NEW save \in Save
  PROVE  Layer(WriteBuiltLayer(save)) /\ AllApart(WriteBuiltLayer(save))
<1>1. \A s \in Clusters(save) : s \in Site /\ save[s] \in Seq(SaveGroup) /\ KeysOnce(save[s])
  BY DEF Clusters, Save, KeysOnce
<1>2. /\ DOMAIN WriteBuiltLayer(save) = Clusters(save)
      /\ \A s \in Clusters(save) : WriteBuiltLayer(save)[s] = Written(save[s])
  BY DEF WriteBuiltLayer
<1>3. QED
  BY <1>1, <1>2, WrittenIs, WrittenApart DEF Layer, AllApart

(* The first import writes a sound version: nothing is open yet. *)
LEMMA FirstSound ==
  ASSUME IInv, SoundInv, NEW save \in Saves, ImportFirst(save)
  PROVE  SoundInv'
<1> DEFINE b   == WriteBuiltLayer(save)
           new == [built |-> b, diffs |-> plan.diffs]
<1>1. Layer(b) /\ AllApart(b)
  BY WriteBuiltLayerIs, DriftAssumption
<1>2. new.built = b /\ new.diffs = plan.diffs
  OBVIOUS
<1>3. Open(plan) = {}
  BY SoundPlan DEF ImportFirst, Sound, Pending
<1> HIDE DEF b
<1>4. Open(new) = {}
  BY <1>2, <1>3 DEF Open
<1> HIDE DEF new
<1>5. Sound(new)
  BY <1>1, <1>2, <1>4, SoundPlan DEF Sound
<1>6. Follows(plan, new)
  BY <1>2, QuietFollows
<1>7. QED
  BY <1>5, <1>6, CommitSound DEF ImportFirst, new, b

(* A fresh draft is sound. *)
LEMMA DraftedIs ==
  ASSUME Layer(plan.built), DOMAIN plan.built # {}, NEW save \in Saves
  PROVE  /\ Drafted(save) \in Proposal
         /\ Drafted(save).status = "open"
         /\ Pending(Drafted(save), plan.built)
<1> DEFINE d == Drafted(save)
           b == plan.built
<1>1. save \in Save
  BY DriftAssumption
<1>2. /\ d.items = Diff(b, save) /\ d.status = "open" /\ d.save = save /\ d.mixed = Mixed(b)
      /\ d = [items |-> Diff(b, save), status |-> "open", save |-> save, mixed |-> Mixed(b)]
  BY DEF Drafted
<1>3. /\ Diff(b, save) \in Seq(Item)
      /\ Pairwise(Diff(b, save), ClearPairs)
      /\ \A x \in Range(Diff(b, save)) : Fit(x.op, b)
  BY <1>1, DiffIs
<1>4. Mixed(b) \in BOOLEAN
  BY DEF Mixed
<1> HIDE DEF d, b
<1>5. d \in Proposal
  BY <1>2, <1>3, <1>4 DEF Proposal
<1>6. Acceptable(d.items, b)
  BY <1>2, <1>3 DEF Acceptable
<1>7. Fresh(d, b)
  <2>1. ASSUME ~d.mixed PROVE ~Mixed(b) /\ SameBase(b, b) /\ Ops(Diff(b, d.save)) = Ops(d.items)
    BY <1>2, <2>1 DEF SameBase
  <2>2. Layer(b)
    BY DEF b
  <2>3. QED
    BY <2>1, <2>2 DEF Fresh
<1>8. QED
  BY <1>2, <1>5, <1>6, <1>7 DEF Pending, d, b

(* A later import writes a sound version: only its own draft is open. *)
LEMMA DraftSound ==
  ASSUME IInv, SoundInv, NEW save \in Saves, ImportDrift(save)
  PROVE  SoundInv'
<1> DEFINE d   == Drafted(save)
           n   == drafted + 1
           D   == plan.diffs
           e   == Superseding(D, n, d)
           new == [built |-> plan.built, diffs |-> e]
<1>1. /\ d \in Proposal /\ d.status = "open" /\ Pending(d, plan.built)
      /\ Layer(plan.built) /\ AllApart(plan.built)
  BY SoundPlan, DraftedIs DEF ImportDrift
<1>2. /\ DOMAIN D \subseteq 1..drafted /\ drafted \in Nat
      /\ \A p \in DOMAIN D : D[p] \in Proposal
  BY SoundPlan, OrderlyPlan DEF Sound, Orderly, IInv
<1>3. new.built = plan.built /\ new.diffs = e
  OBVIOUS
<1>4. Commit(plan.built, e)
  BY DEF ImportDrift
<1> HIDE DEF d
<1>5. /\ DOMAIN e = DOMAIN D \cup {n} /\ e[n] = d /\ n \notin DOMAIN D
      /\ \A p \in DOMAIN D :
           /\ D[p].status = "open" => e[p] = [D[p] EXCEPT !.status = "rejected"]
           /\ D[p].status # "open" => e[p] = D[p]
  BY <1>2 DEF Superseding
<1> HIDE DEF D, e, n
<1>6. ASSUME NEW p \in DOMAIN D
      PROVE  /\ e[p] \in Proposal /\ e[p].status # "open"
             /\ e[p].status = "accepted" => D[p].status = "accepted"
  <2>1. CASE D[p].status = "open"
    <3>1. e[p] = [D[p] EXCEPT !.status = "rejected"] /\ D[p] \in Proposal
      BY <1>2, <1>5, <2>1
    <3>2. QED
      BY <3>1 DEF Proposal
  <2>2. CASE D[p].status # "open"
    BY <1>2, <1>5, <2>2
  <2>3. QED
    BY <2>1, <2>2
<1> HIDE DEF new
<1>7. Sound(new)
  <2>1. \A p \in DOMAIN e : e[p] \in Proposal
    BY <1>1, <1>5, <1>6
  <2>2. \A p \in Open(new) : e[p] = d
    BY <1>3, <1>5, <1>6 DEF Open
  <2>3. QED
    BY <1>1, <1>3, <2>1, <2>2 DEF Sound
<1>8. Follows(plan, new)
  BY <1>3, <1>5, <1>6, QuietFollows DEF D
<1>9. QED
  BY <1>4, <1>7, <1>8, CommitSound DEF new

(* A toggled or decided item is about the same thing as before.            *)
LEMMA ItemsKept ==
  ASSUME NEW items, NEW b, Acceptable(items, b), NEW i \in DOMAIN items,
         NEW item \in Item, item.op = items[i].op
  PROVE  /\ Acceptable([items EXCEPT ![i] = item], b)
         /\ Ops([items EXCEPT ![i] = item]) = Ops(items)
<1> DEFINE new == [items EXCEPT ![i] = item]
<1>0. /\ items \in Seq(Item) /\ Pairwise(items, ClearPairs)
      /\ \A x \in Range(items) : Fit(x.op, b)
  BY DEF Acceptable
<1>1. new \in Seq(Item) /\ DOMAIN new = DOMAIN items
  BY <1>0
<1>2. \A j \in DOMAIN items : new[j].op = items[j].op /\ new[j] \in Item /\ items[j] \in Item
  <2>1. \A j \in DOMAIN items : items[j] \in Item
    BY <1>0
  <2>2. \A j \in DOMAIN items : new[j] = IF j = i THEN item ELSE items[j]
    OBVIOUS
  <2> HIDE DEF new
  <2>3. QED
    BY <2>1, <2>2
<1> HIDE DEF new
<1>3. Pairwise(new, ClearPairs)
  <2>1. ASSUME NEW j \in DOMAIN items, NEW k \in DOMAIN items, j # k
        PROVE  <<new[j], new[k]>> \in ClearPairs
    <3>1. <<items[j], items[k]>> \in ClearPairs
      BY <1>0, <2>1 DEF Pairwise
    <3>2. ClearOps(items[j].op, items[k].op)
      BY <3>1 DEF ClearPairs
    <3>3. ClearOps(new[j].op, new[k].op)
      BY <1>2, <3>2
    <3>4. QED
      BY <1>2, <3>3, PairClear
  <2>2. QED
    BY <1>1, <2>1 DEF Pairwise
<1>4. \A x \in Range(new) : Fit(x.op, b)
  <2>1. ASSUME NEW x \in Range(new) PROVE \E y \in Range(items) : y.op = x.op
    BY <1>1, <1>2, <2>1 DEF Range
  <2>2. QED
    BY <1>0, <2>1
<1>5. \A o : o \in Ops(new) <=> o \in Ops(items)
  BY <1>1, <1>2 DEF Ops, Range
<1>6. Ops(new) = Ops(items)
  BY <1>5
<1>7. QED
  BY <1>1, <1>3, <1>4, <1>6 DEF Acceptable, new

(* Every item the review writes is about the same thing as before.         *)
SameReview ==
  \E p \in Open(plan), item \in Item : \E i \in DOMAIN plan.diffs[p].items :
    /\ item.op = plan.diffs[p].items[i].op
    /\ Reviewing(p, i, item)

(* Such a review writes a sound version. *)
LEMMA ReviewSound ==
  ASSUME IInv, SoundInv, SameReview
  PROVE  SoundInv'
<1>1. PICK p \in Open(plan), item \in Item : \E i \in DOMAIN plan.diffs[p].items :
        /\ item.op = plan.diffs[p].items[i].op
        /\ Reviewing(p, i, item)
  BY DEF SameReview
<1>2. PICK i \in DOMAIN plan.diffs[p].items :
        /\ item.op = plan.diffs[p].items[i].op
        /\ Reviewing(p, i, item)
  BY <1>1
<1> DEFINE D   == plan.diffs
           d   == D[p]
           its == [d.items EXCEPT ![i] = item]
           d2  == [d EXCEPT !.items = its]
           e   == [D EXCEPT ![p].items[i] = item]
           new == [built |-> plan.built, diffs |-> e]
<1>3. /\ p \in DOMAIN D /\ d \in Proposal /\ d.status = "open"
      /\ Pending(d, plan.built) /\ Layer(plan.built) /\ AllApart(plan.built)
      /\ \A q \in DOMAIN D : D[q] \in Proposal
      /\ \A q \in Open(plan) : Pending(D[q], plan.built)
  <2>1. Sound(plan) /\ p \in DOMAIN D /\ d.status = "open"
    BY SoundPlan DEF Open
  <2>2. QED
    BY <2>1 DEF Sound
<1>4. Acceptable(its, plan.built) /\ Ops(its) = Ops(d.items)
  <2>1. Acceptable(d.items, plan.built)
    BY <1>3 DEF Pending
  <2>2. QED
    BY <1>2, <2>1, ItemsKept
<1>5. Commit(plan.built, e)
  BY <1>2 DEF Reviewing
<1>6. new.built = plan.built /\ new.diffs = e
  OBVIOUS
<1>7. /\ DOMAIN e = DOMAIN D /\ e[p] = d2
      /\ \A q \in DOMAIN D : q # p => e[q] = D[q]
  BY <1>3
<1>8. d2.items = its /\ d2.status = d.status /\ d2.save = d.save /\ d2.mixed = d.mixed
      /\ d2 \in Proposal
  <2>1. its \in Seq(Item)
    BY <1>4 DEF Acceptable
  <2> HIDE DEF its, d
  <2>2. QED
    BY <1>3, <2>1 DEF Proposal
<1> HIDE DEF d2, e, its, d
<1>9. Pending(d2, plan.built)
  <2>1. Fresh(d2, plan.built)
    BY <1>3, <1>4, <1>8 DEF Fresh, Pending
  <2>2. QED
    BY <1>3, <1>4, <1>8, <2>1 DEF Pending
<1> HIDE DEF new
<1>10. \A q \in DOMAIN D : e[q].status = D[q].status /\ e[q] \in Proposal
  BY <1>3, <1>7, <1>8 DEF d
<1>11. Open(new) = Open(plan)
  BY <1>6, <1>7, <1>10 DEF Open
<1>12. Sound(new)
  BY <1>3, <1>6, <1>7, <1>9, <1>10, <1>11 DEF Sound, Open
<1>13. Follows(plan, new)
  BY <1>6, <1>7, <1>10, QuietFollows
<1>14. QED
  BY <1>5, <1>12, <1>13, CommitSound DEF new

(* One proposal decided, the others as they were. *)
LEMMA DecidedIs ==
  ASSUME NEW D, NEW p \in DOMAIN D, \A q \in DOMAIN D : D[q] \in Proposal,
         NEW s \in {"accepted", "rejected"}
  PROVE  LET e == [D EXCEPT ![p].status = s]
         IN  /\ DOMAIN e = DOMAIN D
             /\ e[p].status = s
             /\ \A q \in DOMAIN D : e[q] \in Proposal /\ (q # p => e[q] = D[q])
<1> DEFINE e == [D EXCEPT ![p].status = s]
           d2 == [D[p] EXCEPT !.status = s]
<1>1. /\ DOMAIN e = DOMAIN D /\ e[p] = d2
      /\ \A q \in DOMAIN D : q # p => e[q] = D[q]
  OBVIOUS
<1>2. d2 \in Proposal /\ d2.status = s
  BY DEF Proposal
<1> HIDE DEF e, d2
<1>3. QED
  BY <1>1, <1>2 DEF e

(* Rejecting writes a sound version. *)
LEMMA RejectSound ==
  ASSUME IInv, SoundInv, NEW p, RejectProposal(p)
  PROVE  SoundInv'
<1> DEFINE D   == plan.diffs
           e   == [D EXCEPT ![p].status = "rejected"]
           new == [built |-> plan.built, diffs |-> e]
<1>1. /\ p \in DOMAIN D /\ Layer(plan.built) /\ AllApart(plan.built)
      /\ \A q \in DOMAIN D : D[q] \in Proposal
      /\ \A q \in Open(plan) : Pending(D[q], plan.built)
  BY SoundPlan DEF RejectProposal, Open, Sound
<1>2. /\ DOMAIN e = DOMAIN D /\ e[p].status = "rejected"
      /\ \A q \in DOMAIN D : e[q] \in Proposal /\ (q # p => e[q] = D[q])
  BY <1>1, DecidedIs
<1>3. Commit(plan.built, e)
  BY DEF RejectProposal
<1>4. new.built = plan.built /\ new.diffs = e
  OBVIOUS
<1> HIDE DEF e, new
<1>5. \A q \in Open(new) : q \in Open(plan) /\ e[q] = D[q]
  BY <1>2, <1>4 DEF Open
<1>6. Sound(new)
  BY <1>1, <1>2, <1>4, <1>5 DEF Sound
<1>7. Follows(plan, new)
  BY <1>2, <1>4, QuietFollows
<1>8. QED
  BY <1>3, <1>6, <1>7, CommitSound DEF new

(* Accepting writes a sound version, in which no proposal is open. *)
LEMMA AcceptSound ==
  ASSUME IInv, SoundInv, NEW p, AcceptProposal(p)
  PROVE  SoundInv'
<1> DEFINE D   == plan.diffs
           b   == ApplyIncluded(plan.built, D[p])
           e   == [D EXCEPT ![p].status = "accepted"]
           new == [built |-> b, diffs |-> e]
<1>1. /\ p \in DOMAIN D /\ p \in Open(plan) /\ Layer(plan.built) /\ AllApart(plan.built)
      /\ \A q \in DOMAIN D : D[q] \in Proposal
      /\ Pending(D[p], plan.built)
  BY SoundPlan DEF AcceptProposal, Open, Sound
<1>2. /\ DOMAIN e = DOMAIN D /\ e[p].status = "accepted"
      /\ \A q \in DOMAIN D : e[q] \in Proposal /\ (q # p => e[q] = D[q])
  BY <1>1, DecidedIs
<1>3. Commit(b, e)
  BY DEF AcceptProposal
<1>4. new.built = b /\ new.diffs = e
  OBVIOUS
<1>5. /\ Layer(b) /\ AllApart(b)
      /\ EditsKept(plan.built, b, D[p]) /\ RestLeft(plan.built, b, D[p])
  BY <1>1, AcceptKeepsEdits, AcceptApart, SoundLeaves DEF Pending
<1> HIDE DEF e, b, new
<1>6. \A q \in Open(plan) : q = p
  BY <1>1, OrderlyPlan DEF Orderly, Open
<1>7. Open(new) = {}
  BY <1>2, <1>4, <1>6 DEF Open
<1>8. Sound(new)
  BY <1>2, <1>4, <1>5, <1>7 DEF Sound
<1>9. Follows(plan, new)
  <2>1. ASSUME NEW q \in DOMAIN D, q \notin Open(plan)
        PROVE  q \notin Open(new)
    BY <1>7
  <2>2. ASSUME NEW q \in DOMAIN D, q \in Open(plan)
        PROVE  EditsKept(plan.built, new.built, D[q]) /\ RestLeft(plan.built, new.built, D[q])
    BY <1>4, <1>5, <1>6, <2>2
  <2>3. QED
    BY <1>2, <1>4, <2>1, <2>2 DEF Follows
<1>10. QED
  BY <1>3, <1>8, <1>9, CommitSound DEF new, b, e

(* Edits of a built factory that leave the baseline alone.                 *)
BaseEdit ==
  \E s \in DOMAIN plan.built, gs \in Seq(Group) :
    /\ Base(gs) = Base(plan.built[s])
    /\ Apart(plan.built[s]) => Apart(gs)
    /\ EditGroups(s, gs)

(* Such an edit writes a sound version: open diffs stay what they were. *)
LEMMA EditSound ==
  ASSUME IInv, SoundInv, BaseEdit
  PROVE  SoundInv'
<1>1. PICK s \in DOMAIN plan.built, gs \in Seq(Group) :
        /\ Base(gs) = Base(plan.built[s])
        /\ Apart(plan.built[s]) => Apart(gs)
        /\ EditGroups(s, gs)
  BY DEF BaseEdit
<1> DEFINE B   == plan.built
           b   == [B EXCEPT ![s] = gs]
           new == [built |-> b, diffs |-> plan.diffs]
<1>2. /\ Layer(B)
      /\ AllApart(B)
      /\ \A q \in DOMAIN plan.diffs : plan.diffs[q] \in Proposal
      /\ \A q \in Open(plan) : Pending(plan.diffs[q], B)
  BY SoundPlan DEF Sound
<1>3. DOMAIN b = DOMAIN B /\ b[s] = gs /\ \A t \in DOMAIN B : t # s => b[t] = B[t]
  BY <1>1
<1>4. Commit(b, plan.diffs)
  BY <1>1 DEF EditGroups
<1>5. new.built = b /\ new.diffs = plan.diffs
  OBVIOUS
<1> HIDE DEF B, b, new
<1>6. Layer(b)
  BY <1>1, <1>2, <1>3 DEF Layer
<1>7. \A t \in DOMAIN B : Base(b[t]) = Base(B[t])
  BY <1>1, <1>3 DEF B
<1>8. ASSUME NEW d, Pending(d, B) PROVE Pending(d, b)
  <2>1. Acceptable(d.items, b)
    <3>1. ASSUME NEW op, Fit(op, B) PROVE Fit(op, b)
      <4>1. ASSUME op.site \in DOMAIN B, Aimed(op, B[op.site]) PROVE Aimed(op, b[op.site])
        BY <1>2, <1>3, <1>6, <1>7, <4>1, AimedAlike DEF Layer
      <4>2. QED
        BY <1>3, <3>1, <4>1 DEF Fit
    <3>2. QED
      BY <1>8, <3>1 DEF Pending, Acceptable
  <2>2. \A c : SameBase(B, c) => SameBase(b, c)
    BY <1>3, <1>7 DEF SameBase
  <2>3. Fresh(d, b)
    BY <1>8, <2>2 DEF Pending, Fresh
  <2>4. QED
    BY <1>3, <1>8, <2>1, <2>3 DEF Pending
<1>9. Open(new) = Open(plan)
  BY <1>5 DEF Open
<1>a. AllApart(b)
  BY <1>1, <1>2, <1>3 DEF B, AllApart
<1>10. Sound(new)
  BY <1>2, <1>5, <1>6, <1>8, <1>9, <1>a DEF Sound
<1>11. Follows(plan, new)
  BY <1>5, QuietFollows
<1>12. QED
  BY <1>4, <1>10, <1>11, CommitSound DEF new

(* What the user sets on a group. *)
LEMMA CountSetIs ==
  ASSUME NEW g \in Group, NEW n \in EditCounts
  PROVE  CountSet(g, n) \in Group /\ Tuned(g, CountSet(g, n))
<1>1. n \in Nat /\ Unedited \in Nat
  BY DriftAssumption DEF Unedited
<1> DEFINE h == CountSet(g, n)
<1>2. CASE g.planned
  <2>1. h = [g EXCEPT !.count = n]
    BY <1>2 DEF CountSet
  <2>2. QED
    BY <1>1, <1>2, <2>1 DEF Group, Tuned, Key
<1>3. CASE ~g.planned
  <2> DEFINE m == IF n = g.count THEN Unedited ELSE n
  <2>1. h = [g EXCEPT !.mineCount = m]
    BY <1>3 DEF CountSet
  <2>2. m \in Nat
    BY <1>1
  <2> HIDE DEF m
  <2>3. QED
    BY <1>1, <1>3, <2>1, <2>2 DEF Group, Tuned, Key
<1>4. QED
  BY <1>2, <1>3

(* So does the clock. *)
LEMMA ClockSetIs ==
  ASSUME NEW g \in Group, NEW c \in EditClocks
  PROVE  ClockSet(g, c) \in Group /\ Tuned(g, ClockSet(g, c))
<1>1. c \in MinClock..MaxClock /\ c \in Nat /\ Unedited \in Nat
  BY DriftAssumption DEF Unedited, MinClock, MaxClock
<1> DEFINE h == ClockSet(g, c)
<1>2. CASE g.planned
  <2>1. h = [g EXCEPT !.clock = c]
    BY <1>2 DEF ClockSet
  <2>2. QED
    BY <1>1, <1>2, <2>1 DEF Group, Tuned, Key
<1>3. CASE ~g.planned
  <2> DEFINE m == IF c = g.clock THEN Unedited ELSE c
  <2>1. h = [g EXCEPT !.mineClock = m]
    BY <1>3 DEF ClockSet
  <2>2. m \in Nat
    BY <1>1
  <2> HIDE DEF m
  <2>3. QED
    BY <1>1, <1>3, <2>1, <2>2 DEF Group, Tuned, Key
<1>4. QED
  BY <1>2, <1>3

(* A group edited in place. *)
LEMMA TunedEdit ==
  ASSUME NEW s \in DOMAIN plan.built, Layer(plan.built), NEW i \in DOMAIN plan.built[s],
         NEW h \in Group, Tuned(plan.built[s][i], h),
         EditGroups(s, [plan.built[s] EXCEPT ![i] = h])
  PROVE  BaseEdit
<1>1. plan.built[s] \in Seq(Group)
  BY DEF Layer
<1>2. [plan.built[s] EXCEPT ![i] = h] \in Seq(Group)
  BY <1>1
<1>3. Base([plan.built[s] EXCEPT ![i] = h]) = Base(plan.built[s])
  BY <1>1, BaseOfEdit
<1>4. Apart(plan.built[s]) => Apart([plan.built[s] EXCEPT ![i] = h])
  BY RekeyedApart DEF Tuned
<1>5. QED
  BY <1>2, <1>3, <1>4 DEF BaseEdit

(* The user's edits are of that kind. *)
LEMMA EditsAre ==
  ASSUME Layer(plan.built), NEW s \in DOMAIN plan.built,
         \/ \E i \in DOMAIN plan.built[s] :
              \/ \E n \in EditCounts : SetGroupCount(s, i, n)
              \/ \E c \in EditClocks : SetGroupClock(s, i, c)
              \/ DeleteGroup(s, i)
         \/ \E m \in Machine, r \in Recipe, n \in EditCounts : AddGroup(s, m, r, n)
  PROVE  BaseEdit
<1> DEFINE gs == plan.built[s]
<1>1. gs \in Seq(Group) /\ \A i \in DOMAIN gs : gs[i] \in Group
  BY Places DEF Layer
<1>2. ASSUME NEW i \in DOMAIN gs, NEW n \in EditCounts, SetGroupCount(s, i, n)
      PROVE  BaseEdit
  <2>1. EditGroups(s, [gs EXCEPT ![i] = CountSet(gs[i], n)])
    BY <1>2 DEF SetGroupCount
  <2>2. CountSet(gs[i], n) \in Group /\ Tuned(gs[i], CountSet(gs[i], n))
    BY <1>1, CountSetIs
  <2>3. QED
    BY <2>1, <2>2, TunedEdit
<1>3. ASSUME NEW i \in DOMAIN gs, NEW c \in EditClocks, SetGroupClock(s, i, c)
      PROVE  BaseEdit
  <2>1. EditGroups(s, [gs EXCEPT ![i] = ClockSet(gs[i], c)])
    BY <1>3 DEF SetGroupClock
  <2>2. ClockSet(gs[i], c) \in Group /\ Tuned(gs[i], ClockSet(gs[i], c))
    BY <1>1, ClockSetIs
  <2>3. QED
    BY <2>1, <2>2, TunedEdit
<1>4. ASSUME NEW i \in DOMAIN gs, DeleteGroup(s, i)
      PROVE  BaseEdit
  <2>1. gs[i].planned /\ EditGroups(s, RemoveAt(gs, i))
    BY <1>4 DEF DeleteGroup
  <2>2. RemoveAt(gs, i) \in Seq(Group)
    BY <1>1, RemovedAt
  <2>3. Base(RemoveAt(gs, i)) = Base(gs)
    BY <1>1, <2>1, BaseOfRemove
  <2>4. Apart(gs) => Apart(RemoveAt(gs, i))
    BY <1>1, RemovedApart
  <2>5. QED
    BY <2>1, <2>2, <2>3, <2>4 DEF BaseEdit
<1>5. ASSUME NEW m \in Machine, NEW r \in Recipe, NEW n \in EditCounts, AddGroup(s, m, r, n)
      PROVE  BaseEdit
  <2> DEFINE sg  == [machine |-> m, recipe |-> r, count |-> n, clock |-> 100]
             bg  == BuiltGroup(sg, NextId(gs))
             new == [bg EXCEPT !.planned = TRUE]
  <2>1. EditGroups(s, Append(gs, new))
    BY <1>5 DEF AddGroup
  <2>2. bg \in Group
    <3>1. sg.machine = m /\ sg.recipe = r /\ sg.count = n /\ sg.clock = 100
      OBVIOUS
    <3> HIDE DEF sg
    <3>2. n \in Nat /\ NextId(gs) \in Nat /\ 100 \in Nat
      BY <1>1, NextIdIs, DriftAssumption
    <3>3. QED
      BY <3>1, <3>2, BuiltGroupIs
  <2> HIDE DEF bg
  <2>3. new \in Group /\ new.planned
    BY <2>2 DEF Group
  <2> HIDE DEF new
  <2>4. Append(gs, new) \in Seq(Group) /\ Base(Append(gs, new)) = Base(gs)
    BY <1>1, <2>3, BaseOfAppend
  <2>5. Apart(gs) => Apart(Append(gs, new))
    BY <1>1, <2>3, AppendedApart
  <2>6. QED
    BY <2>1, <2>4, <2>5 DEF BaseEdit
<1>6. QED
  BY <1>2, <1>3, <1>4, <1>5

(* So are the review's.                                                    *)
LEMMA ReviewsAre ==
  ASSUME Sound(plan), NEW p \in Open(plan), NEW i \in DOMAIN plan.diffs[p].items,
         \/ ToggleProposalItem(p, i)
         \/ \E side \in Sides : SetProposalItemChoice(p, i, side)
  PROVE  SameReview
<1> DEFINE it == plan.diffs[p].items[i]
<1>1. it \in Item
  <2>1. plan.diffs[p].items \in Seq(Item)
    BY DEF Sound, Pending, Acceptable
  <2>2. QED
    BY <2>1
<1>2. CASE ToggleProposalItem(p, i)
  <2> DEFINE new == [it EXCEPT !.included = ~@]
  <2>1. Reviewing(p, i, new)
    BY <1>2 DEF ToggleProposalItem
  <2> HIDE DEF it
  <2>2. new \in Item /\ new.op = it.op
    BY <1>1 DEF Item
  <2> HIDE DEF new
  <2>3. QED
    BY <2>1, <2>2 DEF SameReview, it
<1>3. ASSUME NEW side \in Sides, SetProposalItemChoice(p, i, side)
      PROVE  SameReview
  <2> DEFINE new == [it EXCEPT !.side = side]
  <2>1. Reviewing(p, i, new)
    BY <1>3 DEF SetProposalItemChoice
  <2> HIDE DEF it
  <2>2. new \in Item /\ new.op = it.op
    BY <1>1 DEF Item
  <2> HIDE DEF new
  <2>3. QED
    BY <2>1, <2>2 DEF SameReview, it
<1>4. QED
  BY <1>2, <1>3

(* Every step keeps the versions sound and following one another. *)
LEMMA SoundNext ==
  ASSUME IInv, SoundInv, [Next]_vars
  PROVE  SoundInv'
<1>0. Sound(plan) /\ Layer(plan.built)
  BY SoundPlan
<1>1. ASSUME hist' = hist PROVE SoundInv'
  BY <1>1 DEF SoundInv
<1>2. ASSUME NEW save \in Saves, ImportFirst(save) \/ ImportDrift(save) \/ ImportInSync(save)
      PROVE  SoundInv'
  BY <1>1, <1>2, FirstSound, DraftSound DEF ImportInSync
<1>3. ASSUME NEW p \in Open(plan), AcceptProposal(p) \/ RejectProposal(p)
      PROVE  SoundInv'
  BY <1>3, AcceptSound, RejectSound
<1>4. ASSUME NEW p \in Open(plan), NEW i \in DOMAIN plan.diffs[p].items,
             \/ ToggleProposalItem(p, i)
             \/ \E side \in Sides : SetProposalItemChoice(p, i, side)
      PROVE  SoundInv'
  BY <1>0, <1>4, ReviewsAre, ReviewSound
<1>5. ASSUME NEW s \in DOMAIN plan.built,
             \/ \E i \in DOMAIN plan.built[s] :
                  \/ \E n \in EditCounts : SetGroupCount(s, i, n)
                  \/ \E c \in EditClocks : SetGroupClock(s, i, c)
                  \/ DeleteGroup(s, i)
             \/ \E m \in Machine, r \in Recipe, n \in EditCounts : AddGroup(s, m, r, n)
      PROVE  SoundInv'
  BY <1>0, <1>5, EditsAre, EditSound
<1>6. CASE Undo \/ Redo \/ UNCHANGED vars
  BY <1>1, <1>6 DEF Undo, Redo, vars
<1>7. QED
  BY <1>2, <1>3, <1>4, <1>5, <1>6 DEF Next

(* The empty plan is sound. *)
LEMMA SoundInit == Init => SoundInv
<1> SUFFICES ASSUME Init PROVE SoundInv
  OBVIOUS
<1>1. DOMAIN hist = {1} /\ hist[1] = EmptyPlan
  BY DEF Init
<1>2. DOMAIN EmptyPlan.built = {} /\ DOMAIN EmptyPlan.diffs = {}
  BY DEF EmptyPlan
<1>3. Sound(EmptyPlan)
  BY <1>2 DEF Sound, Layer, AllApart, Open
<1>4. QED
  BY <1>1, <1>3 DEF SoundInv

(* Every version in the journal is sound and follows the one before. *)
THEOREM AlwaysSound == Spec => []SoundInv
<1>1. IInv /\ SoundInv /\ [Next]_vars => SoundInv'
  BY SoundNext
<1>2. QED
  BY <1>1, SoundInit, DiffsInOrder, PTL DEF Spec

(* OpenDiffStillFits *)
THEOREM AlwaysFits == Spec => []OpenDiffStillFits
<1>1. IInv /\ SoundInv => OpenDiffStillFits
  <2> SUFFICES ASSUME IInv, SoundInv, NEW p \in Open(plan),
                      ~plan.diffs[p].mixed, ~Mixed(plan.built)
               PROVE  Ops(Diff(plan.built, plan.diffs[p].save)) = Ops(plan.diffs[p].items)
    BY DEF OpenDiffStillFits
  <2>1. plan.diffs[p] \in Proposal /\ Fresh(plan.diffs[p], plan.built) /\ Layer(plan.built)
    BY SoundPlan DEF Sound, Open, Pending
  <2>2. QED
    BY <2>1, FreshFits
<1>2. QED
  BY <1>1, AlwaysSound, DiffsInOrder, PTL

(* Every step moves by at most one version. *)
LEMMA ByOne ==
  ASSUME Next
  PROVE  pos' \in {pos - 1, pos, pos + 1}
<1>1. ASSUME NEW b, NEW e, Commit(b, e) PROVE pos' = pos + 1
  BY <1>1 DEF Commit
<1>2. CASE Import
  BY <1>1, <1>2 DEF Import, ImportFirst, ImportDrift, ImportInSync
<1>3. CASE Review \/ Reject \/ Accept \/ Edit
  BY <1>1, <1>3 DEF Review, Reviewing, Reject, RejectProposal, Accept, AcceptProposal, Edit, EditGroups
<1>4. CASE Undo \/ Redo
  BY <1>4 DEF Undo, Redo
<1>5. QED
  BY <1>2, <1>3, <1>4, NextKinds

(* Any step that takes a diff to accepted, redo included, keeps the edits  *)
(* and leaves the rest.                                                    *)
LEMMA AcceptsKeep ==
  ASSUME IInv, IInv', SoundInv, Next, NEW p, Accepts(p)
  PROVE  /\ EditsKept(plan.built, plan'.built, plan.diffs[p])
         /\ RestLeft(plan.built, plan'.built, plan.diffs[p])
<1>0. /\ p \in DOMAIN plan.diffs /\ p \in Open(plan) /\ p \in DOMAIN plan'.diffs
      /\ plan'.diffs[p].status = "accepted"
  BY DEF Accepts, Open
<1>1. CASE hist' # hist
  <2>1. AcceptProposal(p)
    BY <1>1, OnlyAcceptAccepts
  <2>2. plan'.built = ApplyIncluded(plan.built, plan.diffs[p])
    BY <2>1, CommitIs DEF AcceptProposal, IInv
  <2>3. /\ Layer(plan.built) /\ AllApart(plan.built) /\ plan.diffs[p] \in Proposal
        /\ Pending(plan.diffs[p], plan.built)
    BY <1>0, SoundPlan DEF Sound
  <2>4. Acceptable(plan.diffs[p].items, plan.built)
    BY <2>3 DEF Pending
  <2>5. QED
    BY <2>2, <2>3, <2>4, AcceptKeepsEdits, SoundLeaves
<1>2. CASE hist' = hist
  <2>1. pos \in Nat
    <3>1. PICK S : hist \in Seq(S)
      BY DEF IInv, HistType
    <3>2. QED
      BY <3>1 DEF IInv, HistType
  <2>2. plan' = hist[pos'] /\ plan = hist[pos] /\ pos' \in DOMAIN hist /\ pos \in DOMAIN hist
    BY <1>2 DEF plan, IInv, HistType
  <2>3. CASE pos' = pos
    BY <1>0, <2>2, <2>3 DEF Open
  <2>4. CASE pos' = pos + 1
    <3>1. Follows(plan, plan')
      BY <2>2, <2>4 DEF SoundInv
    <3>2. QED
      BY <1>0, <3>1 DEF Follows
  <2>5. CASE pos' = pos - 1
    <3>1. pos' + 1 = pos
      BY <2>1, <2>5
    <3>2. Follows(plan', plan)
      BY <2>2, <3>1 DEF SoundInv
    <3>3. p \notin Open(plan')
      BY <1>0 DEF Open
    <3>4. QED
      BY <1>0, <3>2, <3>3 DEF Follows
  <2>6. QED
    BY <2>3, <2>4, <2>5, ByOne
<1>3. QED
  BY <1>1, <1>2

(* EditsSurviveAccept *)
THEOREM EditsAlwaysSurvive == Spec => EditsSurviveAccept
<1> DEFINE Step == \A p \in 1..MaxDiffs :
                     Accepts(p) => EditsKept(plan.built, plan'.built, plan.diffs[p])
<1>1. IInv /\ IInv' /\ SoundInv /\ [Next]_vars => [Step]_vars
  BY AcceptsKeep
<1>2. Spec => [][Step]_vars
  BY <1>1, DiffsInOrder, AlwaysSound, PTL DEF Spec
<1>3. QED
  BY <1>2 DEF EditsSurviveAccept

(* AcceptLeavesTheRest *)
THEOREM AcceptAlwaysLeavesTheRest == Spec => AcceptLeavesTheRest
<1> DEFINE Step == \A p \in 1..MaxDiffs :
                     Accepts(p) => RestLeft(plan.built, plan'.built, plan.diffs[p])
<1>1. IInv /\ IInv' /\ SoundInv /\ [Next]_vars => [Step]_vars
  BY AcceptsKeep
<1>2. Spec => [][Step]_vars
  BY <1>1, DiffsInOrder, AlwaysSound, PTL DEF Spec
<1>3. QED
  BY <1>2 DEF AcceptLeavesTheRest

------------------------------------------------------------------------------
(* Types *)

(* The counters and the record of the last import keep their bounds. *)
Bounds ==
  /\ drafted \in 0..MaxDiffs
  /\ last \in {NoRecord, NoDiff} \cup 1..drafted
  /\ newest.diff \in {NoDiff} \cup 1..drafted
  /\ newest.save \in Save
  /\ lost \in 0..MaxLost

(* They hold before the first import. *)
LEMMA BoundsInit == Init => Bounds
<1> SUFFICES ASSUME Init PROVE Bounds
  OBVIOUS
<1>1. 0 \in 0..MaxDiffs /\ 0 \in 0..MaxLost
  BY DriftAssumption
<1>2. [s \in Site |-> <<>>] \in Save
  <2> DEFINE e == [s \in Site |-> <<>>]
  <2>1. <<>> \in Seq(SaveGroup) /\ DOMAIN <<>> = {}
    OBVIOUS
  <2>2. e \in [Site -> Seq(SaveGroup)] /\ \A s \in Site : e[s] = <<>>
    BY <2>1
  <2> HIDE DEF e
  <2>3. \A s \in Site : DOMAIN e[s] = {}
    BY <2>1, <2>2
  <2>4. e \in Save
    BY <2>2, <2>3 DEF Save
  <2>5. QED
    BY <2>4 DEF e
<1>3. QED
  BY <1>1, <1>2 DEF Init, Bounds

(* Writing the record keeps them. *)
LEMMA WriteBounds ==
  ASSUME Bounds, NEW p \in {NoDiff} \cup 1..drafted', NEW save \in Saves, WriteLastImport(p, save),
         drafted' \in 0..MaxDiffs, drafted' \in {drafted, drafted + 1}
  PROVE  Bounds'
<1>1. newest'.diff = p /\ newest'.save = save /\ save \in Save
  BY DriftAssumption DEF WriteLastImport
<1>2. last' = p \/ last' = last
  BY DEF WriteLastImport
<1>3. last' \in {NoRecord, NoDiff} \cup 1..drafted'
  BY <1>2, DriftAssumption DEF Bounds
<1>4. lost' \in 0..MaxLost
  BY DriftAssumption DEF Bounds, WriteLastImport
<1>5. QED
  BY <1>1, <1>3, <1>4 DEF Bounds

(* So does every step. *)
LEMMA BoundsNext ==
  ASSUME IInv, Bounds, [Next]_vars
  PROVE  Bounds'
<1>1. ASSUME NEW save \in Saves, ImportFirst(save) PROVE Bounds'
  BY <1>1, WriteBounds DEF ImportFirst, Bounds
<1>2. ASSUME NEW save \in Saves, ImportDrift(save) PROVE Bounds'
  <2>1. drafted' = drafted + 1 /\ WriteLastImport(drafted + 1, save) /\ drafted < MaxDiffs
    BY <1>2 DEF ImportDrift
  <2>2. drafted' \in 0..MaxDiffs /\ drafted + 1 \in 1..drafted'
    BY <2>1, DriftAssumption DEF Bounds
  <2>3. QED
    BY <2>1, <2>2, WriteBounds
<1>3. ASSUME NEW save \in Saves, ImportInSync(save) PROVE Bounds'
  BY <1>3, WriteBounds DEF ImportInSync, Bounds
<1>4. ASSUME UNCHANGED <<drafted, last, newest, lost>> PROVE Bounds'
  BY <1>4 DEF Bounds
<1>5. CASE Review \/ Reject \/ Accept \/ Edit \/ Undo \/ Redo \/ UNCHANGED vars
  BY <1>4, <1>5 DEF Review, Reviewing, Reject, RejectProposal, Accept, AcceptProposal,
                    Edit, EditGroups, Undo, Redo, vars
<1>6. QED
  BY <1>1, <1>2, <1>3, <1>5, NextKinds DEF Import

(* The plan versions, proposals, counters and the last-import record keep  *)
(* their types.                                                            *)
THEOREM AlwaysTyped == Spec => []TypeOK
<1>1. IInv /\ Bounds /\ [Next]_vars => Bounds'
  BY BoundsNext
<1>2. Spec => []Bounds
  BY <1>1, BoundsInit, DiffsInOrder, PTL DEF Spec
<1>3. IInv /\ SoundInv /\ Bounds => TypeOK
  <2> SUFFICES ASSUME IInv, SoundInv, Bounds PROVE TypeOK
    OBVIOUS
  <2>1. ASSUME NEW v \in DOMAIN hist PROVE IsPlan(hist[v])
    <3>1. Sound(hist[v]) /\ Orderly(hist[v].diffs, drafted)
      BY DEF IInv, SoundInv
    <3>2. QED
      BY <3>1 DEF IsPlan, Sound, Layer, Orderly
  <2>2. pos \in DOMAIN hist
    BY DEF IInv, HistType
  <2>3. QED
    BY <2>1, <2>2 DEF TypeOK, Bounds
<1>4. QED
  BY <1>2, <1>3, AlwaysSound, DiffsInOrder, PTL
==============================================================================
