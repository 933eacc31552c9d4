------------------------------ MODULE Induction ------------------------------
(***************************************************************************)
(* Induction over the natural numbers and definition by recursion, stated  *)
(* with sets and functions where the library states them with operators:   *)
(* a property is the set of numbers that have it, the step of a recursion  *)
(* a function. The proof modules of the graph and of the rules rest on     *)
(* these lemmas.                                                           *)
(***************************************************************************)
EXTENDS Integers, SequencesExt, FiniteSetTheorems, WellFoundedInduction, TLAPS

(* A set of natural numbers that is not empty has a least one.             *)
LEMMA LeastNatural ==
  ASSUME NEW T, T \subseteq Nat, T # {}
  PROVE  \E x \in T : \A y \in T : x <= y
<1> DEFINE R == {p \in Nat \X Nat : p[1] < p[2]}
<1>1. IsWellFoundedOn(R, Nat)
  BY NatLessThanWellFounded, Zenon DEF OpToRel
<1>2. \A x, y \in Nat : <<x, y>> \in R <=> x < y
  OBVIOUS
<1> HIDE DEF R
<1>3. PICK x \in T : \A y \in T : ~ (<<y, x>> \in R)
  BY <1>1, WFMin
<1>4. \A y \in T : ~ (y < x)
  <2> TAKE y \in T
  <2>1. y \in Nat /\ x \in Nat
    OBVIOUS
  <2> QED BY <1>2, <1>3, <2>1, Zenon
<1>5. T \subseteq Int
  OBVIOUS
<1> QED BY <1>4, <1>5

(* Induction: what holds of zero and of every successor holds of all.      *)
LEMMA NatSetInduction ==
  ASSUME NEW S, 0 \in S, \A n \in Nat : n \in S => n + 1 \in S
  PROVE  Nat \subseteq S
<1> SUFFICES ASSUME Nat \ S # {} PROVE FALSE
  OBVIOUS
<1>1. PICK x \in Nat \ S : \A y \in Nat \ S : x <= y
  BY LeastNatural
<1>2. x # 0 /\ x - 1 \in Nat /\ x - 1 < x
  BY <1>1
<1>3. x - 1 \in S
  BY <1>1, <1>2
<1> QED BY <1>1, <1>2, <1>3

(* Some prefix of a sequence of iterates, up to n.                         *)
Iterates(g, n, base, step) ==
  /\ g[0] = base
  /\ \A i \in 0 .. n - 1 : g[i + 1] = step[<<i, g[i]>>]

(* Any two such prefixes agree as far as both go.                          *)
LEMMA IteratesAgree ==
  ASSUME NEW g, NEW h, NEW m \in Nat, NEW n \in Nat, NEW base, NEW step,
         Iterates(g, m, base, step), Iterates(h, n, base, step)
  PROVE  \A i \in Nat : i <= m /\ i <= n => g[i] = h[i]
<1> DEFINE S == {i \in Nat : i <= m /\ i <= n => g[i] = h[i]}
<1>1. 0 \in S
  BY DEF Iterates
<1>2. ASSUME NEW i \in Nat, i \in S PROVE i + 1 \in S
  <2> SUFFICES ASSUME i + 1 <= m, i + 1 <= n PROVE g[i + 1] = h[i + 1]
    OBVIOUS
  <2>1. i \in 0 .. m - 1 /\ i \in 0 .. n - 1 /\ g[i] = h[i]
    BY <1>2
  <2> QED BY <2>1 DEF Iterates
<1> HIDE DEF S
<1>3. Nat \subseteq S
  BY <1>1, <1>2, NatSetInduction
<1> QED BY <1>3 DEF S

(* Every n has its prefix.                                                 *)
LEMMA IteratesExist ==
  ASSUME NEW V, NEW base \in V, NEW step \in [Nat \X V -> V]
  PROVE  \A n \in Nat : \E g \in [0 .. n -> V] : Iterates(g, n, base, step)
<1> DEFINE S == {n \in Nat : \E g \in [0 .. n -> V] : Iterates(g, n, base, step)}
<1>1. 0 \in S
  <2> DEFINE g == [i \in 0 .. 0 |-> base]
  <2>1. g \in [0 .. 0 -> V] /\ Iterates(g, 0, base, step)
    BY DEF Iterates
  <2> QED BY <2>1
<1>2. ASSUME NEW n \in Nat, n \in S PROVE n + 1 \in S
  <2>1. PICK g \in [0 .. n -> V] : Iterates(g, n, base, step)
    BY <1>2
  <2> DEFINE h == [i \in 0 .. n + 1 |-> IF i = n + 1 THEN step[<<n, g[n]>>] ELSE g[i]]
  <2>2. h \in [0 .. n + 1 -> V]
    <3>1. g[n] \in V
      OBVIOUS
    <3>2. step[<<n, g[n]>>] \in V
      BY <3>1
    <3>3. \A i \in 0 .. n + 1 : i = n + 1 \/ i \in 0 .. n
      OBVIOUS
    <3> QED BY <3>2, <3>3
  <2>3. Iterates(h, n + 1, base, step)
    <3>1. h[0] = base
      BY <2>1 DEF Iterates
    <3>2. ASSUME NEW i \in 0 .. (n + 1) - 1 PROVE h[i + 1] = step[<<i, h[i]>>]
      <4>1. CASE i = n
        <5>1. h[n + 1] = step[<<n, g[n]>>] /\ h[n] = g[n]
          OBVIOUS
        <5> QED BY <4>1, <5>1
      <4>2. CASE i # n
        <5>1. i \in 0 .. n - 1 /\ i \in 0 .. n /\ i + 1 \in 0 .. n /\ i # n + 1 /\ i + 1 # n + 1
          BY <4>2
        <5>2. h[i] = g[i] /\ h[i + 1] = g[i + 1]
          BY <5>1
        <5> QED BY <2>1, <5>1, <5>2 DEF Iterates
      <4> QED BY <4>1, <4>2
    <3> QED BY <3>1, <3>2 DEF Iterates
  <2> QED BY <2>2, <2>3
<1> HIDE DEF S
<1>3. Nat \subseteq S
  BY <1>1, <1>2, NatSetInduction
<1> QED BY <1>3 DEF S

(* Recursion over the natural numbers.                                     *)
IsIteration(f, base, step) ==
  /\ f[0] = base
  /\ \A n \in Nat : f[n + 1] = step[<<n, f[n]>>]

LEMMA Iteration ==
  ASSUME NEW V, NEW base \in V, NEW step \in [Nat \X V -> V]
  PROVE  \E f \in [Nat -> V] : IsIteration(f, base, step)
<1> DEFINE prefix(n) == CHOOSE g \in [0 .. n -> V] : Iterates(g, n, base, step)
           f == [n \in Nat |-> prefix(n)[n]]
<1>1. \A n \in Nat : prefix(n) \in [0 .. n -> V] /\ Iterates(prefix(n), n, base, step)
  BY IteratesExist
<1> HIDE DEF prefix
<1>2. f \in [Nat -> V]
  <2>1. \A n \in Nat : n \in 0 .. n
    OBVIOUS
  <2> QED BY <1>1, <2>1
<1>3. f[0] = base
  BY <1>1 DEF Iterates
<1>4. ASSUME NEW n \in Nat PROVE f[n + 1] = step[<<n, f[n]>>]
  <2>1. prefix(n + 1)[n] = prefix(n)[n]
    BY <1>1, IteratesAgree
  <2>2. prefix(n + 1)[n + 1] = step[<<n, prefix(n + 1)[n]>>]
    <3>1. Iterates(prefix(n + 1), n + 1, base, step)
      BY <1>1
    <3>2. n \in 0 .. (n + 1) - 1
      OBVIOUS
    <3> QED BY <3>1, <3>2 DEF Iterates
  <2> QED BY <2>1, <2>2
<1> QED BY <1>2, <1>3, <1>4 DEF IsIteration

(* The recursive function that walks a sequence of n steps.                *)
IsFold(f, n, base, step) ==
  f = [i \in 0 .. n |-> IF i = 0 THEN base ELSE step[<<i, f[i - 1]>>]]

LEMMA FiniteIteration ==
  ASSUME NEW V, NEW base \in V, NEW n \in Nat, NEW step \in [(1 .. n) \X V -> V]
  PROVE  \E f \in [0 .. n -> V] : IsFold(f, n, base, step)
<1> DEFINE next == [p \in Nat \X V |-> IF p[1] + 1 \in 1 .. n
                                       THEN step[<<p[1] + 1, p[2]>>] ELSE base]
<1>1. next \in [Nat \X V -> V]
  OBVIOUS
<1>2. \A k \in Nat, v \in V : k + 1 \in 1 .. n => next[<<k, v>>] = step[<<k + 1, v>>]
  OBVIOUS
<1> HIDE DEF next
<1>3. PICK f \in [Nat -> V] : f[0] = base /\ \A k \in Nat : f[k + 1] = next[<<k, f[k]>>]
  <2>1. PICK f \in [Nat -> V] : IsIteration(f, base, next)
    BY <1>1, Iteration
  <2> QED BY <2>1 DEF IsIteration
<1> DEFINE g == [i \in 0 .. n |-> f[i]]
<1>4. g \in [0 .. n -> V]
  OBVIOUS
<1>5. ASSUME NEW i \in 0 .. n PROVE g[i] = IF i = 0 THEN base ELSE step[<<i, g[i - 1]>>]
  <2>1. CASE i = 0
    BY <1>3, <2>1
  <2>2. CASE i # 0
    <3>1. i - 1 \in Nat /\ (i - 1) + 1 = i /\ i \in 1 .. n /\ i - 1 \in 0 .. n
      BY <2>2
    <3>2. f[i] = next[<<i - 1, f[i - 1]>>]
      BY <1>3, <3>1
    <3>3. next[<<i - 1, f[i - 1]>>] = step[<<i, f[i - 1]>>]
      <4>1. f[i - 1] \in V
        BY <1>3, <3>1
      <4> QED BY <1>2, <3>1, <4>1
    <3>4. g[i] = f[i] /\ g[i - 1] = f[i - 1]
      BY <3>1
    <3> QED BY <2>2, <3>2, <3>3, <3>4
  <2> QED BY <2>1, <2>2
<1> HIDE DEF g
<1>6. g = [i \in 0 .. n |-> IF i = 0 THEN base ELSE step[<<i, g[i - 1]>>]]
  BY <1>4, <1>5
<1> QED BY <1>4, <1>6 DEF IsFold

(* Recursion along a rank that falls: the value at x depends only on the   *)
(* values at what ranks below x.                                           *)
LooksBelow(D, V, rank, step) ==
  \A x \in D : \A g, h \in [D -> V] :
    (\A y \in D : rank[y] < rank[x] => g[y] = h[y])
      => step[<<x, g>>] = step[<<x, h>>]

IsRecursion(f, D, step) == \A x \in D : f[x] = step[<<x, f>>]

LEMMA RankedRecursion ==
  ASSUME NEW D, NEW V, V # {}, NEW rank \in [D -> Nat],
         NEW step \in [D \X [D -> V] -> V], LooksBelow(D, V, rank, step)
  PROVE  \E f \in [D -> V] : IsRecursion(f, D, step)
<1>1. PICK v \in V : TRUE
  OBVIOUS
<1> DEFINE base == [x \in D |-> v]
           next == [p \in Nat \X [D -> V] |-> [x \in D |-> step[<<x, p[2]>>]]]
<1>2. base \in [D -> V]
  OBVIOUS
<1>3. next \in [Nat \X [D -> V] -> [D -> V]]
  <2>1. ASSUME NEW p \in Nat \X [D -> V]
        PROVE  [x \in D |-> step[<<x, p[2]>>]] \in [D -> V]
    <3>1. p[2] \in [D -> V]
      OBVIOUS
    <3> QED BY <3>1
  <2> QED BY <2>1
<1>4. \A n \in Nat, g \in [D -> V], x \in D : next[<<n, g>>][x] = step[<<x, g>>]
  OBVIOUS
<1> HIDE DEF base, next
<1>5. PICK F \in [Nat -> [D -> V]] :
        F[0] = base /\ \A n \in Nat : F[n + 1] = next[<<n, F[n]>>]
  <2>1. PICK F \in [Nat -> [D -> V]] : IsIteration(F, base, next)
    BY <1>2, <1>3, Iteration
  <2> QED BY <2>1 DEF IsIteration
<1>6. \A n \in Nat, x \in D : F[n + 1][x] = step[<<x, F[n]>>]
  <2> TAKE n \in Nat, x \in D
  <2>1. F[n] \in [D -> V]
    OBVIOUS
  <2>2. F[n + 1] = next[<<n, F[n]>>]
    BY <1>5
  <2>3. next[<<n, F[n]>>][x] = step[<<x, F[n]>>]
    BY <1>4, <2>1
  <2> QED BY <2>2, <2>3
(* From the n-th on, the iterates agree where the rank is below n.         *)
<1> DEFINE Settled == {n \in Nat : \A x \in D : rank[x] < n => F[n + 1][x] = F[n][x]}
<1>7. Nat \subseteq Settled
  <2>1. 0 \in Settled
    OBVIOUS
  <2>2. ASSUME NEW n \in Nat, n \in Settled PROVE n + 1 \in Settled
    <3> SUFFICES ASSUME NEW x \in D, rank[x] < n + 1
                 PROVE  F[(n + 1) + 1][x] = F[n + 1][x]
      OBVIOUS
    <3>1. \A y \in D : rank[y] < rank[x] => F[n + 1][y] = F[n][y]
      <4> SUFFICES ASSUME NEW y \in D, rank[y] < rank[x] PROVE F[n + 1][y] = F[n][y]
        OBVIOUS
      <4>1. rank[y] \in Nat /\ rank[x] \in Nat
        OBVIOUS
      <4>2. rank[y] < n
        BY <4>1
      <4> QED BY <2>2, <4>2
    <3>2. F[n] \in [D -> V] /\ F[n + 1] \in [D -> V] /\ n + 1 \in Nat
      OBVIOUS
    <3>3. step[<<x, F[n + 1]>>] = step[<<x, F[n]>>]
      BY <3>1, <3>2 DEF LooksBelow
    <3> QED BY <1>6, <3>2, <3>3
  <2> HIDE DEF Settled
  <2> QED BY <2>1, <2>2, NatSetInduction
<1>8. \A x \in D : \A n \in Nat : F[rank[x] + 1 + n][x] = F[rank[x] + 1][x]
  <2> TAKE x \in D
  <2> DEFINE S == {n \in Nat : F[rank[x] + 1 + n][x] = F[rank[x] + 1][x]}
  <2>1. 0 \in S
    OBVIOUS
  <2>2. ASSUME NEW n \in Nat, n \in S PROVE n + 1 \in S
    <3>1. rank[x] + 1 + n \in Nat /\ rank[x] < rank[x] + 1 + n
          /\ rank[x] + 1 + (n + 1) = (rank[x] + 1 + n) + 1
      OBVIOUS
    <3>2. rank[x] + 1 + n \in Settled
      BY <1>7, <3>1
    <3> QED BY <2>2, <3>1, <3>2
  <2> HIDE DEF S
  <2>3. Nat \subseteq S
    BY <2>1, <2>2, NatSetInduction
  <2> QED BY <2>3 DEF S
<1> HIDE DEF Settled
<1> DEFINE f == [x \in D |-> F[rank[x] + 1][x]]
<1>9. f \in [D -> V]
  <2>1. \A x \in D : F[rank[x] + 1] \in [D -> V]
    OBVIOUS
  <2> QED BY <2>1
<1>10. ASSUME NEW x \in D PROVE f[x] = step[<<x, f>>]
  <2>1. rank[x] \in Nat /\ F[rank[x]] \in [D -> V]
    OBVIOUS
  <2>2. f[x] = step[<<x, F[rank[x]]>>]
    BY <1>6, <2>1
  <2>3. ASSUME NEW y \in D, rank[y] < rank[x] PROVE F[rank[x]][y] = f[y]
    <3>1. rank[y] \in Nat /\ rank[x] - rank[y] - 1 \in Nat
          /\ rank[x] = rank[y] + 1 + (rank[x] - rank[y] - 1)
      BY <2>1, <2>3
    <3>2. F[rank[y] + 1 + (rank[x] - rank[y] - 1)][y] = F[rank[y] + 1][y]
      BY <1>8, <3>1
    <3> QED BY <3>1, <3>2
  <2> HIDE DEF f
  <2>4. step[<<x, F[rank[x]]>>] = step[<<x, f>>]
    BY <1>9, <2>1, <2>3 DEF LooksBelow
  <2> QED BY <2>2, <2>4
<1> HIDE DEF f
<1> QED BY <1>9, <1>10 DEF IsRecursion

(* Induction along a rank.                                                 *)
LEMMA RankedInduction ==
  ASSUME NEW D, NEW rank \in [D -> Nat], NEW S,
         \A x \in D : (\A y \in D : rank[y] < rank[x] => y \in S) => x \in S
  PROVE  D \subseteq S
<1> SUFFICES ASSUME D \ S # {} PROVE FALSE
  OBVIOUS
<1> DEFINE T == {rank[x] : x \in D \ S}
<1>1. T \subseteq Nat /\ T # {}
  OBVIOUS
<1>2. PICK n \in T : \A m \in T : n <= m
  BY <1>1, LeastNatural
<1>3. PICK x \in D \ S : n = rank[x]
  OBVIOUS
<1>4. ASSUME NEW y \in D, rank[y] < rank[x] PROVE y \in S
  <2> SUFFICES ASSUME y \notin S PROVE FALSE
    OBVIOUS
  <2>1. rank[y] \in T /\ rank[y] \in Int /\ rank[x] \in Int
    OBVIOUS
  <2>2. rank[x] <= rank[y]
    BY <1>2, <1>3, <2>1
  <2> HIDE DEF T
  <2> QED BY <1>4, <2>1, <2>2
<1> QED BY <1>4

-----------------------------------------------------------------------------
(* Folds of sequences.                                                     *)

(* A set of positions has a last one.                                      *)
LEMMA MaxOfNats ==
  ASSUME NEW n \in Nat, NEW S, S \subseteq 1 .. n, S # {}
  PROVE  Max(S) \in S /\ \A x \in S : x <= Max(S)
<1> DEFINE T == {n - x : x \in S}
<1>1. T \subseteq Nat /\ T # {}
  <2>1. \A x \in S : x \in Int /\ 1 <= x /\ x <= n
    OBVIOUS
  <2>2. \A x \in S : n - x \in Nat
    BY <2>1
  <2> QED BY <2>2
<1>2. PICK t \in T : \A y \in T : t <= y
  BY <1>1, LeastNatural
<1>3. PICK x \in S : t = n - x
  OBVIOUS
<1>4. \A y \in S : x >= y
  <2> TAKE y \in S
  <2>1. n - y \in T
    OBVIOUS
  <2>2. n - x <= n - y
    BY <1>2, <1>3, <2>1
  <2> QED BY <2>2
<1>5. Max(S) \in S /\ \A y \in S : Max(S) >= y
  BY <1>4, Zenon DEF Max
<1>6. S \subseteq Int
  OBVIOUS
<1> QED BY <1>5, <1>6

(* The function that the community modules fold with: over sets of         *)
(* positions, the last one first.                                          *)
IsSetFold(iter, n, base, step) ==
  iter = [s \in SUBSET (1 .. n) |->
            IF s = {} THEN base ELSE step[<<Max(s), iter[s \ {Max(s)}]>>]]

LEMMA SetFoldExists ==
  ASSUME NEW V, NEW base \in V, NEW n \in Nat, NEW step \in [(1 .. n) \X V -> V]
  PROVE  \E iter \in [SUBSET (1 .. n) -> V] : IsSetFold(iter, n, base, step)
<1> DEFINE D == SUBSET (1 .. n)
           rank == [s \in D |-> Cardinality(s)]
           body == [p \in D \X [D -> V] |->
                      IF p[1] = {} THEN base
                      ELSE step[<<Max(p[1]), p[2][p[1] \ {Max(p[1])}]>>]]
<1>0. \A s \in D : s # {} => /\ Max(s) \in s /\ Max(s) \in 1 .. n
                             /\ s \ {Max(s)} \in D
                             /\ \A x \in s : x <= Max(s)
  BY MaxOfNats
<1>fin. \A s \in D : IsFiniteSet(s)
  <2>1. IsFiniteSet(1 .. n)
    BY FS_Interval
  <2> QED BY <2>1, FS_Subset
<1>1. rank \in [D -> Nat]
  <2>1. \A s \in D : IsFiniteSet(s)
    BY <1>fin
  <2> QED BY <2>1, FS_CardinalityType
<1>2. \A s \in D : s # {} => rank[s \ {Max(s)}] < rank[s]
  <2> TAKE s \in D
  <2> SUFFICES ASSUME s # {} PROVE rank[s \ {Max(s)}] < rank[s]
    OBVIOUS
  <2>1. IsFiniteSet(s)
    BY <1>fin
  <2>2. Cardinality(s \ {Max(s)}) = Cardinality(s) - 1 /\ Cardinality(s) \in Nat
    BY <1>0, <2>1, FS_RemoveElement, FS_CardinalityType
  <2> QED BY <1>0, <2>2
<1> HIDE DEF rank
<1>3. body \in [D \X [D -> V] -> V]
  <2>1. ASSUME NEW p \in D \X [D -> V]
        PROVE  (IF p[1] = {} THEN base
                ELSE step[<<Max(p[1]), p[2][p[1] \ {Max(p[1])}]>>]) \in V
    <3>1. p[1] \in D /\ p[2] \in [D -> V]
      OBVIOUS
    <3>2. CASE p[1] # {}
      <4>1. Max(p[1]) \in 1 .. n /\ p[1] \ {Max(p[1])} \in D
        BY <1>0, <3>1, <3>2
      <4>2. p[2][p[1] \ {Max(p[1])}] \in V
        BY <3>1, <4>1
      <4> HIDE DEF D
      <4> QED BY <3>2, <4>1, <4>2
    <3> QED BY <3>2
  <2> QED BY <2>1, Zenon
<1>4. \A s \in D, g \in [D -> V] :
        body[<<s, g>>] = IF s = {} THEN base ELSE step[<<Max(s), g[s \ {Max(s)}]>>]
  <2> HIDE DEF D
  <2> QED OBVIOUS
<1> HIDE DEF body, D
<1>5. LooksBelow(D, V, rank, body)
  <2> SUFFICES ASSUME NEW s \in D, NEW g \in [D -> V], NEW h \in [D -> V],
                      \A y \in D : rank[y] < rank[s] => g[y] = h[y]
               PROVE  body[<<s, g>>] = body[<<s, h>>]
    BY DEF LooksBelow
  <2>1. s # {} => g[s \ {Max(s)}] = h[s \ {Max(s)}]
    BY <1>0, <1>2
  <2> QED BY <1>4, <2>1
<1>6. PICK iter \in [D -> V] : IsRecursion(iter, D, body)
  BY <1>1, <1>3, <1>5, RankedRecursion
<1>7. \A s \in D : iter[s] = IF s = {} THEN base ELSE step[<<Max(s), iter[s \ {Max(s)}]>>]
  BY <1>4, <1>6 DEF IsRecursion
<1>8. iter = [s \in D |-> IF s = {} THEN base ELSE step[<<Max(s), iter[s \ {Max(s)}]>>]]
  BY <1>7
<1> QED BY <1>8 DEF IsSetFold, D

(* The positions before the next are an initial segment.                   *)
LEMMA Segment ==
  ASSUME NEW n \in Nat, NEW i \in 1 .. n
  PROVE  /\ 1 .. i \in SUBSET (1 .. n) /\ 1 .. i # {}
         /\ Max(1 .. i) = i
         /\ (1 .. i) \ {i} = 1 .. i - 1
<1>1. 1 .. i \in SUBSET (1 .. n) /\ i \in 1 .. i
  <2>1. \A k \in 1 .. i : k \in 1 .. n
    OBVIOUS
  <2> QED BY <2>1
<1>2. Max(1 .. i) \in 1 .. i /\ i <= Max(1 .. i)
  BY <1>1, MaxOfNats
<1>3. (1 .. i) \ {i} = 1 .. i - 1
  OBVIOUS
<1> QED BY <1>1, <1>2, <1>3

(* On a prefix of the positions it is the fold from the left.              *)
LEMMA SetFoldIsFold ==
  ASSUME NEW n \in Nat, NEW base, NEW step, NEW iter, NEW f,
         IsSetFold(iter, n, base, step), IsFold(f, n, base, step)
  PROVE  iter[1 .. n] = f[n]
<1>7. \A s \in SUBSET (1 .. n) :
        iter[s] = IF s = {} THEN base ELSE step[<<Max(s), iter[s \ {Max(s)}]>>]
  BY DEF IsSetFold
<1>10. f[0] = base /\ \A i \in 0 .. n : i # 0 => f[i] = step[<<i, f[i - 1]>>]
  BY DEF IsFold
<1> DEFINE S == {i \in Nat : i <= n => iter[1 .. i] = f[i]}
<1>11. 0 \in S
  <2>1. 1 .. 0 = {}
    OBVIOUS
  <2> QED BY <2>1, <1>7, <1>10
<1>12. ASSUME NEW i \in Nat, i \in S PROVE i + 1 \in S
  <2> SUFFICES ASSUME i + 1 <= n PROVE iter[1 .. i + 1] = f[i + 1]
    OBVIOUS
  <2>1. 1 .. i + 1 \in SUBSET (1 .. n) /\ 1 .. i + 1 # {} /\ i + 1 \in 1 .. i + 1
    <3>1. \A k \in 1 .. i + 1 : k \in 1 .. n
      OBVIOUS
    <3>2. i + 1 \in 1 .. i + 1
      OBVIOUS
    <3> QED BY <3>1, <3>2
  <2>2. Max(1 .. i + 1) = i + 1
    <3>1. Max(1 .. i + 1) \in 1 .. i + 1 /\ i + 1 <= Max(1 .. i + 1)
      BY <2>1, MaxOfNats
    <3> QED BY <3>1
  <2>3. (1 .. i + 1) \ {i + 1} = 1 .. i
    OBVIOUS
  <2>4. iter[1 .. i + 1] = step[<<i + 1, iter[1 .. i]>>]
    BY <1>7, <2>1, <2>2, <2>3
  <2>5. i + 1 \in 0 .. n /\ i + 1 # 0 /\ (i + 1) - 1 = i
    OBVIOUS
  <2>6. f[i + 1] = step[<<i + 1, f[i]>>]
    BY <1>10, <2>5
  <2> QED BY <1>12, <2>4, <2>6
<1> HIDE DEF S
<1>13. Nat \subseteq S
  BY <1>11, <1>12, NatSetInduction
<1> QED BY <1>13 DEF S

(* Running sequences together loses and adds nothing.                      *)
LEMMA JoinKeepsAll ==
  ASSUME NEW E, NEW s \in Seq(E), NEW t \in Seq(E)
  PROVE  s \o t \in Seq(E) /\ ToSet(s \o t) = ToSet(s) \cup ToSet(t)
<1>1. DOMAIN (s \o t) = 1 .. Len(s) + Len(t) /\ DOMAIN s = 1 .. Len(s)
      /\ DOMAIN t = 1 .. Len(t) /\ Len(s) \in Nat /\ Len(t) \in Nat
  OBVIOUS
<1>2. \A i \in 1 .. Len(s) + Len(t) :
        (s \o t)[i] = IF i <= Len(s) THEN s[i] ELSE t[i - Len(s)]
  OBVIOUS
<1>3. \A i \in 1 .. Len(s) + Len(t) :
        (i <= Len(s) => i \in 1 .. Len(s)) /\ (i <= Len(s) \/ i - Len(s) \in 1 .. Len(t))
  BY <1>1
<1>4. ToSet(s \o t) \subseteq ToSet(s) \cup ToSet(t)
  BY <1>1, <1>2, <1>3 DEF ToSet
<1>5. ASSUME NEW i \in 1 .. Len(s) PROVE s[i] \in ToSet(s \o t)
  <2>1. i \in 1 .. Len(s) + Len(t) /\ (s \o t)[i] = s[i]
    BY <1>1, <1>2
  <2> QED BY <1>1, <2>1 DEF ToSet
<1>6. ASSUME NEW i \in 1 .. Len(t) PROVE t[i] \in ToSet(s \o t)
  <2>1. Len(s) + i \in 1 .. Len(s) + Len(t) /\ ~ (Len(s) + i <= Len(s))
        /\ (Len(s) + i) - Len(s) = i
    BY <1>1
  <2>2. (s \o t)[Len(s) + i] = t[i]
    BY <1>2, <2>1
  <2> QED BY <1>1, <2>1, <2>2 DEF ToSet
<1> QED BY <1>1, <1>4, <1>5, <1>6 DEF ToSet

(* Flattening runs the sequences together one by one.                      *)
RunsTogether(F, seqs) ==
  \A i \in 1 .. Len(seqs) : F[i] = IF i = 1 THEN seqs[i] ELSE F[i - 1] \o seqs[i]

LEMMA FlattenOfNone ==
  ASSUME NEW seqs, Len(seqs) = 0
  PROVE  FlattenSeq(seqs) = seqs
BY DEF FlattenSeq

LEMMA FlattenIsFold ==
  ASSUME NEW E, NEW seqs \in Seq(Seq(E)), Len(seqs) # 0
  PROVE  \E F : RunsTogether(F, seqs) /\ FlattenSeq(seqs) = F[Len(seqs)]
<1> DEFINE n == Len(seqs)
           step == [p \in (1 .. n) \X Seq(E) |->
                      IF p[1] = 1 THEN seqs[1] ELSE p[2] \o seqs[p[1]]]
           body(h) == [i \in 1 .. n |-> IF i = 1 THEN seqs[i] ELSE h[i - 1] \o seqs[i]]
           F == CHOOSE h : h = body(h)
<1>0. n \in Nat /\ DOMAIN seqs = 1 .. n /\ \A i \in 1 .. n : seqs[i] \in Seq(E)
  OBVIOUS
<1>1. step \in [(1 .. n) \X Seq(E) -> Seq(E)]
  <2>1. ASSUME NEW p \in (1 .. n) \X Seq(E)
        PROVE  (IF p[1] = 1 THEN seqs[1] ELSE p[2] \o seqs[p[1]]) \in Seq(E)
    <3>1. p[1] \in 1 .. n /\ p[2] \in Seq(E) /\ seqs[p[1]] \in Seq(E)
      BY <1>0
    <3> QED BY <3>1
  <2> QED BY <2>1, Zenon
<1>2. \A i \in 1 .. n, s \in Seq(E) :
        step[<<i, s>>] = IF i = 1 THEN seqs[1] ELSE s \o seqs[i]
  <2> HIDE DEF n
  <2> QED OBVIOUS
<1> HIDE DEF step, n
<1>3. PICK f \in [0 .. n -> Seq(E)] : IsFold(f, n, <<>>, step)
  <2>1. <<>> \in Seq(E)
    OBVIOUS
  <2> QED BY <1>0, <1>1, <2>1, FiniteIteration
<1>4. \A i \in 1 .. n : i - 1 \in 0 .. n /\ i \in 0 .. n /\ i # 0 /\ (i # 1 => i - 1 \in 1 .. n)
  BY <1>0
<1>5. \A i \in 1 .. n : f[i] = IF i = 1 THEN seqs[i] ELSE f[i - 1] \o seqs[i]
  <2>1. \A i \in 1 .. n : f[i] = step[<<i, f[i - 1]>>]
    BY <1>3, <1>4 DEF IsFold
  <2> QED BY <1>2, <1>4, <2>1
<1>6. F = body(F)
  <2> DEFINE g == [i \in 1 .. n |-> f[i]]
  <2>1. \A i \in 1 .. n : g[i] = IF i = 1 THEN seqs[i] ELSE g[i - 1] \o seqs[i]
    BY <1>4, <1>5
  <2>2. g = body(g)
    <3> HIDE DEF g
    <3>1. g = [i \in 1 .. n |-> g[i]]
      BY DEF g
    <3> QED BY <2>1, <3>1
  <2> HIDE DEF body, g
  <2> QED BY <2>2, Zenon
<1>7. FlattenSeq(seqs) = F[n]
  <2> HIDE DEF F
  <2>1. Len(seqs) # 0
    BY DEF n
  <2> QED BY <2>1, Zenon DEF FlattenSeq, F, n
<1>8. \A i \in 1 .. n : F[i] = IF i = 1 THEN seqs[i] ELSE F[i - 1] \o seqs[i]
  <2> HIDE DEF F
  <2> QED BY <1>6
<1> HIDE DEF F
<1> QED BY <1>7, <1>8 DEF RunsTogether, n

LEMMA FlattenKeepsAll ==
  ASSUME NEW E, NEW seqs \in Seq(Seq(E))
  PROVE  /\ FlattenSeq(seqs) \in Seq(E)
         /\ ToSet(FlattenSeq(seqs)) = UNION { ToSet(seqs[i]) : i \in DOMAIN seqs }
<1> DEFINE n == Len(seqs)
<1>1. n \in Nat /\ DOMAIN seqs = 1 .. n /\ \A i \in 1 .. n : seqs[i] \in Seq(E)
  OBVIOUS
<1>2. CASE n = 0
  <2>1. seqs = <<>>
    BY <1>2
  <2>2. FlattenSeq(seqs) = <<>>
    BY <1>2, <2>1, FlattenOfNone
  <2>3. ToSet(<<>>) = {} /\ DOMAIN seqs = {}
    BY <2>1 DEF ToSet
  <2> QED BY <2>2, <2>3
<1>3. CASE n # 0
  <2>1. PICK F : RunsTogether(F, seqs) /\ FlattenSeq(seqs) = F[n]
    BY <1>3, FlattenIsFold
  <2> HIDE DEF n
  <2>7. FlattenSeq(seqs) = F[n]
    BY <2>1
  <2>8. \A i \in 1 .. n : F[i] = IF i = 1 THEN seqs[i] ELSE F[i - 1] \o seqs[i]
    BY <2>1 DEF RunsTogether, n
  <2> DEFINE S == {k \in Nat : k + 1 <= n =>
                     /\ F[k + 1] \in Seq(E)
                     /\ ToSet(F[k + 1]) = UNION { ToSet(seqs[i]) : i \in 1 .. k + 1 }}
  <2>9. 0 \in S
    <3>1. 1 \in 1 .. n /\ F[1] = seqs[1]
      BY <1>1, <1>3, <2>8
    <3>2. 1 .. 1 = {1}
      OBVIOUS
    <3> QED BY <1>1, <3>1, <3>2
  <2>10. ASSUME NEW k \in Nat, k \in S PROVE k + 1 \in S
    <3>0. (k + 1) + 1 = k + 2
      OBVIOUS
    <3> SUFFICES ASSUME k + 2 <= n
                 PROVE  /\ F[k + 2] \in Seq(E)
                        /\ ToSet(F[k + 2]) = UNION { ToSet(seqs[i]) : i \in 1 .. k + 2 }
      BY <3>0
    <3>1. k + 2 \in 1 .. n /\ k + 2 # 1 /\ (k + 2) - 1 = k + 1
      BY <1>1
    <3>2. F[k + 2] = F[k + 1] \o seqs[k + 2]
      BY <2>8, <3>1
    <3>3. F[k + 1] \in Seq(E) /\ seqs[k + 2] \in Seq(E)
          /\ ToSet(F[k + 1]) = UNION { ToSet(seqs[i]) : i \in 1 .. k + 1 }
      BY <1>1, <2>10, <3>1
    <3>4. \A s, t \in Seq(E) : ToSet(s \o t) = ToSet(s) \cup ToSet(t)
      BY JoinKeepsAll
    <3>5. 1 .. k + 2 = (1 .. k + 1) \cup {k + 2}
      OBVIOUS
    <3>6. ToSet(F[k + 2]) = ToSet(F[k + 1]) \cup ToSet(seqs[k + 2])
      BY <3>2, <3>3, <3>4
    <3>7. F[k + 2] \in Seq(E)
      BY <3>2, <3>3
    <3> QED BY <3>3, <3>5, <3>6, <3>7
  <2> HIDE DEF S
  <2>11. Nat \subseteq S
    BY <2>9, <2>10, NatSetInduction
  <2>12. n - 1 \in S /\ (n - 1) + 1 = n
    BY <1>1, <1>3, <2>11
  <2>13. F[n] \in Seq(E) /\ ToSet(F[n]) = UNION { ToSet(seqs[i]) : i \in 1 .. n }
    BY <2>12 DEF S
  <2> QED BY <1>1, <2>7, <2>13
<1> QED BY <1>2, <1>3

(* Flattening what matches item by item gives what matches item by item.   *)
Match(s, t, R) == DOMAIN s = DOMAIN t /\ \A i \in DOMAIN s : <<s[i], t[i]>> \in R

LEMMA JoinMatches ==
  ASSUME NEW E, NEW G, NEW R, NEW a \in Seq(E), NEW b \in Seq(E),
         NEW c \in Seq(G), NEW d \in Seq(G), Match(a, c, R), Match(b, d, R)
  PROVE  Match(a \o b, c \o d, R)
<1>1. DOMAIN (a \o b) = 1 .. Len(a) + Len(b) /\ DOMAIN (c \o d) = 1 .. Len(c) + Len(d)
      /\ DOMAIN a = 1 .. Len(a) /\ DOMAIN b = 1 .. Len(b)
      /\ DOMAIN c = 1 .. Len(c) /\ DOMAIN d = 1 .. Len(d)
      /\ Len(a) \in Nat /\ Len(b) \in Nat /\ Len(c) \in Nat /\ Len(d) \in Nat
  OBVIOUS
<1>2. Len(a) = Len(c) /\ Len(b) = Len(d)
  <2>1. 1 .. Len(a) = 1 .. Len(c) /\ 1 .. Len(b) = 1 .. Len(d)
    BY <1>1 DEF Match
  <2>2. ASSUME NEW m \in Nat, NEW n \in Nat, 1 .. m = 1 .. n, m < n PROVE FALSE
    <3>1. n \in 1 .. n /\ n \notin 1 .. m
      BY <2>2
    <3> QED BY <2>2, <3>1
  <2>3. \A m, n \in Nat : 1 .. m = 1 .. n => m = n
    <3> SUFFICES ASSUME NEW m \in Nat, NEW n \in Nat, 1 .. m = 1 .. n PROVE m = n
      OBVIOUS
    <3>1. ~ (m < n) /\ ~ (n < m)
      BY <2>2
    <3> QED BY <3>1
  <2> QED BY <1>1, <2>1, <2>3
<1>3. ASSUME NEW i \in 1 .. Len(a) + Len(b) PROVE <<(a \o b)[i], (c \o d)[i]>> \in R
  <2>1. CASE i <= Len(a)
    <3>1. i \in DOMAIN a /\ (a \o b)[i] = a[i] /\ (c \o d)[i] = c[i]
      BY <1>1, <1>2, <2>1
    <3> QED BY <3>1 DEF Match
  <2>2. CASE ~ (i <= Len(a))
    <3>1. i - Len(a) \in DOMAIN b
          /\ (a \o b)[i] = b[i - Len(a)] /\ (c \o d)[i] = d[i - Len(a)]
      BY <1>1, <1>2, <2>2
    <3> QED BY <3>1 DEF Match
  <2> QED BY <2>1, <2>2
<1> QED BY <1>1, <1>2, <1>3 DEF Match

LEMMA FlattenMatches ==
  ASSUME NEW E, NEW G, NEW R, NEW s \in Seq(Seq(E)), NEW t \in Seq(Seq(G)),
         DOMAIN s = DOMAIN t, \A i \in DOMAIN s : Match(s[i], t[i], R)
  PROVE  Match(FlattenSeq(s), FlattenSeq(t), R)
<1>1. PICK n \in Nat : n = Len(s) /\ n = Len(t) /\ DOMAIN s = 1 .. n /\ DOMAIN t = 1 .. n
  OBVIOUS
<1>2. \A i \in 1 .. n : s[i] \in Seq(E) /\ t[i] \in Seq(G)
  BY <1>1
<1>3. CASE n = 0
  BY <1>1, <1>3, FlattenOfNone DEF Match
<1>4. CASE n # 0
  <2>1. PICK A : RunsTogether(A, s) /\ FlattenSeq(s) = A[n]
    BY <1>1, <1>4, FlattenIsFold
  <2>2. PICK B : RunsTogether(B, t) /\ FlattenSeq(t) = B[n]
    BY <1>1, <1>4, FlattenIsFold
  <2> DEFINE S == {k \in Nat : k + 1 <= n => /\ A[k + 1] \in Seq(E) /\ B[k + 1] \in Seq(G)
                                             /\ Match(A[k + 1], B[k + 1], R)}
  <2>3. \A i \in 1 .. n : /\ A[i] = IF i = 1 THEN s[i] ELSE A[i - 1] \o s[i]
                          /\ B[i] = IF i = 1 THEN t[i] ELSE B[i - 1] \o t[i]
    BY <1>1, <2>1, <2>2 DEF RunsTogether
  <2>4. 0 \in S
    <3>1. 1 \in 1 .. n /\ 0 + 1 = 1
      BY <1>1, <1>4
    <3>2. A[1] = s[1] /\ B[1] = t[1]
      BY <2>3, <3>1
    <3>3. A[1] \in Seq(E) /\ B[1] \in Seq(G) /\ Match(A[1], B[1], R)
      BY <1>1, <1>2, <3>1, <3>2
    <3> QED BY <3>1, <3>3
  <2>5. ASSUME NEW k \in Nat, k \in S PROVE k + 1 \in S
    <3>0. (k + 1) + 1 = k + 2
      OBVIOUS
    <3> SUFFICES ASSUME k + 2 <= n
                 PROVE  /\ A[k + 2] \in Seq(E) /\ B[k + 2] \in Seq(G)
                        /\ Match(A[k + 2], B[k + 2], R)
      BY <3>0
    <3>1. k + 2 \in 1 .. n /\ k + 2 # 1 /\ (k + 2) - 1 = k + 1 /\ k + 1 <= n
      OBVIOUS
    <3>2. A[k + 2] = A[k + 1] \o s[k + 2] /\ B[k + 2] = B[k + 1] \o t[k + 2]
      BY <2>3, <3>1
    <3>3. A[k + 1] \in Seq(E) /\ B[k + 1] \in Seq(G) /\ Match(A[k + 1], B[k + 1], R)
      BY <2>5, <3>1
    <3>4. s[k + 2] \in Seq(E) /\ t[k + 2] \in Seq(G) /\ Match(s[k + 2], t[k + 2], R)
      BY <1>1, <1>2, <3>1
    <3>5. Match(A[k + 2], B[k + 2], R)
      BY <3>2, <3>3, <3>4, JoinMatches
    <3> QED BY <3>2, <3>3, <3>4, <3>5
  <2> HIDE DEF S
  <2>6. Nat \subseteq S
    BY <2>4, <2>5, NatSetInduction
  <2>7. n - 1 \in S /\ (n - 1) + 1 = n
    BY <1>4, <2>6
  <2> QED BY <2>1, <2>2, <2>7 DEF S
<1> QED BY <1>3, <1>4

(* One sequence alone stays.                                               *)
LEMMA FlattenOfOne ==
  ASSUME NEW E, NEW s \in Seq(E)
  PROVE  FlattenSeq(<<s>>) = s
<1>1. <<s>> \in Seq(Seq(E)) /\ Len(<<s>>) = 1 /\ <<s>>[1] = s /\ 1 \in 1 .. 1
  OBVIOUS
<1>2. \E F : RunsTogether(F, <<s>>) /\ FlattenSeq(<<s>>) = F[Len(<<s>>)]
  <2>1. Len(<<s>>) # 0
    BY <1>1
  <2> QED BY <1>1, <2>1, FlattenIsFold
<1>3. PICK F : RunsTogether(F, <<s>>) /\ FlattenSeq(<<s>>) = F[1]
  BY <1>1, <1>2
<1> QED BY <1>1, <1>3 DEF RunsTogether

(* A finite set has a sequence of its elements.                            *)
LEMMA SetHasSeq ==
  ASSUME NEW S, IsFiniteSet(S)
  PROVE  /\ SetToSeq(S) \in Seq(S) /\ ToSet(SetToSeq(S)) = S
         /\ Len(SetToSeq(S)) = Cardinality(S)
<1>1. PICK n \in Nat : ExistsBijection(1 .. n, S)
  BY FS_NatBijection
<1>2. Cardinality(S) = n
  BY <1>1, FS_CountingElements
<1>3. PICK f : f \in Bijection(1 .. n, S)
  BY <1>1 DEF ExistsBijection
<1> DEFINE P(h) == h \in [1 .. n -> S] /\ IsInjective(h)
<1>4. f \in [1 .. n -> S] /\ IsInjective(f)
  BY <1>3 DEF Bijection, Injection, Surjection, IsInjective
<1>5. SetToSeq(S) \in [1 .. n -> S] /\ IsInjective(SetToSeq(S))
  BY <1>2, <1>4, Zenon DEF SetToSeq
<1>6. \A y \in S : \E i \in 1 .. n : SetToSeq(S)[i] = y
  <2>1. SetToSeq(S) \in Injection(1 .. n, S)
    BY <1>5 DEF Injection, IsInjective
  <2>2. IsFiniteSet(1 .. n) /\ Cardinality(1 .. n) = n
    BY FS_Interval
  <2>3. SetToSeq(S) \in Surjection(1 .. n, S)
    BY <1>2, <2>1, <2>2, FS_Injection
  <2> QED BY <2>3 DEF Surjection
<1>7. Len(SetToSeq(S)) = n
  BY <1>5
<1> QED BY <1>2, <1>5, <1>6, <1>7 DEF ToSet

LEMMA SeqOfNone == SetToSeq({}) = <<>>
<1>1. IsFiniteSet({}) /\ Cardinality({}) = 0
  BY FS_EmptySet, Zenon
<1>2. SetToSeq({}) \in Seq({}) /\ Len(SetToSeq({})) = 0
  BY <1>1, SetHasSeq
<1> QED BY <1>2

LEMMA SeqOfOne ==
  ASSUME NEW x
  PROVE  /\ SetToSeq({x}) \in Seq({x}) /\ ToSet(SetToSeq({x})) = {x}
         /\ SetToSeq({x}) = <<x>>
<1>1. IsFiniteSet({x}) /\ Cardinality({x}) = 1
  BY FS_Singleton
<1>2. /\ SetToSeq({x}) \in Seq({x}) /\ ToSet(SetToSeq({x})) = {x}
      /\ Len(SetToSeq({x})) = 1
  BY <1>1, SetHasSeq
<1>3. \A s \in Seq({x}) : Len(s) = 1 => s = <<x>>
  OBVIOUS
<1> QED BY <1>2, <1>3

(* What a function makes of finitely many is finitely many.                *)
LEMMA ImageIsFinite ==
  ASSUME NEW f, IsFiniteSet(DOMAIN f)
  PROVE  IsFiniteSet({f[x] : x \in DOMAIN f})
<1> DEFINE T == {f[x] : x \in DOMAIN f}
           g == [x \in DOMAIN f |-> f[x]]
<1>1. g \in Surjection(DOMAIN f, T)
  BY DEF Surjection
<1> QED BY <1>1, FS_Surjection

=============================================================================
