--------------------------- MODULE SpellingProofs ---------------------------
(***************************************************************************)
(* Proofs that a rule set is stored as one and the same whatever way it    *)
(* was spelled, and that no other rule set is stored as that.              *)
(*                                                                         *)
(* For each kind of part of a rule, from numbers up, two things are shown: *)
(* the encoder makes one thing of it (..IsOne), and makes the same of      *)
(* another part exactly when the two are alike (..Alike).                  *)
(***************************************************************************)
EXTENDS RuleProofs, FunctionTheorems

-----------------------------------------------------------------------------
(* Numbers.                                                                *)

LEMMA PowersAdd ==
  \A n \in Nat : \A k \in Nat : Pow10[k + n] = Pow10[k] * Pow10[n]
<1> DEFINE S == {n \in Nat : \A k \in Nat : Pow10[k + n] = Pow10[k] * Pow10[n]}
<1>1. 0 \in S
  <2> SUFFICES ASSUME NEW k \in Nat PROVE Pow10[k + 0] = Pow10[k] * Pow10[0]
    OBVIOUS
  <2>1. Pow10[0] = 1 /\ Pow10[k] \in Nat /\ k + 0 = k
    BY PowersOfTen
  <2> QED BY <2>1
<1>2. ASSUME NEW n \in Nat, n \in S PROVE n + 1 \in S
  <2> SUFFICES ASSUME NEW k \in Nat PROVE Pow10[k + (n + 1)] = Pow10[k] * Pow10[n + 1]
    OBVIOUS
  <2>1. k + (n + 1) = (k + n) + 1 /\ k + n \in Nat
    OBVIOUS
  <2>2. Pow10[k + (n + 1)] = 10 * Pow10[k + n] /\ Pow10[n + 1] = 10 * Pow10[n]
    BY <2>1, PowersOfTen
  <2>3. Pow10[k + n] = Pow10[k] * Pow10[n]
    BY <1>2
  <2>4. \A i, j \in Int : 10 * (i * j) = i * (10 * j)
    OBVIOUS
  <2>5. Pow10[k] \in Int /\ Pow10[n] \in Int
    BY PowersArePositive
  <2> QED BY <2>2, <2>3, <2>4, <2>5
<1> HIDE DEF S
<1>3. Nat \subseteq S
  BY <1>1, <1>2, NatSetInduction
<1> QED BY <1>3 DEF S

(* A number has one canonical form ...                                     *)
LEMMA CanonicalIsUnique ==
  ASSUME NEW m \in Int, NEW e \in Nat, NEW k \in Int, NEW j \in Nat,
         DecimalIsCanonical(m, e), DecimalIsCanonical(k, j),
         SameNumber(<<m, e>>, <<k, j>>)
  PROVE  m = k /\ e = j
<1>1. ASSUME NEW a \in Int, NEW x \in Nat, NEW b \in Int, NEW y \in Nat, x <= y,
             DecimalIsCanonical(b, y), a * Pow10[y] = b * Pow10[x]
      PROVE  a = b /\ x = y
  <2>1. PICK d \in Nat : y = x + d
    <3>1. y - x \in Nat /\ y = x + (y - x)
      BY <1>1
    <3> QED BY <3>1
  <2> DEFINE P == Pow10[x]
             Q == Pow10[d]
  <2>2. P \in Nat \ {0} /\ Q \in Nat \ {0} /\ Pow10[y] = P * Q
    BY <2>1, PowersOfTen, PowersAdd
  <2>3. a * (P * Q) = b * P
    BY <1>1, <2>2
  <2>4. a * Q = b
    <3> HIDE DEF P, Q
    <3>1. \A u, v, w \in Int : u * (v * w) = (u * w) * v
      OBVIOUS
    <3>2. (a * Q) * P = b * P
      BY <2>2, <2>3, <3>1
    <3>3. \A u, v \in Int, w \in Nat \ {0} : u * w = v * w => u = v
      <4> SUFFICES ASSUME NEW u \in Int, NEW v \in Int, NEW w \in Nat \ {0}, u * w = v * w
                   PROVE  u = v
        OBVIOUS
      <4>1. (u - v) * w = 0
        <5>1. (u - v) * w = u * w - v * w
          OBVIOUS
        <5>2. u * w \in Int /\ v * w \in Int
          OBVIOUS
        <5> QED BY <5>1, <5>2
      <4>2. u - v = 0
        <5>1. CASE u - v > 0
          <6>1. (u - v) * w > 0
            BY <5>1
          <6> QED BY <4>1, <6>1
        <5>2. CASE u - v < 0
          <6>1. (u - v) * w < 0
            BY <5>2
          <6> QED BY <4>1, <6>1
        <5> QED BY <5>1, <5>2
      <4> QED BY <4>2
    <3>4. a * Q \in Int
      BY <2>2
    <3> QED BY <2>2, <3>2, <3>3, <3>4
  <2>5. CASE d = 0
    <3>1. Q = 1
      BY <2>5, PowersOfTen
    <3> QED BY <2>1, <2>4, <2>5, <3>1
  <2>6. CASE d # 0
    <3>1. PICK i \in Nat : d = i + 1
      BY <2>6
    <3>2. Q = 10 * Pow10[i] /\ Pow10[i] \in Int
      BY <3>1, PowersOfTen
    <3>3. b = 10 * (a * Pow10[i])
      <4>1. \A u, v \in Int : u * (10 * v) = 10 * (u * v)
        OBVIOUS
      <4> QED BY <2>4, <3>2, <4>1
    <3>4. a * Pow10[i] \in Int
      BY <3>2
    <3>5. b % 10 = 0
      <4>1. \A u \in Int : (10 * u) % 10 = 0
        OBVIOUS
      <4> QED BY <3>3, <3>4, <4>1
    <3>6. y > 0
      BY <2>1, <3>1
    <3> QED BY <1>1, <3>5, <3>6 DEF DecimalIsCanonical
  <2> QED BY <2>5, <2>6
<1>2. m * Pow10[j] = k * Pow10[e]
  BY DEF SameNumber
<1>3. CASE e <= j
  BY <1>1, <1>2, <1>3
<1>4. CASE j <= e
  BY <1>1, <1>2, <1>4
<1> QED BY <1>3, <1>4

(* ... so two decimals are the same number when stripping makes them one.  *)
LEMMA StrippedDecides ==
  ASSUME NEW m \in Int, NEW e \in Nat, NEW k \in Int, NEW j \in Nat
  PROVE  SameNumber(<<m, e>>, <<k, j>>) <=> Stripped(m, e) = Stripped(k, j)
<1> DEFINE s == Stripped(m, e)
           t == Stripped(k, j)
<1>1. s \in Int \X Nat /\ DecimalIsCanonical(s[1], s[2])
  BY StrippedIsExact
<1>2. t \in Int \X Nat /\ DecimalIsCanonical(t[1], t[2])
  BY StrippedIsExact
<1>3. \A a \in Int \X Nat : /\ SameNumber(a, <<m, e>>) <=> SameNumber(a, s)
                            /\ SameNumber(a, <<k, j>>) <=> SameNumber(a, t)
  BY StrippedComparesAlike
<1> HIDE DEF s, t
<1>4. \A a, b \in Int \X Nat : SameNumber(a, b) <=> SameNumber(b, a)
  BY Zenon DEF SameNumber
<1>5. <<m, e>> \in Int \X Nat /\ <<k, j>> \in Int \X Nat
  OBVIOUS
<1>6. SameNumber(<<m, e>>, <<k, j>>) <=> SameNumber(<<m, e>>, t)
  BY <1>3, <1>5
<1>7. SameNumber(<<m, e>>, t) <=> SameNumber(t, <<m, e>>)
  BY <1>2, <1>4, <1>5
<1>8. SameNumber(t, <<m, e>>) <=> SameNumber(t, s)
  BY <1>2, <1>3
<1>9. SameNumber(t, s) => s = t
  <2>1. PICK a \in Int, x \in Nat : s = <<a, x>>
    BY <1>1
  <2>2. PICK b \in Int, y \in Nat : t = <<b, y>>
    BY <1>2
  <2>3. DecimalIsCanonical(a, x) /\ DecimalIsCanonical(b, y)
    BY <1>1, <1>2, <2>1, <2>2
  <2> QED BY <2>1, <2>2, <2>3, CanonicalIsUnique
<1>10. s = t => SameNumber(t, s)
  BY Zenon DEF SameNumber
<1>11. SameNumber(<<m, e>>, <<k, j>>) <=> s = t
  BY <1>6, <1>7, <1>8, <1>9, <1>10
<1> QED BY <1>11 DEF s, t

(* What is made of its parts' only values is one of a sequence.            *)
LEMMA AllOfOnes ==
  ASSUME NEW s, NEW a, a = [i \in DOMAIN s |-> a[i]], \A i \in DOMAIN s : s[i] = {a[i]}
  PROVE  a \in AllOf(s)
<1>1. \A i \in DOMAIN s : (CHOOSE x \in s[i] : TRUE) = a[i]
  OBVIOUS
<1>2. [i \in DOMAIN s |-> CHOOSE x \in s[i] : TRUE] = [i \in DOMAIN s |-> a[i]]
  BY <1>1
<1>3. ~ \E i \in DOMAIN s : s[i] = {}
  OBVIOUS
<1>4. AllOf(s) = {[i \in DOMAIN s |-> CHOOSE x \in s[i] : TRUE]}
  BY <1>3, Zenon DEF AllOf
<1> QED BY <1>2, <1>4

LEMMA AllOfIsOne ==
  ASSUME NEW s, NEW a \in AllOf(s), NEW b \in AllOf(s)
  PROVE  a = b
BY DEF AllOf

LEMMA SameLength ==
  ASSUME NEW s, IsASeq(s), NEW t, IsASeq(t)
  PROVE  Len(s) = Len(t) <=> DOMAIN s = DOMAIN t
<1>1. \A n, m \in Nat : 1 .. n = 1 .. m => n = m
  OBVIOUS
<1>2. /\ Len(s) \in Nat /\ DOMAIN s = 1 .. Len(s)
      /\ Len(t) \in Nat /\ DOMAIN t = 1 .. Len(t)
  BY LenOfSeq
<1> DEFINE n == Len(s)
           m == Len(t)
<1> HIDE DEF n, m
<1>3. n \in Nat /\ m \in Nat /\ DOMAIN s = 1 .. n /\ DOMAIN t = 1 .. m
  BY <1>2 DEF n, m
<1>4. n = m <=> DOMAIN s = DOMAIN t
  BY <1>1, <1>3
<1> QED BY <1>4 DEF n, m

(* A function on the parts of a value that at each is settled by what it   *)
(* is below it.                                                            *)
LooksInside(D, V, step) ==
  \A x \in D : \A g, h \in [D -> V] :
    (\A y \in Below(x) : g[y] = h[y]) => step[<<x, g>>] = step[<<x, h>>]

ArePartsOf(D, r) == Shallow(r) /\ D = Parts(r)

LEMMA NestedRecursion ==
  ASSUME NEW D, NEW r, ArePartsOf(D, r), NEW V, V # {},
         NEW step \in [D \X [D -> V] -> V], LooksInside(D, V, step)
  PROVE  \E f \in [D -> V] : IsRecursion(f, D, step)
<1> USE DEF ArePartsOf
<1> DEFINE T(x) == {n \in Nat : n <= MaxDepth /\ Depth(x, n)}
           rank == [x \in D |-> CHOOSE n \in T(x) : \A m \in T(x) : n <= m]
<1>1. ASSUME NEW x \in D PROVE rank[x] \in T(x) /\ \A m \in T(x) : rank[x] <= m
  <2>1. Depth(x, MaxDepth)
    BY PartsAreClosed DEF Shallow
  <2>2. T(x) \subseteq Nat /\ T(x) # {}
    BY <2>1, DepthAssumption
  <2> HIDE DEF T
  <2>3. \E n \in T(x) : \A m \in T(x) : n <= m
    BY <2>2, LeastNatural
  <2> QED BY <2>3
<1>2. rank \in [D -> Nat]
  <2>1. \A x \in D : rank[x] \in Nat
    BY <1>1
  <2>2. rank = [x \in D |-> rank[x]]
    OBVIOUS
  <2> HIDE DEF rank
  <2> QED BY <2>1, <2>2
<1>3. ASSUME NEW x \in D, NEW y \in Below(x) PROVE y \in D /\ rank[y] < rank[x]
  <2> DEFINE n == rank[x]
  <2>1. n \in Nat /\ n <= MaxDepth /\ Depth(x, n)
    BY <1>1
  <2>2. y \in D
    BY PartsAreClosed
  <2> HIDE DEF rank, n
  <2>3. (n + 1) > 0 /\ (n + 1) - 1 = n
    BY <2>1
  <2>4. x \in Lower(r, n + 1)
    BY <2>1, <2>3 DEF Lower
  <2>5. y \in Lower(r, n)
    BY <2>1, <2>4, LowerGrows
  <2>6. n > 0 /\ Depth(y, n - 1)
    BY <2>5 DEF Lower
  <2>7. n - 1 \in T(y)
    BY <2>1, <2>6, DepthAssumption
  <2>8. rank[y] <= n - 1 /\ rank[y] \in Nat
    BY <1>1, <1>2, <2>2, <2>7
  <2> QED BY <2>1, <2>2, <2>8 DEF n
<1> HIDE DEF rank, T
<1>4. LooksBelow(D, V, rank, step)
  <2> SUFFICES ASSUME NEW x \in D, NEW g \in [D -> V], NEW h \in [D -> V],
                      \A y \in D : rank[y] < rank[x] => g[y] = h[y]
               PROVE  step[<<x, g>>] = step[<<x, h>>]
    BY Zenon DEF LooksBelow
  <2>1. \A y \in Below(x) : g[y] = h[y]
    BY <1>3
  <2> QED BY <2>1 DEF LooksInside
<1> QED BY <1>2, <1>4, RankedRecursion

-----------------------------------------------------------------------------
(* Values and conditions.                                                  *)

(* Where the parts of one value are related to those of another, the       *)
(* relation being settled by what is below.                                *)
LEMMA AlikeValuesUnfold ==
  ASSUME NEW a, Shallow(a), NEW b
  PROVE  \E f : /\ \A x \in Parts(a) : f[x] = { y \in Parts(b) : AlikeScalars(x, y, f) }
                /\ AlikeValues(a, b) <=> b \in f[a]
<1> DEFINE D == Parts(a)
           V == SUBSET Parts(b)
           step == [p \in D \X [D -> V] |-> { y \in Parts(b) : AlikeScalars(p[1], y, p[2]) }]
           F == CHOOSE f : f = [x \in D |-> { y \in Parts(b) : AlikeScalars(x, y, f) }]
<1>1. V # {} /\ step \in [D \X [D -> V] -> V]
  OBVIOUS
<1>2. \A x \in D : \A g \in [D -> V] : step[<<x, g>>] = { y \in Parts(b) : AlikeScalars(x, y, g) }
  OBVIOUS
<1>3. ASSUME NEW x \in D, NEW g, NEW h, \A y \in Below(x) : g[y] = h[y]
      PROVE  \A y : AlikeScalars(x, y, g) <=> AlikeScalars(x, y, h)
  <2>1. IsList(x) => \A i \in DOMAIN x.list : x.list[i] \in Below(x)
    BY ItemsAreInside, InsideIsBelow DEF IsList
  <2>2. IsList(x) => \A i \in DOMAIN x.list : g[x.list[i]] = h[x.list[i]]
    BY <1>3, <2>1
  <2>3. ~ (IsList(x) /\ IsDecimal(x))
    BY DEF IsList, IsDecimal
  <2>4. CASE IsDecimal(x)
    <3>1. \A y, f : AlikeScalars(x, y, f) <=>
                     IsDecimal(y) /\ SameNumber(<<x.m, x.e>>, <<y.m, y.e>>)
      BY <2>3, <2>4 DEF AlikeScalars
    <3> QED BY <3>1
  <2>5. CASE IsList(x)
    <3>1. \A y, f : AlikeScalars(x, y, f) <=> IsList(y) /\ Itemwise(x.list, y.list, f)
      BY <2>3, <2>5, Zenon DEF AlikeScalars
    <3>2. \A y : Itemwise(x.list, y.list, g) <=> Itemwise(x.list, y.list, h)
      BY <2>2, <2>5 DEF Itemwise
    <3> QED BY <3>1, <3>2
  <2>6. CASE ~ IsDecimal(x) /\ ~ IsList(x)
    <3>1. \A y, f : AlikeScalars(x, y, f) <=> x = y
      BY <2>6 DEF AlikeScalars
    <3> QED BY <3>1
  <2> QED BY <2>4, <2>5, <2>6
<1>4. LooksInside(D, V, step)
  <2> SUFFICES ASSUME NEW x \in D, NEW g \in [D -> V], NEW h \in [D -> V],
                      \A y \in Below(x) : g[y] = h[y]
               PROVE  step[<<x, g>>] = step[<<x, h>>]
    BY Zenon DEF LooksInside
  <2>1. \A y : AlikeScalars(x, y, g) <=> AlikeScalars(x, y, h)
    BY <1>3
  <2> HIDE DEF step, D, V
  <2>2. { y \in Parts(b) : AlikeScalars(x, y, g) } = { y \in Parts(b) : AlikeScalars(x, y, h) }
    BY <2>1, Zenon
  <2> QED BY <1>2, <2>2
<1>5. \E f \in [D -> V] : IsRecursion(f, D, step)
  <2>1. ArePartsOf(D, a)
    BY DEF ArePartsOf
  <2> HIDE DEF step, V, D
  <2> QED BY <1>1, <1>4, <2>1, NestedRecursion
<1>6. \E f : f = [x \in D |-> { y \in Parts(b) : AlikeScalars(x, y, f) }]
  <2>1. PICK f \in [D -> V] : \A x \in D : f[x] = step[<<x, f>>]
    <3> HIDE DEF step, V
    <3> QED BY <1>5 DEF IsRecursion
  <2>2. \A x \in D : f[x] = { y \in Parts(b) : AlikeScalars(x, y, f) }
    BY <1>2, <2>1
  <2>3. f = [x \in D |-> f[x]]
    BY <2>1
  <2>4. f = [x \in D |-> { y \in Parts(b) : AlikeScalars(x, y, f) }]
    BY <2>2, <2>3
  <2> QED BY <2>4, Zenon
<1>7. F = [x \in D |-> { y \in Parts(b) : AlikeScalars(x, y, F) }]
  BY <1>6, Zenon
<1>8. AlikeValues(a, b) <=> b \in F[a]
  BY Zenon DEF AlikeValues
<1> HIDE DEF F
<1>9. \A x \in Parts(a) : F[x] = { y \in Parts(b) : AlikeScalars(x, y, F) }
  BY <1>7
<1> QED BY <1>8, <1>9

LEMMA CanonicalScalarIsOne ==
  ASSUME NEW v, Shallow(v), ValuePart(v), NEW u \in CanonicalScalar(v), NEW w \in CanonicalScalar(v)
  PROVE  u = w
<1>1. CASE ~ IsList(v)
  <2>1. ValuePart(v) => IsStr(v) \/ IsBool(v) \/ IsDecimal(v) \/ IsList(v)
    BY DEF ValuePart
  <2> QED BY <1>1, <2>1, CanonicalAtoms
<1>2. CASE IsList(v)
  <2> DEFINE f == [z \in Parts(v) |-> CanonicalScalar(z)]
             read == [i \in DOMAIN v.list |-> f[v.list[i]]]
  <2>1. CanonicalScalar(v) = CanonicalPart(v, f)
    BY CanonicalScalarUnfolds
  <2> HIDE DEF f
  <2>2. CanonicalScalar(v) = { List(s) : s \in AllOf(read) }
    BY <1>2, <2>1 DEF CanonicalPart, IsStr, IsBool, IsDecimal, IsList
  <2> HIDE DEF read
  <2> QED BY <2>2, AllOfIsOne
<1> QED BY <1>1, <1>2

(* A list of canonical items is the canonical form of the list of them.    *)
LEMMA CanonicalListOf ==
  ASSUME NEW v, IsValue(v), IsList(v), NEW u, u = List(u.list), IsASeq(u.list),
         DOMAIN u.list = DOMAIN v.list,
         \A i \in DOMAIN v.list : u.list[i] \in CanonicalScalar(v.list[i])
  PROVE  u \in CanonicalScalar(v)
<1> DEFINE f == [z \in Parts(v) |-> CanonicalScalar(z)]
           read == [i \in DOMAIN v.list |-> f[v.list[i]]]
<1>1. Shallow(v) /\ \A i \in DOMAIN v.list : v.list[i] \in Parts(v)
  BY ItemsAreInside, PartsAreClosed DEF IsValue, IsList
<1>2. \A i \in DOMAIN v.list : read[i] = {u.list[i]}
  <2> TAKE i \in DOMAIN v.list
  <2>1. Shallow(v.list[i]) /\ ValuePart(v.list[i])
    BY <1>1, PartsAreClosed DEF IsValue
  <2>2. read[i] = CanonicalScalar(v.list[i])
    BY <1>1
  <2> HIDE DEF read
  <2> QED BY <2>1, <2>2, CanonicalScalarIsOne
<1>3. DOMAIN read = DOMAIN v.list /\ u.list = [i \in DOMAIN read |-> u.list[i]]
  BY DEF IsASeq
<1>4. CanonicalScalar(v) = CanonicalPart(v, f)
  BY <1>1, CanonicalScalarUnfolds
<1> HIDE DEF f
<1>5. CanonicalScalar(v) = { List(s) : s \in AllOf(read) }
  BY <1>4 DEF CanonicalPart, IsStr, IsBool, IsDecimal, IsList
<1>6. u.list \in AllOf(read)
  <2> HIDE DEF read
  <2> QED BY <1>2, <1>3, AllOfOnes
<1> HIDE DEF read
<1> QED BY <1>5, <1>6

(* Two decimals are canonically one when they are one number.              *)
LEMMA DecimalsAlike ==
  ASSUME NEW v, ValuePart(v), Shallow(v), IsDecimal(v),
         NEW w, ValuePart(w), Shallow(w), IsDecimal(w),
         NEW u \in CanonicalScalar(v)
  PROVE  u \in CanonicalScalar(w) <=> SameNumber(<<v.m, v.e>>, <<w.m, w.e>>)
<1> DEFINE s == Stripped(v.m, v.e)
           t == Stripped(w.m, w.e)
<1>1. /\ v.m \in Int /\ v.e \in Nat /\ w.m \in Int /\ w.e \in Nat
      /\ Abs(w.m) <= MaxMantissa /\ ~ IsList(v) /\ ~ IsList(w)
  BY DEF ValuePart, IsStr, IsBool, IsDecimal, IsList
<1>2. SameNumber(<<v.m, v.e>>, <<w.m, w.e>>) <=> s = t
  BY <1>1, StrippedDecides
<1>3. s \in Int \X Nat /\ t \in Int \X Nat
  BY <1>1, StrippedIsExact
<1>4. u = Decimal(s[1], s[2])
  BY <1>1, CanonicalAtoms
<1>5. CanonicalScalar(w) = {Decimal(t[1], t[2])}
  <2> DEFINE f == [z \in Parts(w) |-> CanonicalScalar(z)]
  <2>1. CanonicalScalar(w) = CanonicalPart(w, f)
    BY CanonicalScalarUnfolds
  <2> HIDE DEF f
  <2>2. CanonicalScalar(w) = { Decimal(d[1], d[2]) : d \in NormalizeDecimal(w.m, w.e) }
    BY <2>1 DEF CanonicalPart, IsStr, IsBool, IsDecimal, IsList
  <2>3. NormalizeDecimal(w.m, w.e) = {t}
    <3>1. ~ (w.e < 0) /\ Abs(w.m) \in Int
      BY <1>1 DEF Abs
    <3>2. ~ (Abs(w.m) > MaxMantissa)
      BY <1>1, <3>1, ScalarsAssumption
    <3> QED BY <3>1, <3>2 DEF NormalizeDecimal
  <2> HIDE DEF t
  <2> QED BY <2>2, <2>3
<1> HIDE DEF s, t
<1>6. Decimal(s[1], s[2]) = Decimal(t[1], t[2]) <=> s = t
  <2>1. PICK a \in Int, x \in Nat : s = <<a, x>>
    BY <1>3
  <2>2. PICK b \in Int, y \in Nat : t = <<b, y>>
    BY <1>3
  <2> QED BY <2>1, <2>2 DEF Decimal
<1> QED BY <1>2, <1>4, <1>5, <1>6

(* Two values have one canonical form when they differ in spelling only.   *)
LEMMA ValuesAlike ==
  ASSUME NEW a, IsValue(a), NEW b, IsValue(b), NEW c \in CanonicalScalar(a)
  PROVE  c \in CanonicalScalar(b) <=> AlikeValues(a, b)
<1>1. /\ Shallow(a) /\ Shallow(b) /\ a \in Parts(a) /\ b \in Parts(b)
      /\ \A y \in Parts(a) \cup Parts(b) : Shallow(y) /\ ValuePart(y) /\ IsValue(y)
  BY PartsAreClosed DEF IsValue
<1>2. PICK f : /\ \A x \in Parts(a) : f[x] = { y \in Parts(b) : AlikeScalars(x, y, f) }
               /\ AlikeValues(a, b) <=> b \in f[a]
  BY <1>1, AlikeValuesUnfold
<1> DEFINE Alike(x) == \A y \in Parts(b) : \A u \in CanonicalScalar(x) :
                         u \in CanonicalScalar(y) <=> y \in f[x]
           S == {x \in Parts(a) : Alike(x)}
<1>3. ASSUME NEW x \in Parts(a), Below(x) \subseteq S PROVE x \in S
  <2> SUFFICES ASSUME NEW y \in Parts(b), NEW u \in CanonicalScalar(x)
               PROVE  u \in CanonicalScalar(y) <=> y \in f[x]
    OBVIOUS
  <2>1. y \in f[x] <=> AlikeScalars(x, y, f)
    BY <1>2
  <2>2. SameKind(u, x) /\ (u \in CanonicalScalar(y) => SameKind(u, y))
    BY <1>1, CanonicalKinds
  <2>3. ~ (IsList(x) /\ IsDecimal(x))
    BY DEF IsList, IsDecimal
  <2>4. CASE IsDecimal(x)
    <3>1. AlikeScalars(x, y, f) <=> IsDecimal(y) /\ SameNumber(<<x.m, x.e>>, <<y.m, y.e>>)
      BY <2>3, <2>4 DEF AlikeScalars
    <3>2. u \in CanonicalScalar(y) => IsDecimal(y)
      BY <2>2, <2>4 DEF SameKind
    <3>3. IsDecimal(y) => (u \in CanonicalScalar(y) <=> SameNumber(<<x.m, x.e>>, <<y.m, y.e>>))
      BY <1>1, <2>4, DecimalsAlike
    <3> QED BY <2>1, <3>1, <3>2, <3>3
  <2>5. CASE IsList(x)
    <3>1. AlikeScalars(x, y, f) <=> IsList(y) /\ Itemwise(x.list, y.list, f)
      BY <2>3, <2>5 DEF AlikeScalars
    <3>2. IsASeq(x.list)
      BY <1>1, <2>5 DEF ValuePart, IsStr, IsBool, IsDecimal, IsList
    <3>3. /\ IsList(u) /\ ValuePart(u) /\ DOMAIN u.list = DOMAIN x.list
          /\ \A i \in DOMAIN x.list : u.list[i] \in CanonicalScalar(x.list[i])
      BY <1>1, <2>2, <2>5, <3>2, CanonicalLists DEF SameKind
    <3>4. u = List(u.list) /\ IsASeq(u.list)
      BY <3>3 DEF ValuePart, IsStr, IsBool, IsDecimal, IsList
    <3>5. u \in CanonicalScalar(y) => IsList(y)
      BY <2>2, <3>3 DEF SameKind
    <3>6. ASSUME IsList(y)
          PROVE  u \in CanonicalScalar(y) <=> Itemwise(x.list, y.list, f)
      <4>1. IsASeq(y.list)
        BY <1>1, <3>6 DEF ValuePart, IsStr, IsBool, IsDecimal, IsList
      <4>2. Len(x.list) = Len(y.list) <=> DOMAIN x.list = DOMAIN y.list
        BY <3>2, <4>1, SameLength
      <4>3. ASSUME DOMAIN x.list = DOMAIN y.list, NEW i \in DOMAIN x.list
            PROVE  u.list[i] \in CanonicalScalar(y.list[i]) <=> y.list[i] \in f[x.list[i]]
        <5>1. x.list[i] \in Below(x)
          BY <2>5, ItemsAreInside, InsideIsBelow DEF IsList
        <5>2. y.list[i] \in Parts(b)
          <6>1. y.list[i] \in Inside(y)
            BY <3>6, <4>3, ItemsAreInside DEF IsList
          <6> QED BY <1>1, <6>1, PartsAreClosed
        <5>3. Alike(x.list[i])
          BY <1>3, <5>1
        <5> QED BY <3>3, <5>2, <5>3
      <4>4. ASSUME u \in CanonicalScalar(y) PROVE Itemwise(x.list, y.list, f)
        <5>1. /\ DOMAIN u.list = DOMAIN y.list
              /\ \A i \in DOMAIN y.list : u.list[i] \in CanonicalScalar(y.list[i])
          BY <1>1, <3>6, <4>1, <4>4, CanonicalLists
        <5> QED BY <3>3, <4>2, <4>3, <5>1 DEF Itemwise
      <4>5. ASSUME Itemwise(x.list, y.list, f) PROVE u \in CanonicalScalar(y)
        <5>1. DOMAIN x.list = DOMAIN y.list /\ \A i \in DOMAIN x.list : y.list[i] \in f[x.list[i]]
          BY <4>2, <4>5 DEF Itemwise
        <5>2. \A i \in DOMAIN y.list : u.list[i] \in CanonicalScalar(y.list[i])
          BY <4>3, <5>1
        <5> QED BY <1>1, <3>3, <3>4, <3>6, <5>1, <5>2, CanonicalListOf
      <4> QED BY <4>4, <4>5
    <3> QED BY <2>1, <3>1, <3>5, <3>6
  <2>6. CASE ~ IsDecimal(x) /\ ~ IsList(x)
    <3>1. AlikeScalars(x, y, f) <=> x = y
      BY <2>6 DEF AlikeScalars
    <3>2. IsStr(x) \/ IsBool(x)
      BY <1>1, <2>6 DEF ValuePart
    <3>3. u = x
      BY <1>1, <2>6, <3>2, CanonicalAtoms
    <3>4. u \in CanonicalScalar(y) => u = y
      <4>1. u \in CanonicalScalar(y) => ~ IsList(y) /\ (IsStr(y) \/ IsBool(y))
        BY <2>2, <3>2 DEF SameKind, IsStr, IsBool, IsList
      <4> QED BY <1>1, <4>1, CanonicalAtoms
    <3> QED BY <2>1, <3>1, <3>3, <3>4
  <2> QED BY <2>4, <2>5, <2>6
<1> HIDE DEF S, Alike
<1>4. Parts(a) \subseteq S
  BY <1>1, <1>3, NestingInduction
<1>5. Alike(a)
  BY <1>1, <1>4 DEF S
<1> QED BY <1>1, <1>2, <1>5 DEF Alike

LEMMA ConditionsAlike ==
  ASSUME NEW c, IsCond(c), NEW d, IsCond(d), NEW k \in CanonicalCondition(c)
  PROVE  k \in CanonicalCondition(d) <=> AlikeConditions(c, d)
<1>1. /\ k = [c EXCEPT !.value = k.value] /\ k.value \in CanonicalScalar(c.value)
      /\ IsNfc(c.field)
  BY DEF CanonicalCondition, NfcOnly, IsCond
<1>2. k.field = c.field /\ k.operator = c.operator
  BY CanonicalConditions
<1>3. k.value \in CanonicalScalar(d.value) <=> AlikeValues(c.value, d.value)
  BY <1>1, ValuesAlike DEF IsCond
<1>4. ASSUME k \in CanonicalCondition(d) PROVE AlikeConditions(c, d)
  <2>1. d.field = k.field /\ d.operator = k.operator /\ k.value \in CanonicalScalar(d.value)
    BY <1>4, CanonicalConditions
  <2> QED BY <1>2, <1>3, <2>1 DEF AlikeConditions
<1>5. ASSUME AlikeConditions(c, d) PROVE k \in CanonicalCondition(d)
  <2>1. c.field = d.field /\ c.operator = d.operator /\ k.value \in CanonicalScalar(d.value)
    BY <1>3, <1>5 DEF AlikeConditions
  <2>2. k = [d EXCEPT !.value = k.value]
    BY <1>1, <2>1 DEF IsCond
  <2> QED BY <1>1, <2>1, <2>2 DEF CanonicalCondition, NfcOnly
<1> QED BY <1>4, <1>5

LEMMA CanonicalConditionIsOne ==
  ASSUME NEW c, IsCond(c), NEW k \in CanonicalCondition(c), NEW l \in CanonicalCondition(c)
  PROVE  k = l
<1>1. /\ k = [c EXCEPT !.value = k.value] /\ k.value \in CanonicalScalar(c.value)
      /\ l = [c EXCEPT !.value = l.value] /\ l.value \in CanonicalScalar(c.value)
  BY DEF CanonicalCondition, NfcOnly, IsCond
<1>2. Shallow(c.value) /\ ValuePart(c.value)
  BY PartsAreClosed DEF IsCond, IsValue
<1>3. k.value = l.value
  BY <1>1, <1>2, CanonicalScalarIsOne
<1> QED BY <1>1, <1>3

-----------------------------------------------------------------------------
(* Groups.                                                                 *)

(* The side a group has, and the one it has not.                           *)
Sides == { <<"all", "any">>, <<"any", "all">> }
HasSide(g, p, s) == g[p[1]] = {s} /\ g[p[2]] = {}

LEMMA OneSideOf ==
  ASSUME NEW g, OneSided(g)
  PROVE  \E p \in Sides : \E s : HasSide(g, p, s) /\ IsASeq(s)
<1>1. PICK s : IsASeq(s) /\ \/ g.all = {s} /\ g.any = {}
                            \/ g.all = {} /\ g.any = {s}
  BY Zenon DEF OneSided
<1> DEFINE p == IF g.all = {s} THEN <<"all", "any">> ELSE <<"any", "all">>
<1>2. p \in Sides /\ HasSide(g, p, s)
  BY <1>1 DEF Sides, HasSide
<1> QED BY <1>1, <1>2

(* A canonical group has one side, with the canonical members.             *)
CanonicalSide(k, p, s) ==
  /\ k = [all |-> k.all, any |-> k.any]
  /\ \E t : /\ HasSide(k, p, t) /\ t = [i \in DOMAIN s |-> t[i]]
            /\ \A i \in DOMAIN s : t[i] \in CanonicalGroup(s[i])

LEMMA CanonicalGroupIsOne ==
  ASSUME NEW g, GroupShape(g), NEW k \in CanonicalGroup(g), NEW l \in CanonicalGroup(g)
  PROVE  k = l
<1>1. Shallow(g) /\ (IsCond(g) \/ OneSided(g))
  BY PartsAreClosed DEF GroupShape
<1>2. CASE IsCond(g)
  <2>1. CanonicalGroup(g) = CanonicalCondition(g)
    BY <1>1, <1>2, CondOrGroup, CanonicalGroupConditions
  <2> QED BY <1>2, <2>1, CanonicalConditionIsOne
<1>3. CASE OneSided(g)
  <2> DEFINE f == [z \in Parts(g) |-> CanonicalGroup(z)]
  <2>1. CanonicalGroup(g) = CanonicalGroupBody(g, f)
    BY <1>1, CanonicalGroupUnfolds
  <2> HIDE DEF f
  <2>2. CanonicalGroup(g) = GroupsOf(SideBody(g.all, f), SideBody(g.any, f))
    BY <1>3, <2>1, CondOrGroup, Zenon DEF CanonicalGroupBody
  <2>3. \A opt : \A u, v \in SideBody(opt, f) : u = v
    <3> SUFFICES ASSUME NEW opt, NEW u \in SideBody(opt, f), NEW v \in SideBody(opt, f)
                 PROVE  u = v
      OBVIOUS
    <3>1. CASE opt = {}
      BY <3>1 DEF SideBody
    <3>2. CASE opt # {}
      <4> DEFINE s == CHOOSE s \in opt : TRUE
                 read == [i \in DOMAIN s |-> f[s[i]]]
      <4>1. SideBody(opt, f) = { {t} : t \in AllOf(read) }
        BY <3>2, Zenon DEF SideBody
      <4> HIDE DEF read
      <4> QED BY <4>1, AllOfIsOne
    <3> QED BY <3>1, <3>2
  <2> QED BY <2>2, <2>3 DEF GroupsOf
<1> QED BY <1>1, <1>2, <1>3

LEMMA CanonicalGroupIsSided ==
  ASSUME NEW g, GroupShape(g), OneSided(g), NEW p \in Sides, NEW s, HasSide(g, p, s), NEW k
  PROVE  k \in CanonicalGroup(g) <=> CanonicalSide(k, p, s)
<1> DEFINE f == [z \in Parts(g) |-> CanonicalGroup(z)]
           read == [i \in DOMAIN s |-> f[s[i]]]
<1>1. Shallow(g)
  BY DEF GroupShape
<1>2. CanonicalGroup(g) = CanonicalGroupBody(g, f)
  BY <1>1, CanonicalGroupUnfolds
<1>3. \A i \in DOMAIN s : s[i] \in Parts(g) /\ GroupShape(s[i])
  <2>1. s \in g.all \cup g.any
    BY DEF Sides, HasSide
  <2> TAKE i \in DOMAIN s
  <2>2. s[i] \in Parts(g)
    BY <1>1, <2>1, MembersAreInside, PartsAreClosed DEF OneSided
  <2> QED BY <1>1, <2>2, PartsAreClosed DEF GroupShape
<1>4. \A i \in DOMAIN s : read[i] = CanonicalGroup(s[i])
  BY <1>3
<1>5. SideBody({s}, f) = { {t} : t \in AllOf(read) } /\ SideBody({}, f) = {{}}
  <2>1. (CHOOSE z \in {s} : TRUE) = s
    OBVIOUS
  <2> HIDE DEF f
  <2> QED BY <2>1 DEF SideBody
<1> HIDE DEF f
<1>6. CanonicalGroup(g) = GroupsOf(SideBody(g.all, f), SideBody(g.any, f))
  BY <1>2, CondOrGroup, Zenon DEF CanonicalGroupBody
<1>7. DOMAIN read = DOMAIN s
  OBVIOUS
<1> HIDE DEF read
<1>8. \A t : t \in AllOf(read) <=> /\ t = [i \in DOMAIN s |-> t[i]]
                                   /\ \A i \in DOMAIN s : t[i] \in CanonicalGroup(s[i])
  <2>1. ASSUME NEW t \in AllOf(read)
        PROVE  t = [i \in DOMAIN s |-> t[i]] /\ \A i \in DOMAIN s : t[i] \in CanonicalGroup(s[i])
    <3>1. t = [i \in DOMAIN read |-> t[i]] /\ \A i \in DOMAIN read : t[i] \in read[i]
      BY AllOfMembers
    <3> QED BY <1>4, <1>7, <3>1
  <2>2. ASSUME NEW t, t = [i \in DOMAIN s |-> t[i]],
               \A i \in DOMAIN s : t[i] \in CanonicalGroup(s[i])
        PROVE  t \in AllOf(read)
    <3>1. \A i \in DOMAIN s : read[i] = {t[i]}
      BY <1>3, <1>4, <2>2, CanonicalGroupIsOne
    <3>2. t = [i \in DOMAIN read |-> t[i]]
      BY <1>7, <2>2
    <3> QED BY <1>7, <3>1, <3>2, AllOfOnes
  <2> QED BY <2>1, <2>2
<1>9. \A z : z \in CanonicalGroup(g)
               <=> \E t \in AllOf(read) : z = IF p = <<"all", "any">>
                                              THEN [all |-> {t}, any |-> {}]
                                              ELSE [all |-> {}, any |-> {t}]
  <2>1. CASE p = <<"all", "any">>
    <3>1. g.all = {s} /\ g.any = {}
      BY <2>1 DEF HasSide
    <3>2. CanonicalGroup(g) = GroupsOf({ {t} : t \in AllOf(read) }, {{}})
      BY <1>5, <1>6, <3>1
    <3> QED BY <2>1, <3>2 DEF GroupsOf
  <2>2. CASE p = <<"any", "all">>
    <3>1. g.any = {s} /\ g.all = {}
      BY <2>2 DEF HasSide
    <3>2. CanonicalGroup(g) = GroupsOf({{}}, { {t} : t \in AllOf(read) })
      BY <1>5, <1>6, <3>1
    <3>3. p # <<"all", "any">>
      BY <2>2
    <3> QED BY <3>2, <3>3 DEF GroupsOf
  <2> QED BY <2>1, <2>2 DEF Sides
<1>10. \A t : k = (IF p = <<"all", "any">> THEN [all |-> {t}, any |-> {}]
                                           ELSE [all |-> {}, any |-> {t}])
              <=> k = [all |-> k.all, any |-> k.any] /\ HasSide(k, p, t)
  <2>1. CASE p = <<"all", "any">>
    BY <2>1 DEF HasSide
  <2>2. CASE p = <<"any", "all">>
    BY <2>2 DEF HasSide
  <2> QED BY <2>1, <2>2 DEF Sides
<1> QED BY <1>8, <1>9, <1>10 DEF CanonicalSide

LEMMA AlikeMembersLocal ==
  ASSUME NEW x, NEW g, NEW h, \A z \in Below(x) : g[z] = h[z]
  PROVE  \A y : AlikeMembers(x, y, g) <=> AlikeMembers(x, y, h)
<1>1. CASE IsGroup(x)
  <2>1. \A s \in x.all \cup x.any : \A i \in DOMAIN s : g[s[i]] = h[s[i]]
    BY <1>1, MembersAreInside DEF IsGroup
  <2>2. \A s \in x.all \cup x.any : \A t : Itemwise(s, t, g) <=> Itemwise(s, t, h)
    BY <2>1, Zenon DEF Itemwise
  <2>3. \A opt : /\ AlikeSides(x.all, opt, g) <=> AlikeSides(x.all, opt, h)
                 /\ AlikeSides(x.any, opt, g) <=> AlikeSides(x.any, opt, h)
    BY <2>2 DEF AlikeSides
  <2> QED BY <1>1, <2>3 DEF AlikeMembers
<1>2. CASE ~ IsGroup(x)
  BY <1>2 DEF AlikeMembers
<1> QED BY <1>1, <1>2

LEMMA AlikeGroupsUnfold ==
  ASSUME NEW a, Shallow(a), NEW b
  PROVE  \E f : /\ \A x \in Parts(a) : f[x] = { y \in Parts(b) : AlikeMembers(x, y, f) }
                /\ AlikeGroups(a, b) <=> b \in f[a]
<1> DEFINE D == Parts(a)
           V == SUBSET Parts(b)
           step == [p \in D \X [D -> V] |-> { y \in Parts(b) : AlikeMembers(p[1], y, p[2]) }]
           F == CHOOSE f : f = [x \in D |-> { y \in Parts(b) : AlikeMembers(x, y, f) }]
<1>1. V # {} /\ step \in [D \X [D -> V] -> V]
  OBVIOUS
<1>2. \A x \in D : \A g \in [D -> V] : step[<<x, g>>] = { y \in Parts(b) : AlikeMembers(x, y, g) }
  OBVIOUS
<1>3. LooksInside(D, V, step)
  <2> SUFFICES ASSUME NEW x \in D, NEW g \in [D -> V], NEW h \in [D -> V],
                      \A y \in Below(x) : g[y] = h[y]
               PROVE  step[<<x, g>>] = step[<<x, h>>]
    BY Zenon DEF LooksInside
  <2> HIDE DEF step, D, V
  <2>1. \A y : AlikeMembers(x, y, g) <=> AlikeMembers(x, y, h)
    BY AlikeMembersLocal
  <2>2. { y \in Parts(b) : AlikeMembers(x, y, g) } = { y \in Parts(b) : AlikeMembers(x, y, h) }
    BY <2>1, Zenon
  <2> QED BY <1>2, <2>2
<1>4. PICK f \in [D -> V] : IsRecursion(f, D, step)
  <2>1. ArePartsOf(D, a)
    BY DEF ArePartsOf
  <2> HIDE DEF step, V, D
  <2> QED BY <1>1, <1>3, <2>1, NestedRecursion
<1>5. f = [x \in D |-> { y \in Parts(b) : AlikeMembers(x, y, f) }]
  <2>1. \A x \in D : f[x] = { y \in Parts(b) : AlikeMembers(x, y, f) }
    <3> HIDE DEF step, V
    <3> QED BY <1>2, <1>4 DEF IsRecursion
  <2> QED BY <2>1
<1>6. F = [x \in D |-> { y \in Parts(b) : AlikeMembers(x, y, F) }]
  BY <1>5, Zenon
<1>7. AlikeGroups(a, b) <=> b \in F[a]
  BY Zenon DEF AlikeGroups
<1> HIDE DEF F
<1>8. \A x \in Parts(a) : F[x] = { y \in Parts(b) : AlikeMembers(x, y, F) }
  BY <1>6
<1> QED BY <1>7, <1>8

LEMMA GroupsAlike ==
  ASSUME NEW a, GroupShape(a), NEW b, GroupShape(b), NEW c \in CanonicalGroup(a)
  PROVE  c \in CanonicalGroup(b) <=> AlikeGroups(a, b)
<1>1. /\ Shallow(a) /\ Shallow(b) /\ a \in Parts(a) /\ b \in Parts(b)
      /\ \A y \in Parts(a) \cup Parts(b) :
           Shallow(y) /\ GroupShape(y) /\ (IsCond(y) \/ OneSided(y))
  BY PartsAreClosed DEF GroupShape
<1>2. PICK f : /\ \A x \in Parts(a) : f[x] = { y \in Parts(b) : AlikeMembers(x, y, f) }
               /\ AlikeGroups(a, b) <=> b \in f[a]
  BY <1>1, AlikeGroupsUnfold
<1> DEFINE Alike(x) == \A y \in Parts(b) : \A u \in CanonicalGroup(x) :
                         u \in CanonicalGroup(y) <=> y \in f[x]
           S == {x \in Parts(a) : Alike(x)}
<1>3. ASSUME NEW x \in Parts(a), Below(x) \subseteq S PROVE x \in S
  <2> SUFFICES ASSUME NEW y \in Parts(b), NEW u \in CanonicalGroup(x)
               PROVE  u \in CanonicalGroup(y) <=> y \in f[x]
    OBVIOUS
  <2>1. y \in f[x] <=> AlikeMembers(x, y, f)
    BY <1>2
  <2>2. /\ IsGroup(u) <=> IsGroup(x)
        /\ u \in CanonicalGroup(y) => (IsGroup(u) <=> IsGroup(y))
    BY <1>1, PartsAreClosed, CanonicalGroups
  <2>3. CASE IsCond(x)
    <3>1. ~ IsGroup(x) /\ u \in CanonicalCondition(x)
      BY <1>1, <2>3, CondOrGroup, CanonicalGroupConditions
    <3>2. AlikeMembers(x, y, f) <=> ~ IsGroup(y) /\ AlikeConditions(x, y)
      BY <3>1 DEF AlikeMembers
    <3>3. ASSUME ~ IsGroup(y) PROVE u \in CanonicalGroup(y) <=> AlikeConditions(x, y)
      <4>1. IsCond(y) /\ CanonicalGroup(y) = CanonicalCondition(y)
        BY <1>1, <3>3, CondOrGroup, CanonicalGroupConditions
      <4> QED BY <2>3, <3>1, <4>1, ConditionsAlike
    <3> QED BY <2>1, <2>2, <3>1, <3>2, <3>3
  <2>4. CASE OneSided(x)
    <3>1. IsGroup(x) /\ IsGroup(u)
      BY <2>2, <2>4, CondOrGroup
    <3>2. AlikeMembers(x, y, f) <=> /\ IsGroup(y)
                                    /\ AlikeSides(x.all, y.all, f) /\ AlikeSides(x.any, y.any, f)
      BY <3>1 DEF AlikeMembers
    <3>3. PICK p \in Sides : \E s : HasSide(x, p, s) /\ IsASeq(s)
      BY <2>4, OneSideOf
    <3>4. PICK s : HasSide(x, p, s) /\ IsASeq(s)
      BY <3>3
    <3>5. CanonicalSide(u, p, s)
      BY <1>1, <2>4, <3>4, CanonicalGroupIsSided
    <3>6. PICK t : /\ HasSide(u, p, t) /\ t = [i \in DOMAIN s |-> t[i]]
                   /\ \A i \in DOMAIN s : t[i] \in CanonicalGroup(s[i])
      BY <3>5 DEF CanonicalSide
    <3>7. \A i \in DOMAIN s : s[i] \in Below(x)
      <4>1. s \in x.all \cup x.any
        BY <3>4 DEF Sides, HasSide
      <4> QED BY <3>1, <4>1, MembersAreInside DEF IsGroup
    <3>8. ASSUME IsGroup(y)
          PROVE  u \in CanonicalGroup(y)
                   <=> AlikeSides(x.all, y.all, f) /\ AlikeSides(x.any, y.any, f)
      <4>1. OneSided(y)
        BY <1>1, <3>8, CondOrGroup
      <4>2. PICK q \in Sides : \E z : HasSide(y, q, z) /\ IsASeq(z)
        BY <4>1, OneSideOf
      <4>3. PICK z : HasSide(y, q, z) /\ IsASeq(z)
        BY <4>2
      <4>4. u \in CanonicalGroup(y) <=> CanonicalSide(u, q, z)
        BY <1>1, <4>1, <4>3, CanonicalGroupIsSided
      <4>5. CASE p # q
        <5>1. ~ CanonicalSide(u, q, z)
          BY <3>6, <4>5 DEF CanonicalSide, HasSide, Sides
        <5>2. ~ (AlikeSides(x.all, y.all, f) /\ AlikeSides(x.any, y.any, f))
          BY <3>4, <4>3, <4>5 DEF AlikeSides, HasSide, Sides
        <5> QED BY <4>4, <5>1, <5>2
      <4>6. CASE p = q
        <5>1. AlikeSides(x.all, y.all, f) /\ AlikeSides(x.any, y.any, f) <=> Itemwise(s, z, f)
          BY <3>4, <4>3, <4>6 DEF AlikeSides, HasSide, Sides
        <5>2. Len(s) = Len(z) <=> DOMAIN s = DOMAIN z
          BY <3>4, <4>3, SameLength
        <5>3. ASSUME DOMAIN s = DOMAIN z, NEW i \in DOMAIN s
              PROVE  t[i] \in CanonicalGroup(z[i]) <=> z[i] \in f[s[i]]
          <6>1. z[i] \in Parts(b)
            <7>1. z \in y.all \cup y.any
              BY <4>3 DEF Sides, HasSide
            <7> QED BY <1>1, <3>8, <5>3, <7>1, MembersAreInside, PartsAreClosed DEF IsGroup
          <6>2. Alike(s[i])
            BY <1>3, <3>7
          <6> QED BY <3>6, <6>1, <6>2
        <5>4. CanonicalSide(u, q, z) <=> /\ t = [i \in DOMAIN z |-> t[i]]
                                         /\ \A i \in DOMAIN z : t[i] \in CanonicalGroup(z[i])
          <6>1. \A v : HasSide(u, q, v) <=> v = t
            BY <3>6, <4>6 DEF HasSide, Sides
          <6> QED BY <3>5, <6>1 DEF CanonicalSide
        <5>5. (t = [i \in DOMAIN z |-> t[i]]) <=> DOMAIN s = DOMAIN z
          BY <3>6
        <5> QED BY <4>4, <5>1, <5>2, <5>3, <5>4, <5>5 DEF Itemwise
      <4> QED BY <4>5, <4>6
    <3> QED BY <2>1, <2>2, <3>1, <3>2, <3>8
  <2> QED BY <1>1, <2>3, <2>4
<1> HIDE DEF S, Alike
<1>4. Parts(a) \subseteq S
  BY <1>1, <1>3, NestingInduction
<1>5. Alike(a)
  BY <1>1, <1>4 DEF S
<1> QED BY <1>1, <1>2, <1>5 DEF Alike

-----------------------------------------------------------------------------
(* Trees.                                                                  *)

(* A canonical node is made of canonical parts.                            *)
CanonicalNodeOf(t, x) ==
  /\ t = [node_id |-> x.node_id, condition |-> t.condition,
          true_branch |-> t.true_branch, false_branch |-> t.false_branch]
  /\ IsNfc(x.node_id) /\ t.condition \in CanonicalCondition(x.condition)
  /\ t.true_branch \in CanonicalEntry(x.true_branch)
  /\ t.false_branch \in CanonicalEntry(x.false_branch)

LEMMA CanonicalEntryIsNode ==
  ASSUME NEW x, IsNodeRecord(x), Shallow(x), NEW t
  PROVE  t \in CanonicalEntry(x) <=> CanonicalNodeOf(t, x)
<1> DEFINE f == [z \in Parts(x) |-> CanonicalEntry(z)]
<1>1. ~ IsLeaf(x)
  BY DEF IsNodeRecord, IsLeaf
<1>2. x.true_branch \in Parts(x) /\ x.false_branch \in Parts(x)
  BY <1>1, BranchesAreBelow, PartsAreClosed
<1>3. f[x.true_branch] = CanonicalEntry(x.true_branch)
      /\ f[x.false_branch] = CanonicalEntry(x.false_branch)
  BY <1>2
<1>4. CanonicalEntry(x) = CanonicalEntryBody(x, f)
  BY CanonicalEntryUnfolds
<1> HIDE DEF f
<1>5. CanonicalEntry(x)
        = CanonicalNode(x, CanonicalEntry(x.true_branch), CanonicalEntry(x.false_branch))
  BY <1>1, <1>3, <1>4 DEF CanonicalEntryBody
<1>6. \A ts, fs : t \in CanonicalNode(x, ts, fs)
        <=> /\ t = [node_id |-> x.node_id, condition |-> t.condition,
                    true_branch |-> t.true_branch, false_branch |-> t.false_branch]
            /\ IsNfc(x.node_id) /\ t.condition \in CanonicalCondition(x.condition)
            /\ t.true_branch \in ts /\ t.false_branch \in fs
  BY DEF CanonicalNode, NfcOnly
<1> QED BY <1>5, <1>6 DEF CanonicalNodeOf

LEMMA CanonicalEntryIsOne ==
  ASSUME NEW r, TreeShape(r), NEW k \in CanonicalEntry(r), NEW l \in CanonicalEntry(r)
  PROVE  k = l
<1> DEFINE One(x) == \A u, v \in CanonicalEntry(x) : u = v
           S == {x \in Parts(r) : One(x)}
<1>1. Shallow(r) /\ r \in Parts(r)
  BY PartsAreClosed DEF TreeShape
<1>2. ASSUME NEW x \in Parts(r), Below(x) \subseteq S PROVE x \in S
  <2> SUFFICES ASSUME NEW u \in CanonicalEntry(x), NEW v \in CanonicalEntry(x) PROVE u = v
    OBVIOUS
  <2>1. Shallow(x) /\ (IsLeafRecord(x) \/ IsNodeRecord(x))
    BY <1>1, PartsAreClosed DEF TreeShape
  <2>2. CASE IsLeafRecord(x)
    BY <2>2, CanonicalLeaves
  <2>3. CASE IsNodeRecord(x)
    <3>1. CanonicalNodeOf(u, x) /\ CanonicalNodeOf(v, x)
      BY <2>1, <2>3, CanonicalEntryIsNode
    <3>2. u.condition = v.condition
      BY <2>3, <3>1, CanonicalConditionIsOne DEF CanonicalNodeOf, IsNodeRecord
    <3>3. x.true_branch \in Below(x) /\ x.false_branch \in Below(x)
      BY <2>3, NodesHoldTheirBranches, InsideIsBelow
    <3>4. One(x.true_branch) /\ One(x.false_branch)
      BY <1>2, <3>3
    <3>5. u.true_branch = v.true_branch /\ u.false_branch = v.false_branch
      BY <3>1, <3>4 DEF CanonicalNodeOf
    <3> QED BY <3>1, <3>2, <3>5 DEF CanonicalNodeOf
  <2> QED BY <2>1, <2>2, <2>3
<1> HIDE DEF S, One
<1>3. Parts(r) \subseteq S
  BY <1>1, <1>2, NestingInduction
<1>4. One(r)
  BY <1>1, <1>3 DEF S
<1> QED BY <1>4 DEF One

LEMMA AlikeTreesUnfold ==
  ASSUME NEW a, Shallow(a), NEW b
  PROVE  \E f : /\ \A x \in Parts(a) : f[x] = { y \in Parts(b) : AlikeEntries(x, y, f) }
                /\ AlikeTrees(a, b) <=> b \in f[a]
<1> DEFINE D == Parts(a)
           V == SUBSET Parts(b)
           step == [p \in D \X [D -> V] |-> { y \in Parts(b) : AlikeEntries(p[1], y, p[2]) }]
           F == CHOOSE f : f = [x \in D |-> { y \in Parts(b) : AlikeEntries(x, y, f) }]
<1>1. V # {} /\ step \in [D \X [D -> V] -> V]
  OBVIOUS
<1>2. \A x \in D : \A g \in [D -> V] : step[<<x, g>>] = { y \in Parts(b) : AlikeEntries(x, y, g) }
  OBVIOUS
<1>3. LooksInside(D, V, step)
  <2> SUFFICES ASSUME NEW x \in D, NEW g \in [D -> V], NEW h \in [D -> V],
                      \A y \in Below(x) : g[y] = h[y]
               PROVE  step[<<x, g>>] = step[<<x, h>>]
    BY Zenon DEF LooksInside
  <2> HIDE DEF step, D, V
  <2>1. \A y : AlikeEntries(x, y, g) <=> AlikeEntries(x, y, h)
    <3>1. ~ IsLeaf(x) => g[x.true_branch] = h[x.true_branch] /\ g[x.false_branch] = h[x.false_branch]
      BY BranchesAreBelow
    <3> QED BY <3>1, Zenon DEF AlikeEntries
  <2>2. { y \in Parts(b) : AlikeEntries(x, y, g) } = { y \in Parts(b) : AlikeEntries(x, y, h) }
    BY <2>1, Zenon
  <2> QED BY <1>2, <2>2
<1>4. PICK f \in [D -> V] : IsRecursion(f, D, step)
  <2>1. ArePartsOf(D, a)
    BY DEF ArePartsOf
  <2> HIDE DEF step, V, D
  <2> QED BY <1>1, <1>3, <2>1, NestedRecursion
<1>5. f = [x \in D |-> { y \in Parts(b) : AlikeEntries(x, y, f) }]
  <2>1. \A x \in D : f[x] = { y \in Parts(b) : AlikeEntries(x, y, f) }
    <3> HIDE DEF step, V
    <3> QED BY <1>2, <1>4 DEF IsRecursion
  <2> QED BY <2>1
<1>6. F = [x \in D |-> { y \in Parts(b) : AlikeEntries(x, y, F) }]
  BY <1>5, Zenon
<1>7. AlikeTrees(a, b) <=> b \in F[a]
  BY Zenon DEF AlikeTrees
<1> HIDE DEF F
<1>8. \A x \in Parts(a) : F[x] = { y \in Parts(b) : AlikeEntries(x, y, F) }
  BY <1>6
<1> QED BY <1>7, <1>8

LEMMA TreesAlike ==
  ASSUME NEW a, TreeShape(a), NEW b, TreeShape(b), NEW c \in CanonicalEntry(a)
  PROVE  c \in CanonicalEntry(b) <=> AlikeTrees(a, b)
<1>1. /\ Shallow(a) /\ Shallow(b) /\ a \in Parts(a) /\ b \in Parts(b)
      /\ \A y \in Parts(a) \cup Parts(b) : Shallow(y) /\ (IsLeafRecord(y) \/ IsNodeRecord(y))
  BY PartsAreClosed DEF TreeShape
<1>2. PICK f : /\ \A x \in Parts(a) : f[x] = { y \in Parts(b) : AlikeEntries(x, y, f) }
               /\ AlikeTrees(a, b) <=> b \in f[a]
  BY <1>1, AlikeTreesUnfold
<1> DEFINE Alike(x) == \A y \in Parts(b) : \A u \in CanonicalEntry(x) :
                         u \in CanonicalEntry(y) <=> y \in f[x]
           S == {x \in Parts(a) : Alike(x)}
<1>3. ASSUME NEW x \in Parts(a), Below(x) \subseteq S PROVE x \in S
  <2> SUFFICES ASSUME NEW y \in Parts(b), NEW u \in CanonicalEntry(x)
               PROVE  u \in CanonicalEntry(y) <=> y \in f[x]
    OBVIOUS
  <2>1. y \in f[x] <=> AlikeEntries(x, y, f)
    BY <1>2
  <2>2. CASE IsLeafRecord(x)
    <3>1. IsLeaf(x) /\ u = x
      BY <2>2, LeavesHoldNothing, CanonicalLeaves
    <3>2. AlikeEntries(x, y, f) <=> x = y
      BY <3>1 DEF AlikeEntries
    <3>3. ASSUME u \in CanonicalEntry(y) PROVE u = y
      <4>1. CASE IsLeafRecord(y)
        BY <3>3, <4>1, CanonicalLeaves
      <4>2. CASE IsNodeRecord(y)
        <5>1. IsNodeRecord(u)
          BY <1>1, <3>3, <4>2, CanonicalNodes
        <5> QED BY <2>2, <3>1, <5>1 DEF IsNodeRecord, IsLeafRecord
      <4> QED BY <1>1, <4>1, <4>2
    <3> QED BY <2>1, <3>1, <3>2, <3>3
  <2>3. CASE IsNodeRecord(x)
    <3>1. ~ IsLeaf(x) /\ CanonicalNodeOf(u, x)
      BY <1>1, <2>3, CanonicalEntryIsNode DEF IsNodeRecord, IsLeaf
    <3>2. AlikeEntries(x, y, f) <=> /\ ~ IsLeaf(y) /\ x.node_id = y.node_id
                                    /\ AlikeConditions(x.condition, y.condition)
                                    /\ y.true_branch \in f[x.true_branch]
                                    /\ y.false_branch \in f[x.false_branch]
      BY <3>1, Zenon DEF AlikeEntries
    <3>3. CASE IsLeafRecord(y)
      <4>1. IsLeaf(y) /\ (u \in CanonicalEntry(y) => u = y)
        BY <3>3, LeavesHoldNothing, CanonicalLeaves
      <4>2. u # y
        BY <3>1, <3>3 DEF CanonicalNodeOf, IsLeafRecord
      <4> QED BY <2>1, <3>2, <4>1, <4>2
    <3>4. CASE IsNodeRecord(y)
      <4>1. ~ IsLeaf(y) /\ (u \in CanonicalEntry(y) <=> CanonicalNodeOf(u, y))
        BY <1>1, <3>4, CanonicalEntryIsNode DEF IsNodeRecord, IsLeaf
      <4>2. u.condition \in CanonicalCondition(y.condition)
              <=> AlikeConditions(x.condition, y.condition)
        BY <2>3, <3>1, <3>4, ConditionsAlike DEF CanonicalNodeOf, IsNodeRecord
      <4>3. /\ x.true_branch \in Below(x) /\ x.false_branch \in Below(x)
            /\ y.true_branch \in Inside(y) /\ y.false_branch \in Inside(y)
        BY <2>3, <3>4, NodesHoldTheirBranches, InsideIsBelow
      <4>4. y.true_branch \in Parts(b) /\ y.false_branch \in Parts(b)
        BY <1>1, <4>3, PartsAreClosed
      <4>5. Alike(x.true_branch) /\ Alike(x.false_branch)
        BY <1>3, <4>3
      <4>6. u.true_branch \in CanonicalEntry(y.true_branch)
              <=> y.true_branch \in f[x.true_branch]
        BY <3>1, <4>4, <4>5 DEF CanonicalNodeOf
      <4>7. u.false_branch \in CanonicalEntry(y.false_branch)
              <=> y.false_branch \in f[x.false_branch]
        BY <3>1, <4>4, <4>5 DEF CanonicalNodeOf
      <4> HIDE DEF Alike
      <4>8. CanonicalNodeOf(u, y)
              <=> /\ x.node_id = y.node_id
                  /\ u.condition \in CanonicalCondition(y.condition)
                  /\ u.true_branch \in CanonicalEntry(y.true_branch)
                  /\ u.false_branch \in CanonicalEntry(y.false_branch)
        BY <3>1 DEF CanonicalNodeOf
      <4> QED BY <2>1, <3>2, <4>1, <4>2, <4>6, <4>7, <4>8
    <3> QED BY <1>1, <3>3, <3>4
  <2> QED BY <1>1, <2>2, <2>3
<1> HIDE DEF S, Alike
<1>4. Parts(a) \subseteq S
  BY <1>1, <1>3, NestingInduction
<1>5. Alike(a)
  BY <1>1, <1>4 DEF S
<1> QED BY <1>1, <1>2, <1>5 DEF Alike

-----------------------------------------------------------------------------
(* Tags.                                                                   *)

(* A permutation of 1 .. n that keeps the order leaves all in its place.   *)
LEMMA IncreasingIsAbove ==
  ASSUME NEW n \in Nat, NEW f \in [1 .. n -> 1 .. n],
         \A i, j \in 1 .. n : i < j => f[i] < f[j]
  PROVE  \A i \in 1 .. n : f[i] >= i
<1> DEFINE S == {i \in Nat : i \in 1 .. n => f[i] >= i}
<1>1. 0 \in S
  OBVIOUS
<1>2. ASSUME NEW i \in Nat, i \in S PROVE i + 1 \in S
  <2> SUFFICES ASSUME i + 1 \in 1 .. n PROVE f[i + 1] >= i + 1
    OBVIOUS
  <2>1. CASE i = 0
    BY <2>1
  <2>2. CASE i # 0
    <3>1. i \in 1 .. n /\ i < i + 1
      BY <2>2
    <3>2. f[i] >= i /\ f[i] < f[i + 1] /\ f[i] \in Int /\ f[i + 1] \in Int
      BY <1>2, <3>1
    <3> QED BY <3>2
  <2> QED BY <2>1, <2>2
<1> HIDE DEF S
<1>3. Nat \subseteq S
  BY <1>1, <1>2, NatSetInduction
<1> QED BY <1>3 DEF S

Ascending(s) == \A i, j \in DOMAIN s : i < j => TagRank[s[i]] < TagRank[s[j]]

Ranked(s) == \A i \in DOMAIN s : TagRank[s[i]] \in Int

(* A set of tags has one arrangement.                                      *)
LEMMA CanonicalSetIsOne ==
  ASSUME NEW tags, IsASeq(tags), Ranked(tags),
         NEW s \in CanonicalSet(tags), NEW t \in CanonicalSet(tags)
  PROVE  s = t
<1>1. PICK n \in Nat : DOMAIN tags = 1 .. n
  BY DEF IsASeq
<1> DEFINE D == 1 .. n
<1>2. PICK p \in Bijection(D, D) : s = [i \in D |-> tags[p[i]]]
  BY <1>1 DEF CanonicalSet
<1>3. PICK q \in Bijection(D, D) : t = [i \in D |-> tags[q[i]]]
  BY <1>1 DEF CanonicalSet
<1>4. DOMAIN s = D /\ DOMAIN t = D
  BY <1>2, <1>3
<1>5. Ascending(s) /\ Ascending(t)
  BY DEF CanonicalSet, Ascending
<1>6. p \in [D -> D] /\ q \in [D -> D]
  BY Fun_BijectionProperties
<1>7. /\ \A i \in D : TagRank[s[i]] \in Int
      /\ \A i \in D : TagRank[t[i]] \in Int
  BY <1>1, <1>2, <1>3, <1>6 DEF Ranked
  (* Where in s what t has at a place is, and the other way round.           *)
<1> DEFINE there == [i \in D |-> Inverse(p, D, D)[q[i]]]
           back  == [i \in D |-> Inverse(q, D, D)[p[i]]]
<1>8. /\ Inverse(p, D, D) \in [D -> D] /\ \A i \in D : p[Inverse(p, D, D)[i]] = i
      /\ Inverse(q, D, D) \in [D -> D] /\ \A i \in D : q[Inverse(q, D, D)[i]] = i
      /\ \A i \in D : Inverse(p, D, D)[p[i]] = i
      /\ \A i \in D : Inverse(q, D, D)[q[i]] = i
  <2>1. ASSUME NEW f \in Bijection(D, D)
        PROVE  /\ Inverse(f, D, D) \in [D -> D] /\ \A i \in D : f[Inverse(f, D, D)[i]] = i
               /\ \A i \in D : Inverse(f, D, D)[f[i]] = i
    <3>1. /\ Inverse(f, D, D) \in Bijection(D, D)
          /\ \A i \in D : Inverse(f, D, D)[f[i]] = i
      BY Fun_BijInverse
    <3> HIDE DEF D
    <3>2. f \in [D -> D] /\ \A j \in D : \E i \in D : f[i] = j
      BY <2>1, Fun_BijectionProperties
    <3>3. Inverse(f, D, D) \in [D -> D]
      BY <3>1, Fun_BijectionProperties
    <3> QED BY <3>1, <3>2, <3>3
  <2> QED BY <2>1
<1> DEFINE ip == Inverse(p, D, D)
           iq == Inverse(q, D, D)
<1> HIDE DEF ip, iq
<1>9. /\ there \in [D -> D] /\ back \in [D -> D]
      /\ \A i \in D : there[i] = ip[q[i]] /\ back[i] = iq[p[i]]
      /\ ip \in [D -> D] /\ iq \in [D -> D]
      /\ \A i \in D : p[ip[i]] = i /\ q[iq[i]] = i /\ ip[p[i]] = i /\ iq[q[i]] = i
  BY <1>6, <1>8 DEF ip, iq
<1> HIDE DEF there, back
<1>10. \A i \in D : s[there[i]] = t[i] /\ t[back[i]] = s[i] /\ there[back[i]] = i
  <2> TAKE i \in D
  <2>1. p[i] \in D /\ q[i] \in D /\ there[i] \in D /\ back[i] \in D
    BY <1>6, <1>9
  <2>2. p[there[i]] = q[i] /\ q[back[i]] = p[i] /\ there[back[i]] = ip[p[i]]
    <3>1. there[i] = ip[q[i]] /\ back[i] = iq[p[i]] /\ there[back[i]] = ip[q[back[i]]]
      BY <1>9, <2>1
    <3>2. p[ip[q[i]]] = q[i] /\ q[iq[p[i]]] = p[i]
      BY <1>9, <2>1
    <3> QED BY <3>1, <3>2, Zenon
  <2>3. /\ s[there[i]] = tags[p[there[i]]] /\ t[i] = tags[q[i]]
        /\ t[back[i]] = tags[q[back[i]]] /\ s[i] = tags[p[i]]
    BY <1>2, <1>3, <2>1
  <2> QED BY <1>9, <2>2, <2>3
<1>11. ASSUME NEW u, NEW v, NEW f \in [D -> D], DOMAIN u = D, DOMAIN v = D,
              Ascending(u), Ascending(v), \A i \in D : u[f[i]] = v[i],
              \A i \in D : TagRank[u[i]] \in Int, NEW i \in D, NEW j \in D, i < j
       PROVE  f[i] < f[j]
  <2>1. TagRank[v[i]] < TagRank[v[j]]
    BY <1>11 DEF Ascending
  <2>2. TagRank[u[f[i]]] < TagRank[u[f[j]]]
    BY <1>11, <2>1
  <2> DEFINE a == f[i]
             b == f[j]
  <2>3. a \in D /\ b \in D
    OBVIOUS
  <2>4. TagRank[u[a]] < TagRank[u[b]] /\ TagRank[u[a]] \in Int /\ TagRank[u[b]] \in Int
    BY <1>11, <2>2, <2>3
  <2>5. ASSUME b < a PROVE FALSE
    <3>1. TagRank[u[b]] < TagRank[u[a]]
      BY <1>11, <2>3, <2>5 DEF Ascending
    <3> QED BY <2>4, <3>1
  <2>6. a # b
    BY <2>4
  <2> HIDE DEF a, b
  <2>7. a < b
    BY <2>3, <2>5, <2>6
  <2> QED BY <2>7 DEF a, b
<1>12. \A i, j \in D : i < j => there[i] < there[j]
  BY <1>4, <1>5, <1>7, <1>9, <1>10, <1>11
<1>13. \A i, j \in D : i < j => back[i] < back[j]
  BY <1>4, <1>5, <1>7, <1>9, <1>10, <1>11
<1>14. \A i \in D : there[i] >= i
  BY <1>9, <1>12, IncreasingIsAbove
<1>15. \A i \in D : back[i] >= i
  BY <1>9, <1>13, IncreasingIsAbove
<1>16. \A i \in D : back[i] = i
  <2> TAKE i \in D
  <2>1. there[back[i]] = i /\ back[i] \in D /\ there[back[i]] >= back[i] /\ back[i] >= i
    BY <1>9, <1>10, <1>14, <1>15
  <2> QED BY <2>1
<1>17. \A i \in D : t[i] = s[i]
  BY <1>10, <1>16
<1> QED BY <1>2, <1>3, <1>17

(* An arrangement of one sequence of tags is one of those it shares its    *)
(* tags with, and of no other.                                             *)
LEMMA TagSetsAlike ==
  ASSUME NEW a, IsASeq(a), NEW b, IsASeq(b), NEW s \in CanonicalSet(a)
  PROVE  s \in CanonicalSet(b) <=> SameTags(a, b)
<1> DEFINE D == DOMAIN a
           E == DOMAIN b
<1>1. PICK p \in Bijection(D, D) : s = [i \in D |-> a[p[i]]]
  BY DEF CanonicalSet
<1>2. \A i, j \in DOMAIN s : i < j => TagRank[s[i]] < TagRank[s[j]]
  BY DEF CanonicalSet
<1>3. ASSUME s \in CanonicalSet(b) PROVE SameTags(a, b)
  <2>1. PICK q \in Bijection(E, E) : s = [i \in E |-> b[q[i]]]
    BY <1>3 DEF CanonicalSet
  <2>2. D = E
    BY <1>1, <2>1
  <2>3. Inverse(p, D, D) \in Bijection(D, D) /\ \A i \in D : Inverse(p, D, D)[p[i]] = i
    BY Fun_BijInverse
  <2> DEFINE ip == Inverse(p, D, D)
             f == [i \in D |-> q[ip[i]]]
  <2>4. f \in Bijection(D, D)
    BY <2>1, <2>2, <2>3, Fun_BijTransitive
  <2>5. \A i \in D : p[ip[i]] = i /\ ip[i] \in D
    <3>1. \A i \in D : \E j \in D : p[j] = i
      BY Fun_BijectionProperties
    <3>2. ip \in [D -> D]
      BY <2>3, Fun_BijectionProperties
    <3> HIDE DEF ip, D
    <3> QED BY <2>3, <3>1, <3>2 DEF ip
  <2> HIDE DEF ip
  <2>6. \A i \in D : b[f[i]] = a[i]
    BY <1>1, <2>1, <2>2, <2>5
  <2> HIDE DEF f
  <2> QED BY <2>2, <2>4, <2>6 DEF SameTags
<1>4. ASSUME SameTags(a, b) PROVE s \in CanonicalSet(b)
  <2>1. PICK f \in Bijection(D, E) : \A i \in D : b[f[i]] = a[i]
    BY <1>4 DEF SameTags
  <2>2. PICK n \in Nat : D = 1 .. n
    BY DEF IsASeq
  <2>3. PICK m \in Nat : E = 1 .. m
    BY DEF IsASeq
  <2>4. D = E
    <3>1. ExistsBijection(1 .. n, E) /\ ExistsBijection(1 .. m, E)
      BY <2>1, <2>2, <2>3, Fun_ExistsBijReflexive DEF ExistsBijection
    <3>2. n = m
      BY <3>1, Fun_NatBijSame
    <3> QED BY <2>2, <2>3, <3>2
  <2> DEFINE g == [i \in D |-> f[p[i]]]
  <2>5. g \in Bijection(E, E)
    BY <2>1, <2>4, Fun_BijTransitive
  <2>6. p \in [D -> D]
    BY Fun_BijectionProperties
  <2>7. s = [i \in E |-> b[g[i]]]
    BY <1>1, <2>1, <2>4, <2>6
  <2> HIDE DEF g, D, E
  <2> QED BY <1>2, <2>5, <2>7 DEF CanonicalSet, E
<1> QED BY <1>3, <1>4

(* A rule's tags, in a sequence if it has any; the encoder arranges them   *)
(* if they are NFC, and has an order for those.                            *)
TagsShape(opt) ==
  \/ opt = {}
  \/ \E tags : /\ IsASeq(tags) /\ opt = {tags}
               /\ \A k \in DOMAIN tags : IsNfc(tags[k]) => TagRank[tags[k]] \in Int

LEMMA CanonicalTagsOf ==
  ASSUME NEW opt, NEW tags, opt = {tags}, NEW u
  PROVE  u \in CanonicalTags(opt)
           <=> /\ \A i \in DOMAIN tags : IsNfc(tags[i])
               /\ \E s \in CanonicalSet(tags) : u = {s}
<1>1. (CHOOSE t \in {tags} : TRUE) = tags /\ opt # {}
  OBVIOUS
<1>2. CanonicalTags(opt) = IF \A i \in DOMAIN tags : IsNfc(tags[i])
                           THEN { {s} : s \in CanonicalSet(tags) } ELSE {}
  BY <1>1, Zenon DEF CanonicalTags
<1> QED BY <1>2

LEMMA CanonicalTagsIsOne ==
  ASSUME NEW opt, TagsShape(opt), NEW u \in CanonicalTags(opt), NEW v \in CanonicalTags(opt)
  PROVE  u = v
<1>1. CASE opt = {}
  BY <1>1 DEF CanonicalTags
<1>2. CASE opt # {}
  <2>1. PICK tags : /\ IsASeq(tags) /\ opt = {tags}
                    /\ \A k \in DOMAIN tags : IsNfc(tags[k]) => TagRank[tags[k]] \in Int
    BY <1>2 DEF TagsShape
  <2>2. Ranked(tags)
    BY <2>1, CanonicalTagsOf DEF Ranked
  <2>3. \E s, t \in CanonicalSet(tags) : u = {s} /\ v = {t}
    BY <2>1, CanonicalTagsOf
  <2> QED BY <2>1, <2>2, <2>3, CanonicalSetIsOne
<1> QED BY <1>1, <1>2

AlikeTags(o, p) == (o = {} <=> p = {}) /\ \A s \in o, t \in p : SameTags(s, t)

LEMMA TagsAlike ==
  ASSUME NEW o, TagsShape(o), NEW p, TagsShape(p), NEW u \in CanonicalTags(o)
  PROVE  u \in CanonicalTags(p) <=> AlikeTags(o, p)
<1>1. CASE o = {} /\ p = {}
  BY <1>1 DEF AlikeTags
<1>2. CASE o # {} /\ p = {}
  <2>1. u # {}
    <3>1. PICK a : o = {a}
      BY <1>2 DEF TagsShape
    <3>2. \E s : u = {s}
      BY <3>1, CanonicalTagsOf
    <3> QED BY <3>2
  <2>2. u \notin CanonicalTags(p)
    BY <1>2, <2>1 DEF CanonicalTags
  <2> QED BY <1>2, <2>2 DEF AlikeTags
<1>3. CASE o = {} /\ p # {}
  <2>1. u = {}
    BY <1>3 DEF CanonicalTags
  <2>2. u \notin CanonicalTags(p)
    <3>1. PICK b : p = {b}
      BY <1>3 DEF TagsShape
    <3>2. u \in CanonicalTags(p) => \E s : u = {s}
      BY <3>1, CanonicalTagsOf
    <3> QED BY <2>1, <3>2
  <2> QED BY <1>3, <2>2 DEF AlikeTags
<1>4. CASE o # {} /\ p # {}
  <2>1. PICK a : IsASeq(a) /\ o = {a}
    BY <1>4 DEF TagsShape
  <2>2. PICK b : IsASeq(b) /\ p = {b}
    BY <1>4 DEF TagsShape
  <2>3. (\A i \in DOMAIN a : IsNfc(a[i])) /\ \E s \in CanonicalSet(a) : u = {s}
    BY <2>1, CanonicalTagsOf
  <2>4. PICK s \in CanonicalSet(a) : u = {s}
    BY <2>3
  <2>5. s \in CanonicalSet(b) <=> SameTags(a, b)
    BY <2>1, <2>2, <2>4, TagSetsAlike
  <2>6. SameTags(a, b) => \A i \in DOMAIN b : IsNfc(b[i])
    <3> SUFFICES ASSUME SameTags(a, b), NEW i \in DOMAIN b PROVE IsNfc(b[i])
      OBVIOUS
    <3>1. PICK f \in Bijection(DOMAIN a, DOMAIN b) : \A j \in DOMAIN a : b[f[j]] = a[j]
      BY DEF SameTags
    <3>2. PICK j \in DOMAIN a : f[j] = i
      BY <3>1, Fun_BijectionProperties
    <3> QED BY <2>3, <3>1, <3>2
  <2>7. u \in CanonicalTags(p) <=> (\A i \in DOMAIN b : IsNfc(b[i])) /\ s \in CanonicalSet(b)
    BY <2>2, <2>4, CanonicalTagsOf
  <2>8. AlikeTags(o, p) <=> SameTags(a, b)
    BY <2>1, <2>2 DEF AlikeTags
  <2> QED BY <2>5, <2>6, <2>7, <2>8
<1> QED BY <1>1, <1>2, <1>3, <1>4

-----------------------------------------------------------------------------
(* Rules and rule sets.                                                    *)

(* What a rule applies by: one group, or nothing.                          *)
GroupsShape(opt) == opt = {} \/ \E g : GroupShape(g) /\ opt = {g}

LEMMA CanonicalApplicabilityOf ==
  ASSUME NEW opt, NEW g, opt = {g}, NEW u
  PROVE  u \in CanonicalApplicability(opt) <=> \E h \in CanonicalGroup(g) : u = {h}
<1>1. (CHOOSE z \in {g} : TRUE) = g /\ opt # {}
  OBVIOUS
<1>2. CanonicalApplicability(opt) = { {h} : h \in CanonicalGroup(g) }
  BY <1>1, Zenon DEF CanonicalApplicability
<1> QED BY <1>2

LEMMA CanonicalApplicabilityIsOne ==
  ASSUME NEW opt, GroupsShape(opt),
         NEW u \in CanonicalApplicability(opt), NEW v \in CanonicalApplicability(opt)
  PROVE  u = v
<1>1. CASE opt = {}
  BY <1>1 DEF CanonicalApplicability
<1>2. CASE opt # {}
  <2>1. PICK g : GroupShape(g) /\ opt = {g}
    BY <1>2 DEF GroupsShape
  <2>2. \E h, k \in CanonicalGroup(g) : u = {h} /\ v = {k}
    BY <2>1, CanonicalApplicabilityOf
  <2> QED BY <2>1, <2>2, CanonicalGroupIsOne
<1> QED BY <1>1, <1>2

AlikeApplicability(o, p) == (o = {} <=> p = {}) /\ \A g \in o, h \in p : AlikeGroups(g, h)

LEMMA ApplicabilityAlike ==
  ASSUME NEW o, GroupsShape(o), NEW p, GroupsShape(p), NEW u \in CanonicalApplicability(o)
  PROVE  u \in CanonicalApplicability(p) <=> AlikeApplicability(o, p)
<1>1. CASE o = {} /\ p = {}
  BY <1>1 DEF AlikeApplicability
<1>2. CASE o # {} /\ p = {}
  <2>1. u # {}
    <3>1. PICK g : o = {g}
      BY <1>2 DEF GroupsShape
    <3>2. \E h : u = {h}
      BY <3>1, CanonicalApplicabilityOf
    <3> QED BY <3>2
  <2>2. u \notin CanonicalApplicability(p)
    BY <1>2, <2>1 DEF CanonicalApplicability
  <2> QED BY <1>2, <2>2 DEF AlikeApplicability
<1>3. CASE o = {} /\ p # {}
  <2>1. u = {}
    BY <1>3 DEF CanonicalApplicability
  <2>2. u \notin CanonicalApplicability(p)
    <3>1. PICK h : p = {h}
      BY <1>3 DEF GroupsShape
    <3>2. u \in CanonicalApplicability(p) => \E c : u = {c}
      BY <3>1, CanonicalApplicabilityOf
    <3> QED BY <2>1, <3>2
  <2> QED BY <1>3, <2>2 DEF AlikeApplicability
<1>4. CASE o # {} /\ p # {}
  <2>1. PICK g : GroupShape(g) /\ o = {g}
    BY <1>4 DEF GroupsShape
  <2>2. PICK h : GroupShape(h) /\ p = {h}
    BY <1>4 DEF GroupsShape
  <2>3. PICK c \in CanonicalGroup(g) : u = {c}
    BY <2>1, CanonicalApplicabilityOf
  <2>4. u \in CanonicalApplicability(p) <=> c \in CanonicalGroup(h)
    BY <2>2, <2>3, CanonicalApplicabilityOf
  <2>5. AlikeApplicability(o, p) <=> AlikeGroups(g, h)
    BY <2>1, <2>2 DEF AlikeApplicability
  <2> QED BY <2>1, <2>2, <2>3, <2>4, <2>5, GroupsAlike
<1> QED BY <1>1, <1>2, <1>3, <1>4

(* The fields the encoder may write in another way.                        *)
Spelled == { "tags", "applies_if", "decision_tree" }

LEMMA RulesWithTheSame ==
  ASSUME NEW r, DOMAIN r = RuleFields, NEW q, DOMAIN q = RuleFields, NEW a, NEW b, NEW c
  PROVE  RuleWith(r, a, b, c, r.window) = RuleWith(q, a, b, c, q.window)
           <=> \A f \in RuleFields \ Spelled : r[f] = q[f]
<1> DEFINE R == RuleWith(r, a, b, c, r.window)
           Q == RuleWith(q, a, b, c, q.window)
<1>1. /\ R = [f \in RuleFields |-> R[f]] /\ Q = [f \in RuleFields |-> Q[f]]
      /\ R.tags = a /\ R.applies_if = b /\ R.decision_tree = c
      /\ Q.tags = a /\ Q.applies_if = b /\ Q.decision_tree = c
      /\ \A f \in RuleFields \ Spelled : R[f] = r[f] /\ Q[f] = q[f]
  BY DEF RuleWith, RuleFields, Spelled
<1> HIDE DEF R, Q
<1>2. RuleFields = Spelled \cup (RuleFields \ Spelled)
  BY DEF RuleFields, Spelled
<1>3. R = Q <=> \A f \in RuleFields : R[f] = Q[f]
  BY <1>1
<1>4. \A f \in Spelled : R[f] = Q[f]
  BY <1>1 DEF Spelled
<1>5. R = Q <=> \A f \in RuleFields \ Spelled : r[f] = q[f]
  BY <1>1, <1>2, <1>3, <1>4
<1> QED BY <1>5 DEF R, Q

(* A canonical rule is made of canonical parts.                            *)
LEMMA CanonicalRuleOf ==
  ASSUME NEW r, DOMAIN r = RuleFields, NEW u
  PROVE  u \in CanonicalRule(r)
           <=> /\ TextsAreNfc(r) /\ r.window \in CanonicalWindow(r.window)
               /\ u = RuleWith(r, u.tags, u.applies_if, u.decision_tree, r.window)
               /\ u.tags \in CanonicalTags(r.tags)
               /\ u.applies_if \in CanonicalApplicability(r.applies_if)
               /\ u.decision_tree \in CanonicalEntry(r.decision_tree)
<1> DEFINE tags == CanonicalTags(r.tags)
           groups == CanonicalApplicability(r.applies_if)
           trees == CanonicalEntry(r.decision_tree)
           windows == CanonicalWindow(r.window)
<1>1. u \in CanonicalRule(r)
        <=> /\ TextsAreNfc(r)
            /\ \E a \in tags, b \in groups, c \in trees, w \in windows :
                 u = RuleWith(r, a, b, c, w)
  BY DEF CanonicalRule
<1>2. \A w \in windows : w = r.window
  BY DEF CanonicalWindow
<1> HIDE DEF tags, groups, trees, windows
<1>3. \A a, b, c, w : /\ RuleWith(r, a, b, c, w).tags = a
                      /\ RuleWith(r, a, b, c, w).applies_if = b
                      /\ RuleWith(r, a, b, c, w).decision_tree = c
  BY DEF RuleWith, RuleFields
<1>4. (\E a \in tags, b \in groups, c \in trees, w \in windows : u = RuleWith(r, a, b, c, w))
        <=> /\ r.window \in windows
            /\ u = RuleWith(r, u.tags, u.applies_if, u.decision_tree, r.window)
            /\ u.tags \in tags /\ u.applies_if \in groups /\ u.decision_tree \in trees
  <2>1. ASSUME NEW a \in tags, NEW b \in groups, NEW c \in trees, NEW w \in windows,
               u = RuleWith(r, a, b, c, w)
        PROVE  /\ r.window \in windows
               /\ u = RuleWith(r, u.tags, u.applies_if, u.decision_tree, r.window)
               /\ u.tags \in tags /\ u.applies_if \in groups /\ u.decision_tree \in trees
    <3>1. w = r.window /\ u.tags = a /\ u.applies_if = b /\ u.decision_tree = c
      BY <1>2, <1>3, <2>1
    <3> QED BY <2>1, <3>1, Zenon
  <2> QED BY <2>1, Zenon
<1> QED BY <1>1, <1>4 DEF tags, groups, trees, windows

(* A rule as the compiler makes it.                                        *)
RuleShape(r) ==
  /\ DOMAIN r = RuleFields
  /\ TagsShape(r.tags) /\ GroupsShape(r.applies_if) /\ TreeShape(r.decision_tree)

LEMMA CanonicalRuleIsOne ==
  ASSUME NEW r, RuleShape(r), NEW u \in CanonicalRule(r), NEW v \in CanonicalRule(r)
  PROVE  u = v
<1>1. /\ u = RuleWith(r, u.tags, u.applies_if, u.decision_tree, r.window)
      /\ v = RuleWith(r, v.tags, v.applies_if, v.decision_tree, r.window)
      /\ u.tags \in CanonicalTags(r.tags) /\ v.tags \in CanonicalTags(r.tags)
      /\ u.applies_if \in CanonicalApplicability(r.applies_if)
      /\ v.applies_if \in CanonicalApplicability(r.applies_if)
      /\ u.decision_tree \in CanonicalEntry(r.decision_tree)
      /\ v.decision_tree \in CanonicalEntry(r.decision_tree)
  BY CanonicalRuleOf DEF RuleShape
<1>2. u.tags = v.tags
  BY <1>1, CanonicalTagsIsOne DEF RuleShape
<1>3. u.applies_if = v.applies_if
  BY <1>1, CanonicalApplicabilityIsOne DEF RuleShape
<1>4. u.decision_tree = v.decision_tree
  BY <1>1, CanonicalEntryIsOne DEF RuleShape
<1> QED BY <1>1, <1>2, <1>3, <1>4

(* What a rule is encoded as is what any rule spelled in another way is    *)
(* encoded as, and no other rule.                                          *)
LEMMA RulesAlike ==
  ASSUME NEW r, RuleShape(r), NEW q, RuleShape(q), NEW u \in CanonicalRule(r)
  PROVE  u \in CanonicalRule(q) <=> AlikeRules(r, q)
<1>1. /\ TextsAreNfc(r) /\ r.window \in CanonicalWindow(r.window)
      /\ u = RuleWith(r, u.tags, u.applies_if, u.decision_tree, r.window)
      /\ u.tags \in CanonicalTags(r.tags)
      /\ u.applies_if \in CanonicalApplicability(r.applies_if)
      /\ u.decision_tree \in CanonicalEntry(r.decision_tree)
  BY CanonicalRuleOf DEF RuleShape
<1> DEFINE Same == \A f \in RuleFields \ Spelled : r[f] = q[f]
<1>2. \A a, b, c :
        RuleWith(r, a, b, c, r.window) = RuleWith(q, a, b, c, q.window) <=> Same
  <2>1. DOMAIN r = RuleFields /\ DOMAIN q = RuleFields
    BY DEF RuleShape
  <2> QED BY <2>1, RulesWithTheSame, Zenon
<1>3. u = RuleWith(q, u.tags, u.applies_if, u.decision_tree, q.window) <=> Same
  <2> HIDE DEF Same
  <2>1. RuleWith(r, u.tags, u.applies_if, u.decision_tree, r.window)
          = RuleWith(q, u.tags, u.applies_if, u.decision_tree, q.window) <=> Same
    BY <1>2, Zenon
  <2> QED BY <1>1, <2>1, Zenon
<1>4. Same => TextsAreNfc(q) /\ q.window \in CanonicalWindow(q.window)
  <2> SUFFICES ASSUME Same PROVE TextsAreNfc(q) /\ q.window \in CanonicalWindow(q.window)
    OBVIOUS
  <2>1. /\ q.rule_id = r.rule_id /\ q.rule_version = r.rule_version
        /\ q.description = r.description /\ q.interpretation_notes = r.interpretation_notes
        /\ q.document_id = r.document_id /\ q.citation = r.citation
        /\ q.obligations = r.obligations /\ q.window = r.window
    BY DEF RuleFields, Spelled
  <2> QED BY <1>1, <2>1 DEF TextsAreNfc, Prose
<1>5. u.tags \in CanonicalTags(q.tags) <=> AlikeTags(r.tags, q.tags)
  BY <1>1, TagsAlike DEF RuleShape
<1>6. u.applies_if \in CanonicalApplicability(q.applies_if)
        <=> AlikeApplicability(r.applies_if, q.applies_if)
  BY <1>1, ApplicabilityAlike DEF RuleShape
<1>7. u.decision_tree \in CanonicalEntry(q.decision_tree)
        <=> AlikeTrees(r.decision_tree, q.decision_tree)
  BY <1>1, TreesAlike DEF RuleShape
<1>8. u \in CanonicalRule(q)
        <=> /\ TextsAreNfc(q) /\ q.window \in CanonicalWindow(q.window)
            /\ u = RuleWith(q, u.tags, u.applies_if, u.decision_tree, q.window)
            /\ u.tags \in CanonicalTags(q.tags)
            /\ u.applies_if \in CanonicalApplicability(q.applies_if)
            /\ u.decision_tree \in CanonicalEntry(q.decision_tree)
  BY CanonicalRuleOf DEF RuleShape
<1>9. AlikeRules(r, q) <=> /\ Same /\ AlikeTags(r.tags, q.tags)
                           /\ AlikeApplicability(r.applies_if, q.applies_if)
                           /\ AlikeTrees(r.decision_tree, q.decision_tree)
  BY <1>2, Zenon DEF AlikeRules, AlikeTags, AlikeApplicability
<1> HIDE DEF Same
<1> QED BY <1>3, <1>4, <1>5, <1>6, <1>7, <1>8, <1>9, Zenon

RulesShape(rules) == IsASeq(rules) /\ \A i \in DOMAIN rules : RuleShape(rules[i])

LEMMA RuleSetsAlike ==
  ASSUME NEW a, RulesShape(a), NEW b, RulesShape(b), NEW rules \in EncodeRules(a)
  PROVE  rules \in EncodeRules(b)
           <=> Len(a) = Len(b) /\ \A i \in DOMAIN a : AlikeRules(a[i], b[i])
<1>1. DOMAIN rules = DOMAIN a /\ \A i \in DOMAIN a : rules[i] \in CanonicalRule(a[i])
  BY EncodedRules
<1>2. Len(a) = Len(b) <=> DOMAIN a = DOMAIN b
  BY SameLength DEF RulesShape
<1>3. \A i \in DOMAIN a \cap DOMAIN b :
        rules[i] \in CanonicalRule(b[i]) <=> AlikeRules(a[i], b[i])
  BY <1>1, RulesAlike DEF RulesShape
<1>4. ASSUME rules \in EncodeRules(b)
      PROVE  Len(a) = Len(b) /\ \A i \in DOMAIN a : AlikeRules(a[i], b[i])
  <2>1. DOMAIN rules = DOMAIN b /\ \A i \in DOMAIN b : rules[i] \in CanonicalRule(b[i])
    BY <1>4, EncodedRules
  <2> QED BY <1>1, <1>2, <1>3, <2>1
<1>5. ASSUME Len(a) = Len(b), \A i \in DOMAIN a : AlikeRules(a[i], b[i])
      PROVE  rules \in EncodeRules(b)
  <2> DEFINE encoded == [i \in DOMAIN b |-> CanonicalRule(b[i])]
  <2>1. DOMAIN a = DOMAIN b
    BY <1>2, <1>5
  <2>2. \A i \in DOMAIN b : CanonicalRule(b[i]) = {rules[i]}
    <3> TAKE i \in DOMAIN b
    <3>1. rules[i] \in CanonicalRule(b[i])
      BY <1>3, <1>5, <2>1
    <3>2. \A u \in CanonicalRule(b[i]) : u = rules[i]
      BY <3>1, CanonicalRuleIsOne DEF RulesShape
    <3> QED BY <3>1, <3>2
  <2>3. rules = [i \in DOMAIN b |-> rules[i]]
    <3> DEFINE made == [i \in DOMAIN a |-> CanonicalRule(a[i])]
    <3>1. rules \in AllOf(made)
      BY Zenon DEF EncodeRules
    <3>2. rules = [i \in DOMAIN made |-> rules[i]]
      <4> HIDE DEF made
      <4> QED BY <3>1, AllOfMembers
    <3> QED BY <2>1, <3>2
  <2>4. DOMAIN encoded = DOMAIN b /\ \A i \in DOMAIN encoded : encoded[i] = {rules[i]}
    BY <2>2
  <2> HIDE DEF encoded
  <2>5. rules \in AllOf(encoded)
    BY <2>3, <2>4, AllOfOnes
  <2> QED BY <2>5, Zenon DEF EncodeRules, encoded
<1> QED BY <1>4, <1>5

(* A document's rules are as the encoder's lemmas have them.               *)
LEMMA CompiledShape ==
  ASSUME NEW d \in Documents \cup IntentDocuments, ~ IsIntent(d), NEW rules \in CompileRules(d)
  PROVE  RulesShape(rules)
<1>1. ASSUME NEW i \in DOMAIN rules PROVE RuleShape(rules[i])
  <2>1. DOMAIN rules[i] = RuleFields
    BY CompiledFields
  <2>2. TreeShape(rules[i].decision_tree)
    BY CompiledTrees
  <2>3. GroupsShape(rules[i].applies_if)
    <3>1. \A g \in rules[i].applies_if : rules[i].applies_if = {g} /\ GroupShape(g)
      BY CompiledGroups
    <3> QED BY <3>1 DEF GroupsShape
  <2>4. TagsShape(rules[i].tags)
    <3>1. rules[i].tags = {} \/ \E tags : IsASeq(tags) /\ rules[i].tags = {tags}
      BY CompiledTags
    <3>2. \A tags \in rules[i].tags : \A k \in DOMAIN tags :
            IsNfc(tags[k]) => TagRank[tags[k]] \in Int
      BY TagRankAssumption
    <3> QED BY <3>1, <3>2 DEF TagsShape
  <2> QED BY <2>1, <2>2, <2>3, <2>4 DEF RuleShape
<1>2. IsASeq(rules)
  <2>1. PICK n \in Nat : DOMAIN rules = 1 .. n
    BY CompiledRules
  <2>2. rules = [i \in DOMAIN rules |-> rules[i]]
    <3>1. PICK s \in ParseRules(d) : rules \in AllOf([i \in DOMAIN s |-> LowerRule(s[i])])
      BY Zenon DEF CompileRules
    <3> DEFINE lowered == [i \in DOMAIN s |-> LowerRule(s[i])]
    <3>2. rules = [i \in DOMAIN lowered |-> rules[i]]
      <4> HIDE DEF lowered
      <4> QED BY <3>1, AllOfMembers DEF lowered
    <3> QED BY <3>2
  <2> QED BY <2>1, <2>2 DEF IsASeq
<1> QED BY <1>1, <1>2 DEF RulesShape

(* What a document's rules are stored as is what any document that spells  *)
(* the same rules in another way is stored as, numbers with more zeros or  *)
(* tags in another order, and no document whose rules differ in more: one  *)
(* address for all the spellings and for nothing else (ordering.rs         *)
(* normalize_decimal, canonicalize_set).                                   *)
THEOREM OneFormForAllSpellings == Spec => []OneEncodingPerRuleSet
<1>1. PipelineInv => OneEncodingPerRuleSet
  <2> SUFFICES ASSUME PipelineInv, NEW rules \in StoredRules, NEW source \in Compiled,
                      NEW other \in Encodings
               PROVE  rules \in other.encoded
                        <=> /\ Len(source) = Len(other.rules)
                            /\ \A i \in DOMAIN source : AlikeRules(source[i], other.rules[i])
    BY DEF OneEncodingPerRuleSet
  <2>1. doc \in Documents \cup IntentDocuments /\ ~ IsIntent(doc) /\ source \in CompileRules(doc)
    BY DEF PipelineInv, Compiled
  <2>2. PICK s \in Compiled : rules \in EncodeRules(s)
    BY DEF PipelineInv, StoredIsCompiled
  <2>3. s = source
    BY CompiledIsOne DEF PipelineInv
  <2>4. PICK b \in RuleSets : other = [rules |-> b, encoded |-> EncodeRules(b)]
    BY DEF Encodings
  <2>5. RulesShape(source) /\ RulesShape(b)
    BY <2>1, CompiledShape DEF RuleSets
  <2>6. rules \in EncodeRules(b)
          <=> Len(source) = Len(b) /\ \A i \in DOMAIN source : AlikeRules(source[i], b[i])
    BY <2>2, <2>3, <2>5, RuleSetsAlike
  <2> QED BY <2>4, <2>6
<1>2. Spec => []PipelineInv
  BY PipelineInvariance
<1> QED BY <1>1, <1>2, PTL

=============================================================================
