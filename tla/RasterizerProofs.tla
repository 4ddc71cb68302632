-------------------------- MODULE RasterizerProofs --------------------------
(***************************************************************************)
(* Proofs about Rasterizer, for any documents, budgets and earlier files   *)
(* that satisfy its assumptions: the arithmetic of the shards, the types,  *)
(* what the result is, that the renders at work fit the memory, and that   *)
(* nobody writes once rasterize is over.                                   *)
(***************************************************************************)
EXTENDS Rasterizer, TLAPS, FiniteSetTheorems, WellFoundedInduction

\* An element no smaller or no larger than the rest is what Min and Max return.
LEMMA MinIs ==
    ASSUME NEW S \in SUBSET Int, NEW m \in S, \A x \in S : m <= x
    PROVE  Min(S) = m
<1>1. Min(S) \in S /\ \A x \in S : Min(S) <= x
  BY DEF Min
<1>2. Min(S) <= m /\ m <= Min(S)
  BY <1>1
<1>3. Min(S) \in Int /\ m \in Int
  BY <1>1
<1> QED
  BY <1>2, <1>3

LEMMA MaxIs ==
    ASSUME NEW S \in SUBSET Int, NEW m \in S, \A x \in S : x <= m
    PROVE  Max(S) = m
<1>1. Max(S) \in S /\ \A x \in S : Max(S) >= x
  BY DEF Max
<1>2. Max(S) >= m /\ m >= Max(S)
  BY <1>1
<1>3. Max(S) \in Int /\ m \in Int
  BY <1>1
<1> QED
  BY <1>2, <1>3

LEMMA MinOfTwo ==
    ASSUME NEW a \in Int, NEW b \in Int
    PROVE  Min({a, b}) \in {a, b} /\ Min({a, b}) <= a /\ Min({a, b}) <= b
<1>1. CASE a <= b
  <2>1. Min({a, b}) = a
    BY <1>1, MinIs
  <2> QED
    BY <1>1, <2>1
<1>2. CASE ~(a <= b)
  <2>1. Min({a, b}) = b
    BY <1>2, MinIs
  <2> QED
    BY <1>2, <2>1
<1> QED
  BY <1>1, <1>2

LEMMA MaxOfTwo ==
    ASSUME NEW a \in Int, NEW b \in Int
    PROVE  Max({a, b}) \in {a, b} /\ Max({a, b}) >= a /\ Max({a, b}) >= b
<1>1. CASE a >= b
  <2>1. Max({a, b}) = a
    BY <1>1, MaxIs
  <2> QED
    BY <1>1, <2>1
<1>2. CASE ~(a >= b)
  <2>1. Max({a, b}) = b
    BY <1>2, MaxIs
  <2> QED
    BY <1>2, <2>1
<1> QED
  BY <1>1, <1>2

LEMMA MinMaxNat ==
    /\ \A a, b \in Nat : Min({a, b}) \in Nat
    /\ \A a \in Nat \ {0}, b \in Nat : Max({a, b}) \in Nat \ {0}
<1>1. ASSUME NEW a \in Nat, NEW b \in Nat PROVE Min({a, b}) \in Nat
  <2>1. Min({a, b}) \in {a, b}
    BY MinOfTwo
  <2> QED
    BY <2>1
<1>2. ASSUME NEW a \in Nat \ {0}, NEW b \in Nat PROVE Max({a, b}) \in Nat \ {0}
  <2>1. Max({a, b}) \in {a, b} /\ Max({a, b}) >= a
    BY MaxOfTwo
  <2> QED
    BY <2>1
<1> QED
  BY <1>1, <1>2, Zenon

LEMMA MinMaxOfNat ==
    /\ \A a, b \in Nat : Min({a, b}) \in {a, b} /\ Min({a, b}) <= a /\ Min({a, b}) <= b
    /\ \A a, b \in Nat : Max({a, b}) \in {a, b} /\ Max({a, b}) >= a
<1>1. ASSUME NEW a \in Nat, NEW b \in Nat
      PROVE  /\ Min({a, b}) \in {a, b} /\ Min({a, b}) <= a /\ Min({a, b}) <= b
             /\ Max({a, b}) \in {a, b} /\ Max({a, b}) >= a
  <2>1. a \in Int /\ b \in Int
    OBVIOUS
  <2> QED
    BY <2>1, MinOfTwo, MaxOfTwo, Zenon
<1> QED
  BY <1>1, Zenon

LEMMA MinOfThree ==
    ASSUME NEW a \in Int, NEW b \in Int, NEW c \in Int
    PROVE  /\ Min({a, b, c}) \in {a, b, c}
           /\ Min({a, b, c}) <= a /\ Min({a, b, c}) <= b /\ Min({a, b, c}) <= c
<1>1. CASE a <= b /\ a <= c
  <2>1. Min({a, b, c}) = a
    BY <1>1, MinIs
  <2> QED
    BY <1>1, <2>1
<1>2. CASE b <= c /\ ~(a <= b /\ a <= c)
  <2>1. Min({a, b, c}) = b
    BY <1>2, MinIs
  <2> QED
    BY <1>2, <2>1
<1>3. CASE c <= a /\ c <= b
  <2>1. Min({a, b, c}) = c
    BY <1>3, MinIs
  <2> QED
    BY <1>3, <2>1
<1> QED
  BY <1>1, <1>2, <1>3

-----------------------------------------------------------------------------
\* Even shards of `count` fit into the pages they are cut from.
LEMMA ShardsFit ==
    ASSUME NEW pages \in Nat \ {0}, NEW count \in 1 .. pages, NEW i \in 0 .. count - 1
    PROVE  /\ pages \div count \in Nat \ {0}
           /\ i * (pages \div count) \in Nat
           /\ (i + 1) * (pages \div count) = i * (pages \div count) + (pages \div count)
           /\ (i + 1) * (pages \div count) <= pages
<1> DEFINE each == pages \div count
<1>1. each \in Nat /\ count * each <= pages /\ pages < count * each + count
  OBVIOUS
<1>2. each # 0
  BY <1>1
<1> HIDE DEF each
<1>3. (count - (i + 1)) * each >= 0
  BY <1>1
<1>4. (count - (i + 1)) * each = count * each - (i + 1) * each
  BY <1>1
<1>5. i * each >= 0 /\ (i + 1) * each = i * each + each /\ i * each \in Int /\ count * each \in Int
  BY <1>1
<1>6. (i + 1) * each <= pages
  BY <1>1, <1>3, <1>4, <1>5
<1> QED
  BY <1>1, <1>2, <1>5, <1>6 DEF each

-----------------------------------------------------------------------------
\* The natural numbers are well-founded: a set of them has a least element, and a largest
\* one when it is bounded.
LEMMA LeastNat ==
    ASSUME NEW T \in SUBSET Nat, T # {}
    PROVE  \E m \in T : \A k \in T : m <= k
<1> DEFINE Less == OpToRel(<, Nat)
<1>1. IsWellFoundedOn(Less, Nat)
  BY NatLessThanWellFounded
<1>2. \A i, j \in Nat : i < j => <<i, j>> \in Less
  BY DEF OpToRel
<1> HIDE DEF Less
<1>3. PICK m \in T : \A k \in T : ~(<<k, m>> \in Less)
  BY <1>1, WFMin
<1>4. ASSUME NEW k \in T PROVE m <= k
  <2>1. m \in Nat /\ k \in Nat /\ ~(k < m)
    BY <1>2, <1>3
  <2> QED
    BY <2>1
<1> QED
  BY <1>4

LEMMA LargestNat ==
    ASSUME NEW T \in SUBSET Nat, T # {}, NEW b \in Nat, \A k \in T : k <= b
    PROVE  \E m \in T : \A k \in T : k <= m
<1> DEFINE U == {b - k : k \in T}
<1>1. U \in SUBSET Nat /\ U # {}
  <2>1. ASSUME NEW u \in U PROVE u \in Nat
    <3>1. PICK k \in T : u = b - k
      BY <2>1
    <3> QED
      BY <3>1
  <2>2. PICK k \in T : TRUE
    OBVIOUS
  <2>3. b - k \in U
    OBVIOUS
  <2> QED
    BY <2>1, <2>3
<1>2. PICK m \in U : \A u \in U : m <= u
  BY <1>1, LeastNat
<1>3. PICK t \in T : m = b - t
  BY <1>2
<1>4. \A k \in T : k <= t
  BY <1>2, <1>3
<1> QED
  BY <1>4

\* Every run of pages has a largest one.
LEMMA LargestPage ==
    ASSUME NEW d \in Seq(Nat \ {0}), NEW a \in DOMAIN d, NEW b \in DOMAIN d, a <= b
    PROVE  \E q \in a .. b : /\ Max({d[p] : p \in a .. b}) = d[q]
                            /\ \A p \in a .. b : d[p] <= d[q]
<1> DEFINE HasMax(k) == \E q \in a .. k : \A p \in a .. k : d[p] <= d[q]
           T == {k \in a .. b : ~HasMax(k)}
<1>1. a \in Nat /\ b \in Nat /\ a .. b \subseteq DOMAIN d /\ \A p \in a .. b : d[p] \in Nat
  OBVIOUS
<1>2. SUFFICES ASSUME T # {} PROVE FALSE
  <2>1. CASE T = {}
    <3>1. HasMax(b)
      <4>1. b \in a .. b
        BY <1>1
      <4> QED
        BY <2>1, <4>1
    <3>2. PICK q \in a .. b : \A p \in a .. b : d[p] <= d[q]
      BY <3>1
    <3>3. {d[p] : p \in a .. b} \in SUBSET Int /\ d[q] \in {d[p] : p \in a .. b}
      BY <1>1
    <3>4. \A x \in {d[p] : p \in a .. b} : x <= d[q]
      BY <3>2
    <3>5. Max({d[p] : p \in a .. b}) = d[q]
      BY <3>3, <3>4, MaxIs
    <3> QED
      BY <3>2, <3>5
  <2> QED
    BY <2>1
<1>3. PICK k \in T : \A j \in T : k <= j
  <2>1. T \in SUBSET Nat
    BY <1>1
  <2> HIDE DEF T
  <2> QED
    BY <1>2, <2>1, LeastNat
<1>4. k \in a .. b /\ ~HasMax(k)
  BY <1>3
<1>5. k # a
  BY <1>1, <1>4
<1>6. k - 1 \in a .. b /\ HasMax(k - 1)
  <2>1. k - 1 \in a .. b /\ ~(k <= k - 1)
    BY <1>1, <1>4, <1>5
  <2> QED
    BY <1>3, <2>1
<1>7. PICK q \in a .. k - 1 : \A p \in a .. k - 1 : d[p] <= d[q]
  BY <1>6
<1> HIDE DEF T, HasMax
<1>8. k \in Nat /\ \A p \in a .. k : p = k \/ p \in a .. k - 1
  BY <1>1, <1>4
<1>9. d[k] \in Nat /\ k \in a .. k /\ q \in a .. k /\ \A p \in a .. k : p \in a .. b /\ d[p] \in Nat
  <2>1. \A p \in a .. k : p \in a .. b
    BY <1>1, <1>4
  <2>2. k \in a .. k /\ q \in a .. k
    BY <1>1, <1>4, <1>8
  <2> QED
    BY <1>1, <2>1, <2>2
<1>10. CASE d[q] <= d[k]
  <2>1. ASSUME NEW p \in a .. k PROVE d[p] <= d[k]
    <3>1. d[p] \in Nat /\ d[q] \in Nat /\ d[k] \in Nat
      BY <1>9
    <3>2. p = k \/ d[p] <= d[q]
      BY <1>7, <1>8
    <3>3. CASE p = k
      BY <1>10, <3>1, <3>3
    <3>4. CASE p # k
      BY <1>10, <3>1, <3>2, <3>4
    <3> QED
      BY <3>3, <3>4
  <2> QED
    BY <1>4, <1>9, <2>1 DEF HasMax
<1>11. CASE ~(d[q] <= d[k])
  <2>1. ASSUME NEW p \in a .. k PROVE d[p] <= d[q]
    <3>1. d[p] \in Nat /\ d[q] \in Nat /\ d[k] \in Nat
      BY <1>9
    <3>2. p = k \/ d[p] <= d[q]
      BY <1>7, <1>8
    <3>3. CASE p = k
      BY <1>11, <3>1, <3>3
    <3>4. CASE p # k
      BY <1>11, <3>1, <3>2, <3>4
    <3> QED
      BY <3>3, <3>4
  <2> QED
    BY <1>4, <1>9, <2>1 DEF HasMax
<1> QED
  BY <1>10, <1>11

-----------------------------------------------------------------------------
(* The plan.                                                               *)

\* doc and cpuBudget are what the assumptions say of them.
Given == doc \in Docs /\ cpuBudget \in CpuBudgets

LEMMA GivenFacts ==
    ASSUME Given
    PROVE  /\ doc \in Seq(Nat \ {0}) /\ Len(doc) \in Nat \ {0} /\ Pages = 1 .. Len(doc)
           /\ cpuBudget \in Nat \ {0}
BY RasterizerAssumption DEF Given, Pages

LEMMA PeakFacts ==
    ASSUME Given, NEW a \in Pages, NEW b \in Pages, a <= b
    PROVE  PagePeak(a, b) \in Nat /\ MaxConcurrentPageOps(PagePeak(a, b)) \in Nat \ {0}
<1>1. Max({doc[p] : p \in a .. b}) \in Nat
  <2>1. PICK q \in a .. b : Max({doc[p] : p \in a .. b}) = doc[q]
    BY GivenFacts, LargestPage DEF Pages
  <2>2. doc[q] \in Nat
    BY GivenFacts
  <2> QED
    BY <2>1, <2>2
<1>2. BudgetPx \in Nat /\ UsablePx \in Nat /\ DefaultPeak \in Nat \ {0} /\ Ceiling \in Nat \ {0}
  BY RasterizerAssumption
<1>3. PagePeak(a, b) \in Nat
  BY <1>1, <1>2, MinMaxNat, Zenon DEF PagePeak
<1>4. Max({DefaultPeak, PagePeak(a, b)}) \in Nat \ {0}
  BY <1>2, <1>3, MinMaxNat, Zenon
<1>5. UsablePx \div Max({DefaultPeak, PagePeak(a, b)}) \in Nat
  BY <1>2, <1>4
<1>6. Ceiling \in Nat /\ 1 \in Nat \ {0}
  BY <1>2
<1>7. Min({Ceiling, UsablePx \div Max({DefaultPeak, PagePeak(a, b)})}) \in Nat
  BY <1>5, <1>6, MinMaxNat, Zenon
<1>8. Max({1, Min({Ceiling, UsablePx \div Max({DefaultPeak, PagePeak(a, b)})})}) \in Nat \ {0}
  BY <1>6, <1>7, MinMaxNat, Zenon
<1> QED
  BY <1>3, <1>8, Zenon DEF MaxConcurrentPageOps

ShardCount(a, b) == Min({cpuBudget, MaxConcurrentPageOps(PagePeak(a, b)), b - a + 1})
ShardSize(a, b) == (b - a + 1) \div ShardCount(a, b)
ShardStart(a, b, i) == a + i * ShardSize(a, b)
ShardEnd(a, b, i) ==
    IF i = ShardCount(a, b) - 1 THEN b ELSE a + (i + 1) * ShardSize(a, b) - 1

LEMMA ShardRunIs ==
    ASSUME NEW a, NEW b
    PROVE  ShardRun(a, b) =
              IF b - a + 1 < MinPagesForSharding \/ ShardCount(a, b) <= 1 THEN {<<a, b>>}
              ELSE {<<ShardStart(a, b, i), ShardEnd(a, b, i)>> : i \in 0 .. ShardCount(a, b) - 1}
BY DEF ShardRun, ShardCount, ShardSize, ShardStart, ShardEnd

\* The shards of a run are parts of it, and every page of it is in one.
LEMMA ShardsOfRun ==
    ASSUME Given, NEW a \in Pages, NEW b \in Pages, a <= b
    PROVE  /\ \A r \in ShardRun(a, b) :
                 r = <<r[1], r[2]>> /\ r[1] \in a .. b /\ r[2] \in a .. b /\ r[1] <= r[2]
           /\ \A p \in a .. b : \E r \in ShardRun(a, b) : r[1] <= p /\ p <= r[2]
<1> DEFINE pages == b - a + 1
           count == ShardCount(a, b)
           each == ShardSize(a, b)
<1>1. a \in Nat /\ b \in Nat /\ pages \in Nat \ {0}
  BY GivenFacts
<1>2. count \in 1 .. pages
  <2>1. ASSUME NEW x \in Nat \ {0}, NEW y \in Nat \ {0} PROVE Min({x, y, pages}) \in 1 .. pages
    <3>1. /\ Min({x, y, pages}) \in {x, y, pages}
          /\ Min({x, y, pages}) <= pages
      <4>1. x \in Int /\ y \in Int /\ pages \in Int
        BY <1>1
      <4> QED
        BY <4>1, MinOfThree, Zenon
    <3> QED
      BY <1>1, <3>1
  <2>2. cpuBudget \in Nat \ {0} /\ MaxConcurrentPageOps(PagePeak(a, b)) \in Nat \ {0}
    BY GivenFacts, PeakFacts
  <2> QED
    BY <2>1, <2>2, Zenon DEF ShardCount
<1>3. each = pages \div count
  BY DEF ShardSize
<1> HIDE DEF count, each
<1>4. each \in Nat \ {0} /\ count * each <= pages
  BY <1>1, <1>2, <1>3
<1>5. CASE pages < MinPagesForSharding \/ count <= 1
  <2>1. ShardRun(a, b) = {<<a, b>>}
    BY <1>5, ShardRunIs DEF count
  <2> QED
    BY <1>1, <2>1
<1>6. CASE ~(pages < MinPagesForSharding \/ count <= 1)
  <2>1. ShardRun(a, b) = {<<ShardStart(a, b, i), ShardEnd(a, b, i)>> : i \in 0 .. count - 1}
    BY <1>6, ShardRunIs DEF count
  <2>2. \A i \in 0 .. count - 1 :
          /\ ShardStart(a, b, i) = a + i * each
          /\ ShardEnd(a, b, i) = IF i = count - 1 THEN b ELSE a + (i + 1) * each - 1
    BY DEF ShardStart, ShardEnd, count, each
  <2>3. ASSUME NEW i \in 0 .. count - 1
        PROVE  /\ ShardStart(a, b, i) \in a .. b /\ ShardEnd(a, b, i) \in a .. b
               /\ ShardStart(a, b, i) <= ShardEnd(a, b, i)
    <3>1. /\ i * each \in Nat /\ (i + 1) * each = i * each + each
          /\ (i + 1) * each <= pages
      BY <1>1, <1>2, <1>3, ShardsFit
    <3> QED
      BY <1>1, <1>4, <2>2, <3>1
  <2>4. ASSUME NEW r \in ShardRun(a, b)
        PROVE  r = <<r[1], r[2]>> /\ r[1] \in a .. b /\ r[2] \in a .. b /\ r[1] <= r[2]
    <3>1. PICK i \in 0 .. count - 1 : r = <<ShardStart(a, b, i), ShardEnd(a, b, i)>>
      BY <2>1
    <3> QED
      BY <2>3, <3>1
  <2>5. ASSUME NEW p \in a .. b
        PROVE  \E r \in ShardRun(a, b) : r[1] <= p /\ p <= r[2]
    <3>1. p \in Nat /\ p - a \in Nat /\ p <= b
      BY <1>1
    <3>2. CASE p - a >= (count - 1) * each
      <4>1. count - 1 \in 0 .. count - 1
        BY <1>1, <1>2
      <4>2. (count - 1) * each \in Int
        BY <1>1, <1>2, <1>4
      <4>3. ShardStart(a, b, count - 1) <= p /\ ShardEnd(a, b, count - 1) = b
        BY <1>1, <2>2, <3>1, <3>2, <4>1, <4>2
      <4>4. <<ShardStart(a, b, count - 1), ShardEnd(a, b, count - 1)>> \in ShardRun(a, b)
        BY <2>1, <4>1
      <4> QED
        BY <3>1, <4>3, <4>4
    <3>3. CASE ~(p - a >= (count - 1) * each)
      <4> DEFINE i == (p - a) \div each
      <4>1. i \in Nat /\ i * each <= p - a /\ p - a < i * each + each
        <5>1. ASSUME NEW n \in Nat, NEW m \in Nat \ {0}
              PROVE  n \div m \in Nat /\ (n \div m) * m <= n /\ n < (n \div m) * m + m
          OBVIOUS
        <5> QED
          BY <1>4, <3>1, <5>1
      <4> HIDE DEF i
      <4>2. i * each \in Int /\ (count - 1) * each \in Int /\ (i + 1) * each = i * each + each
        BY <1>1, <1>2, <1>4, <4>1
      <4>3. i < count - 1
        <5>1. SUFFICES ASSUME i >= count - 1 PROVE FALSE
          BY <1>1, <1>2, <4>1
        <5>2. (i - (count - 1)) * each >= 0
          BY <1>1, <1>2, <1>4, <4>1, <5>1
        <5>3. (i - (count - 1)) * each = i * each - (count - 1) * each
          BY <1>1, <1>2, <1>4, <4>1
        <5> QED
          BY <3>1, <3>3, <4>1, <4>2, <5>2, <5>3
      <4>4. i \in 0 .. count - 1 /\ i # count - 1
        BY <1>1, <1>2, <4>1, <4>3
      <4>5. ShardStart(a, b, i) <= p /\ p <= ShardEnd(a, b, i)
        <5>1. ShardStart(a, b, i) = a + i * each /\ ShardEnd(a, b, i) = a + (i + 1) * each - 1
          BY <2>2, <4>4
        <5> QED
          BY <1>1, <1>4, <3>1, <4>1, <4>2, <5>1
      <4>6. <<ShardStart(a, b, i), ShardEnd(a, b, i)>> \in ShardRun(a, b)
        BY <2>1, <4>4
      <4> QED
        BY <4>5, <4>6
    <3> QED
      BY <3>2, <3>3
  <2> QED
    BY <2>4, <2>5
<1> QED
  BY <1>5, <1>6

\* Every page is in a maximal run of pages with its own dpi.
LEMMA DpiRunsCover ==
    ASSUME Given, NEW p \in Pages
    PROVE  \E r \in DpiRuns : r[1] <= p /\ p <= r[2]
<1> DEFINE C(q) == ClampedDpi(doc[q])
           Before == {a \in 1 .. p : \A q \in a .. p : C(q) = C(p)}
           After == {b \in p .. Len(doc) : \A q \in p .. b : C(q) = C(p)}
<1>1. Len(doc) \in Nat \ {0} /\ Pages = 1 .. Len(doc) /\ p \in Nat \ {0} /\ p <= Len(doc)
  BY GivenFacts
<1> HIDE DEF C
<1>2. PICK a \in Before : \A k \in Before : a <= k
  <2>1. p \in Before /\ Before \in SUBSET Nat
    BY <1>1
  <2> HIDE DEF Before
  <2> QED
    BY <2>1, LeastNat
<1>3. PICK b \in After : \A k \in After : k <= b
  <2>1. p \in After /\ After \in SUBSET Nat /\ \A k \in After : k <= Len(doc)
    BY <1>1
  <2> HIDE DEF After
  <2> QED
    BY <1>1, <2>1, LargestNat
<1>4. a \in 1 .. p /\ b \in p .. Len(doc) /\ \A q \in a .. b : C(q) = C(p)
  <2>1. a \in 1 .. p /\ \A q \in a .. p : C(q) = C(p)
    BY <1>2
  <2>2. b \in p .. Len(doc) /\ \A q \in p .. b : C(q) = C(p)
    BY <1>3
  <2>3. ASSUME NEW q \in a .. b PROVE C(q) = C(p)
    <3>1. q \in a .. p \/ q \in p .. b
      BY <1>1, <2>1, <2>2
    <3> QED
      BY <2>1, <2>2, <3>1
  <2> QED
    BY <2>1, <2>2, <2>3
<1>5. a > 1 => C(a - 1) # C(a)
  <2>1. SUFFICES ASSUME a > 1, C(a - 1) = C(a) PROVE FALSE
    OBVIOUS
  <2>2. a \in a .. b /\ a - 1 \in 1 .. p
    BY <1>1, <1>4, <2>1
  <2>3. ASSUME NEW q \in a - 1 .. p PROVE C(q) = C(p)
    <3>1. q = a - 1 \/ q \in a .. b
      BY <1>1, <1>4
    <3> QED
      BY <1>4, <2>1, <2>2, <3>1
  <2>4. a - 1 \in Before
    BY <2>2, <2>3
  <2> QED
    BY <1>1, <1>2, <1>4, <2>4
<1>6. b < Len(doc) => C(b + 1) # C(a)
  <2>1. SUFFICES ASSUME b < Len(doc), C(b + 1) = C(a) PROVE FALSE
    OBVIOUS
  <2>2. a \in a .. b /\ b + 1 \in p .. Len(doc)
    BY <1>1, <1>4, <2>1
  <2>3. ASSUME NEW q \in p .. b + 1 PROVE C(q) = C(p)
    <3>1. q = b + 1 \/ q \in a .. b
      BY <1>1, <1>4
    <3> QED
      BY <1>4, <2>1, <2>2, <3>1
  <2>4. b + 1 \in After
    BY <2>2, <2>3
  <2> QED
    BY <1>1, <1>3, <1>4, <2>4
<1>7. <<a, b>> \in DpiRuns
  <2>1. a \in Pages /\ b \in Pages /\ a <= b /\ a \in a .. b
    BY <1>1, <1>4
  <2>2. \A q \in a .. b : C(q) = C(a)
    BY <1>4, <2>1
  <2> QED
    BY <1>5, <1>6, <2>1, <2>2 DEF DpiRuns, C
<1>8. a <= p /\ p <= b
  BY <1>1, <1>4
<1> QED
  BY <1>7, <1>8

\* A range, and the pages of one have one dpi.
IsRange(r) ==
    /\ r = <<r[1], r[2]>> /\ r[1] \in Pages /\ r[2] \in Pages /\ r[1] <= r[2]
    /\ \A p \in r[1] .. r[2] : ClampedDpi(doc[p]) = ClampedDpi(doc[r[1]])

\* The ranges planned are runs of pages of one dpi, and every page is in one.
LEMMA RangesFacts ==
    ASSUME Given
    PROVE  /\ \A r \in Ranges : IsRange(r)
           /\ \A p \in Pages : \E r \in Ranges : p \in r[1] .. r[2]
<1>1. Len(doc) \in Nat \ {0} /\ Pages = 1 .. Len(doc)
  BY GivenFacts
<1>2. ASSUME NEW r \in Ranges PROVE IsRange(r)
  <2>1. PICK s \in DpiRuns : r \in ShardRun(s[1], s[2])
    BY DEF Ranges
  <2>2. /\ s[1] \in Pages /\ s[2] \in Pages /\ s[1] <= s[2]
        /\ \A p \in s[1] .. s[2] : ClampedDpi(doc[p]) = ClampedDpi(doc[s[1]])
    BY <2>1 DEF DpiRuns
  <2>3. r = <<r[1], r[2]>> /\ r[1] \in s[1] .. s[2] /\ r[2] \in s[1] .. s[2] /\ r[1] <= r[2]
    BY <2>1, <2>2, ShardsOfRun
  <2>4. r[1] \in Pages /\ r[2] \in Pages
    BY <1>1, <2>2, <2>3
  <2>5. ASSUME NEW p \in r[1] .. r[2] PROVE ClampedDpi(doc[p]) = ClampedDpi(doc[r[1]])
    <3>1. p \in s[1] .. s[2]
      BY <1>1, <2>2, <2>3
    <3> QED
      BY <2>2, <2>3, <3>1
  <2> QED
    BY <2>3, <2>4, <2>5 DEF IsRange
<1>3. ASSUME NEW p \in Pages PROVE \E r \in Ranges : p \in r[1] .. r[2]
  <2>1. PICK s \in DpiRuns : s[1] <= p /\ p <= s[2]
    BY DpiRunsCover
  <2>2. s[1] \in Pages /\ s[2] \in Pages /\ s[1] <= s[2]
    BY <2>1 DEF DpiRuns
  <2>3. p \in s[1] .. s[2]
    BY <1>1, <2>1, <2>2
  <2>4. PICK r \in ShardRun(s[1], s[2]) : r[1] <= p /\ p <= r[2]
    BY <2>2, <2>3, ShardsOfRun
  <2>5. r \in Ranges
    BY <2>4 DEF Ranges
  <2>6. r[1] \in Pages /\ r[2] \in Pages
    BY <1>2, <2>5 DEF IsRange
  <2> QED
    BY <1>1, <2>4, <2>5, <2>6
<1> QED
  BY <1>2, <1>3

\* A page is rendered at the dpi its own size allows, whatever range it is in.
LEMMA DpiOfPage ==
    ASSUME Given, NEW r, IsRange(r), NEW p \in r[1] .. r[2]
    PROVE  EffectiveDpi(r[1], r[2]) = ClampedDpi(doc[p]) /\ p \in Pages
<1>1. Len(doc) \in Nat \ {0} /\ Pages = 1 .. Len(doc) /\ doc \in Seq(Nat \ {0})
  BY GivenFacts
<1>2. r[1] \in Pages /\ r[2] \in Pages /\ r[1] <= r[2]
  BY DEF IsRange
<1>3. PICK q \in r[1] .. r[2] : Max({doc[x] : x \in r[1] .. r[2]}) = doc[q]
  BY <1>1, <1>2, LargestPage DEF Pages
<1>4. ClampedDpi(doc[q]) = ClampedDpi(doc[p])
  BY <1>3 DEF IsRange
<1>5. p \in Pages
  BY <1>1, <1>2
<1> QED
  BY <1>3, <1>4, <1>5 DEF EffectiveDpi

-----------------------------------------------------------------------------
(* The ranges and the processes that render them.                          *)

Idle == todo = {} /\ active = {} /\ failed = {}

RangeInv ==
    /\ Given
    /\ pc \in {"plan", "rendering", "done", "raised"}
    /\ pc = "plan" => ranges = {} /\ Idle
    /\ pc # "plan" => ranges = Ranges /\ written \in [ranges -> Int]
    /\ workers \in Nat /\ strays \in 0 .. MaxStrays
    /\ todo \cup active \cup failed \subseteq ranges
    /\ todo \cap active = {} /\ todo \cap failed = {} /\ active \cap failed = {}
    /\ \A r \in ranges : written[r] \in r[1] - 1 .. r[2]
    /\ \A r \in ranges \ (todo \cup active \cup failed) : written[r] = r[2]
    /\ pc \in {"done", "raised"} => active = {}

LEMMA RangeInit == Init => RangeInv
BY RasterizerAssumption DEF Init, RangeInv, Given, Idle

LEMMA RangesNat ==
    ASSUME Given
    PROVE  \A r \in Ranges : r[1] \in Nat /\ r[2] \in Nat /\ r[1] <= r[2]
<1>1. Len(doc) \in Nat /\ Pages = 1 .. Len(doc)
  BY GivenFacts
<1>2. ASSUME NEW r \in Ranges PROVE r[1] \in Pages /\ r[2] \in Pages /\ r[1] <= r[2]
  BY RangesFacts DEF IsRange
<1> QED
  BY <1>1, <1>2

LEMMA AreRanges ==
    ASSUME RangeInv
    PROVE  \A r \in ranges : IsRange(r) /\ r[1] \in Nat /\ r[2] \in Nat /\ r[1] <= r[2]
<1>1. \A r \in ranges : r \in Ranges
  BY DEF RangeInv, Idle
<1> QED
  BY <1>1, RangesFacts, RangesNat DEF RangeInv

LEMMA RangesFinite ==
    ASSUME Given
    PROVE  IsFiniteSet(Ranges)
<1>1. Len(doc) \in Nat /\ Pages = 1 .. Len(doc)
  BY GivenFacts
<1>2. IsFiniteSet(Pages \X Pages)
  <2>1. IsFiniteSet(Pages)
    BY <1>1, FS_Interval
  <2> QED
    BY <2>1, FS_Product
<1>3. Ranges \in SUBSET (Pages \X Pages)
  BY RangesFacts DEF IsRange
<1> QED
  BY <1>2, <1>3, FS_Subset

LEMMA WorkersNat ==
    ASSUME Given
    PROVE  Workers(Ranges) \in Nat
<1>1. Len(doc) \in Nat \ {0} /\ Pages = 1 .. Len(doc) /\ cpuBudget \in Nat
  BY GivenFacts
<1>2. IsFiniteSet(Ranges)
  BY RangesFinite
<1>3. Cardinality(Ranges) \in Nat
  BY <1>2, FS_CardinalityType
<1>4. MaxConcurrentPageOps(PagePeak(1, Len(doc))) \in Nat
  BY <1>1, PeakFacts
<1>5. ASSUME NEW x \in Nat, NEW y \in Nat, NEW z \in Nat PROVE Min({x, y, z}) \in Nat
  <2>1. Min({x, y, z}) \in {x, y, z}
    BY MinOfThree
  <2> QED
    BY <2>1
<1> QED
  BY <1>1, <1>3, <1>4, <1>5, Zenon DEF Workers

LEMMA RangePlan ==
    ASSUME RangeInv, Plan
    PROVE  RangeInv'
<1>1. Given' /\ Given
  BY DEF RangeInv, Given, Plan
<1>2. Ranges' = Ranges /\ ranges' = Ranges /\ workers' = Workers(Ranges)
  BY DEF Plan, Ranges, DpiRuns, ShardRun, Workers, Pages, PagePeak
<1>3. workers' \in Nat
  BY <1>1, <1>2, WorkersNat
<1>4. \A r \in ranges' : r[1] \in Nat /\ r[2] \in Nat /\ r[1] <= r[2]
  BY <1>1, <1>2, RangesNat
<1>5. /\ written' = [r \in ranges' |-> r[1] - 1]
      /\ todo' = ranges' /\ active' = {} /\ failed' = {}
      /\ pc' = "rendering" /\ strays' = strays
  BY DEF Plan, RangeInv, Idle
<1>6. written' \in [ranges' -> Int] /\ \A r \in ranges' : written'[r] \in r[1] - 1 .. r[2]
  BY <1>4, <1>5
<1> QED
  BY <1>1, <1>2, <1>3, <1>5, <1>6 DEF RangeInv, Idle

LEMMA RangeNext == RangeInv /\ [Next]_vars => RangeInv'
<1> SUFFICES ASSUME RangeInv, [Next]_vars PROVE RangeInv'
  OBVIOUS
<1>1. CASE Plan
  BY <1>1, RangePlan
<1>2. ASSUME UNCHANGED planVars PROVE Ranges' = Ranges /\ Given' = Given
  BY <1>2 DEF planVars, Ranges, DpiRuns, ShardRun, Pages, PagePeak, Given
<1>3. CASE UNCHANGED vars
  BY <1>2, <1>3 DEF vars, planVars, RangeInv, Idle
<1>4. CASE Raise \/ Collect
  BY <1>2, <1>4 DEF Raise, Collect, planVars, RangeInv, Idle
<1>5. ASSUME NEW r \in ranges, Start(r) PROVE RangeInv'
  BY <1>2, <1>5 DEF Start, planVars, RangeInv, Idle
<1>6. ASSUME NEW r \in ranges, Finish(r) \/ RenderFails(r) PROVE RangeInv'
  BY <1>2, <1>6 DEF Finish, RenderFails, planVars, RangeInv, Idle
<1>7. ASSUME NEW r \in ranges, WritePage(r) PROVE RangeInv'
  <2>1. r \in active /\ written[r] < r[2] /\ written[r] \in r[1] - 1 .. r[2] /\ r[1] \in Nat
        /\ r[2] \in Nat /\ written' = [written EXCEPT ![r] = written[r] + 1]
    BY <1>7, AreRanges DEF WritePage, RangeInv
  <2>2. written \in [ranges -> Int] /\ pc # "plan"
    BY <2>1 DEF RangeInv, Idle
  <2>3. written' \in [ranges -> Int] /\ \A q \in ranges : written'[q] \in q[1] - 1 .. q[2]
    BY <2>1, <2>2, AreRanges DEF RangeInv
  <2>4. \A q \in ranges : q # r => written'[q] = written[q]
    BY <2>1, <2>2
  <2> QED
    BY <1>2, <1>7, <2>1, <2>3, <2>4 DEF WritePage, planVars, RangeInv, Idle
<1>8. ASSUME NEW r \in ranges, LeaveStray(r) PROVE RangeInv'
  <2>1. strays' \in 0 .. MaxStrays
    BY <1>8, RasterizerAssumption DEF LeaveStray, RangeInv
  <2> QED
    BY <1>2, <1>8, <2>1 DEF LeaveStray, planVars, RangeInv, Idle
<1> QED
  BY <1>1, <1>3, <1>4, <1>5, <1>6, <1>7, <1>8 DEF Next, Step, RangeStep

-----------------------------------------------------------------------------
(* The files.                                                              *)

Complete(p) == File(p, "engine", "this", 2, ClampedDpi(doc[p]))

\* A file of an earlier run, a page of this one, or a part of one.
Known(f) ==
    /\ f = File(f.page, f.padding, f.of, f.size, f.dpi)
    /\ f.page \in Nat /\ f.padding \in Padding /\ f.size \in 1 .. 3
    /\ \/ f.of = "earlier"
       \/ f.page \in Pages /\ f = Complete(f.page)
       \/ f.page \in Pages /\ f.of = "partial" /\ f.size = 1

DirInv ==
    pc # "done" =>
        /\ \A f \in dir : Known(f)
        /\ \A r \in ranges : \A p \in r[1] .. written[r] : Complete(p) \in dir

ResultInv ==
    pc = "done" =>
        /\ \A f \in dir : f.page \in Nat /\ f.padding \in Padding
        /\ ResultIsDocument

IInv == RangeInv /\ DirInv /\ ResultInv

LEMMA FileFields ==
    ASSUME NEW p, NEW a, NEW o, NEW s, NEW d
    PROVE  /\ File(p, a, o, s, d).page = p /\ File(p, a, o, s, d).padding = a
           /\ File(p, a, o, s, d).of = o /\ File(p, a, o, s, d).size = s
           /\ File(p, a, o, s, d).dpi = d
BY DEF File

LEMMA DirInit == Init => DirInv /\ ResultInv
<1> SUFFICES ASSUME Init PROVE DirInv /\ ResultInv
  OBVIOUS
<1>1. ASSUME NEW f \in dir PROVE Known(f)
  <2>1. f \in [page : Nat, padding : Padding, of : {"earlier"}, size : 1 .. 3, dpi : Nat]
    BY RasterizerAssumption DEF Init
  <2>2. f = File(f.page, f.padding, f.of, f.size, f.dpi)
    BY <2>1 DEF File
  <2> QED
    BY <2>1, <2>2 DEF Known
<1> QED
  BY <1>1 DEF Init, DirInv, ResultInv

LEMMA CompleteKnown ==
    ASSUME Given, NEW p \in Pages
    PROVE  Known(Complete(p)) /\ Complete(p).page = p /\ Complete(p).padding = "engine"
           /\ Complete(p).of = "this" /\ Complete(p).size = 2
<1>1. p \in Nat
  BY GivenFacts
<1> QED
  BY <1>1, FileFields DEF Known, Complete, Padding

\* A page that is written again is the same file, and a partial file has another name.
LEMMA PutKeeps ==
    ASSUME NEW f, NEW g \in dir, g.page = f.page /\ g.padding = f.padding => g = f
    PROVE  g \in Put(f)
BY DEF Put

LEMMA DirWritePage ==
    ASSUME RangeInv, DirInv, NEW r \in ranges, WritePage(r)
    PROVE  DirInv'
<1>1. r \in active /\ written[r] < r[2] /\ pc' = pc /\ UNCHANGED planVars
      /\ written' = [written EXCEPT ![r] = written[r] + 1]
      /\ dir' = Put(File(written[r] + 1, "engine", "this", 2, EffectiveDpi(r[1], r[2])))
  BY DEF WritePage
<1>2. pc = "rendering" /\ written \in [ranges -> Int] /\ Given /\ written[r] \in r[1] - 1 .. r[2]
  BY <1>1 DEF RangeInv, Idle
<1>3. IsRange(r) /\ r[1] \in Nat /\ r[2] \in Nat
  BY AreRanges
<1> DEFINE p == written[r] + 1
<1>4. p \in r[1] .. r[2]
  BY <1>1, <1>2, <1>3
<1> HIDE DEF p
<1>5. p \in Pages /\ File(p, "engine", "this", 2, EffectiveDpi(r[1], r[2])) = Complete(p)
  BY <1>2, <1>3, <1>4, DpiOfPage DEF Complete
<1>6. dir' = Put(Complete(p))
  BY <1>1, <1>5 DEF p
<1>7. \A x : Complete(x)' = Complete(x) /\ Known(x)' = Known(x)
  BY <1>1 DEF planVars, Complete, Known, Pages
<1>8. ASSUME NEW f \in dir' PROVE Known(f)'
  <2>1. f \in dir \/ f = Complete(p)
    BY <1>6 DEF Put
  <2> QED
    BY <1>2, <1>5, <1>7, <2>1, CompleteKnown DEF DirInv
<1>9. ASSUME NEW q \in ranges, NEW x \in q[1] .. written'[q] PROVE Complete(x) \in dir'
  <2>1. CASE x = p
    BY <1>6, <2>1 DEF Put
  <2>2. CASE x # p
    <3>1. x \in q[1] .. written[q]
      <4>1. CASE q = r
        <5>1. written'[q] = p
          BY <1>1, <1>2, <4>1 DEF p
        <5> QED
          BY <1>2, <1>3, <2>2, <4>1, <5>1 DEF p
      <4>2. CASE q # r
        <5>1. written'[q] = written[q]
          BY <1>1, <1>2, <4>2
        <5> QED
          BY <5>1
      <4> QED
        BY <4>1, <4>2
    <3>2. Complete(x) \in dir
      BY <1>2, <3>1 DEF DirInv
    <3>3. Complete(x).page = x /\ Complete(p).page = p
      BY FileFields DEF Complete
    <3> QED
      BY <1>6, <2>2, <3>2, <3>3, PutKeeps
  <2> QED
    BY <2>1, <2>2
<1> QED
  BY <1>1, <1>2, <1>7, <1>8, <1>9 DEF DirInv, planVars

LEMMA DirLeaveStray ==
    ASSUME RangeInv, DirInv, NEW r \in ranges, LeaveStray(r)
    PROVE  DirInv'
<1>1. /\ r \in active /\ pc' = pc /\ written' = written /\ UNCHANGED planVars
      /\ \E p \in r[1] .. r[2] :
            dir' = Put(File(p, "other", "partial", 1, EffectiveDpi(r[1], r[2])))
  BY DEF LeaveStray
<1>2. pc = "rendering" /\ Given
  BY <1>1 DEF RangeInv, Idle
<1>3. PICK p \in r[1] .. r[2] :
        dir' = Put(File(p, "other", "partial", 1, EffectiveDpi(r[1], r[2])))
  BY <1>1
<1> DEFINE stray == File(p, "other", "partial", 1, EffectiveDpi(r[1], r[2]))
<1>4. p \in Pages /\ p \in Nat
  BY <1>2, AreRanges, DpiOfPage, GivenFacts
<1>5. stray.page = p /\ stray.padding = "other" /\ stray.of = "partial" /\ stray.size = 1
      /\ stray = File(stray.page, stray.padding, stray.of, stray.size, stray.dpi)
  BY FileFields
<1> HIDE DEF stray
<1>6. Known(stray)
  BY <1>4, <1>5 DEF Known, Padding
<1>7. \A x : Complete(x)' = Complete(x) /\ Known(x)' = Known(x)
  BY <1>1 DEF planVars, Complete, Known, Pages
<1>8. dir' = Put(stray)
  BY <1>3 DEF stray
<1>9. ASSUME NEW f \in dir' PROVE Known(f)
  BY <1>2, <1>6, <1>8 DEF DirInv, Put
<1>10. ASSUME NEW q \in ranges, NEW x \in q[1] .. written[q] PROVE Complete(x) \in dir'
  <2>1. Complete(x) \in dir /\ Complete(x).padding = "engine"
    BY <1>2, FileFields DEF DirInv, Complete
  <2> QED
    BY <1>5, <1>8, <2>1, PutKeeps
<1> QED
  BY <1>1, <1>2, <1>7, <1>9, <1>10 DEF DirInv, planVars

\* Of the files of one page there is a largest, and it is the one kept.
LEMMA KeptIs ==
    ASSUME \A f \in dir : Known(f), NEW p, \E f \in dir : f.page = p
    PROVE  /\ Kept(p) \in dir /\ Kept(p).page = p
           /\ \A g \in dir : g.page = p => g.size <= Kept(p).size
<1> DEFINE files == {f \in dir : f.page = p}
<1>1. \A f \in files : f.size \in 1 .. 3
  BY DEF Known
<1>2. \E f \in files : \A g \in files : g.size <= f.size
  <2> HIDE DEF files
  <2>1. CASE \E f \in files : f.size = 3
    BY <1>1, <2>1
  <2>2. CASE ~(\E f \in files : f.size = 3) /\ \E f \in files : f.size = 2
    BY <1>1, <2>2
  <2>3. CASE \A f \in files : f.size = 1
    <3>1. PICK f \in files : TRUE
      BY DEF files
    <3> QED
      BY <2>3, <3>1
  <2> QED
    BY <1>1, <2>1, <2>2, <2>3
<1>3. Kept(p) = CHOOSE f \in files : \A g \in files : g.size <= f.size
  BY DEF Kept
<1> HIDE DEF files
<1>4. Kept(p) \in files /\ \A g \in files : g.size <= Kept(p).size
  BY <1>2, <1>3
<1> QED
  BY <1>4 DEF files

Final(f) == [f EXCEPT !.padding = "final"]

LEMMA FinalIs ==
    ASSUME NEW f, Known(f)
    PROVE  Final(f) = File(f.page, "final", f.of, f.size, f.dpi)
<1>1. f = [page |-> f.page, padding |-> f.padding, of |-> f.of, size |-> f.size, dpi |-> f.dpi]
  BY DEF Known, File
<1> QED
  BY <1>1 DEF Final, File

LEMMA ResultCollect ==
    ASSUME RangeInv, DirInv, Collect
    PROVE  ResultInv'
<1>1. /\ pc = "rendering" /\ todo = {} /\ active = {} /\ failed = {} /\ pc' = "done"
      /\ dir' = result' /\ UNCHANGED planVars
      /\ result' = {Final(Kept(p)) : p \in {f.page : f \in dir}}
  BY DEF Collect, Final
<1>2. Given /\ ranges = Ranges /\ \A r \in ranges : written[r] = r[2]
  BY <1>1 DEF RangeInv
<1>3. (\A f \in dir : Known(f)) /\ \A r \in ranges : \A p \in r[1] .. r[2] : Complete(p) \in dir
  BY <1>1, <1>2 DEF DirInv
<1>4. ASSUME NEW p \in Pages PROVE Complete(p) \in dir /\ Complete(p).page = p /\ Complete(p).size = 2
  <2>1. PICK r \in Ranges : p \in r[1] .. r[2]
    BY <1>2, RangesFacts
  <2> QED
    BY <1>2, <1>3, <2>1, CompleteKnown
<1>5. ASSUME NEW p \in {f.page : f \in dir}
      PROVE  /\ Kept(p) \in dir /\ Kept(p).page = p /\ Known(Kept(p))
             /\ \A g \in dir : g.page = p => g.size <= Kept(p).size
             /\ Final(Kept(p)) = File(p, "final", Kept(p).of, Kept(p).size, Kept(p).dpi)
  <2>1. \E f \in dir : f.page = p
    OBVIOUS
  <2>2. Kept(p) \in dir /\ Kept(p).page = p /\ \A g \in dir : g.page = p => g.size <= Kept(p).size
    BY <1>3, <2>1, KeptIs
  <2>3. Known(Kept(p))
    BY <1>3, <2>2
  <2> QED
    BY <2>2, <2>3, FinalIs
<1>6. ASSUME NEW h \in result'
      PROVE  /\ h.page \in {f.page : f \in dir} /\ h = Final(Kept(h.page))
             /\ h.page \in Nat /\ h.padding \in Padding
             /\ \/ h.of = "earlier"
                \/ h.page \in Pages
                   /\ h = File(h.page, "final", "this", 2, ClampedDpi(doc[h.page]))
  <2>1. PICK p \in {f.page : f \in dir} : h = Final(Kept(p))
    BY <1>1
  <2>2. h = File(p, "final", Kept(p).of, Kept(p).size, Kept(p).dpi) /\ Known(Kept(p))
        /\ Kept(p).page = p
    BY <1>5, <2>1
  <2>3. h.page = p /\ h.padding = "final" /\ h.of = Kept(p).of
    BY <2>2, FileFields
  <2>4. p \in Nat /\ "final" \in Padding
    BY <2>2 DEF Known, Padding
  <2>5. CASE Kept(p).of = "earlier"
    BY <2>1, <2>3, <2>4, <2>5
  <2>6. CASE p \in Pages /\ Kept(p) = Complete(p)
    <3>1. Kept(p).of = "this" /\ Kept(p).size = 2 /\ Kept(p).dpi = ClampedDpi(doc[p])
      BY <2>6, FileFields DEF Complete
    <3> QED
      BY <2>1, <2>2, <2>3, <2>4, <2>6, <3>1
  <2>7. CASE p \in Pages /\ Kept(p).size = 1
    <3>1. 2 <= Kept(p).size
      BY <1>4, <1>5, <2>7
    <3> QED
      BY <2>7, <3>1
  <2> QED
    BY <2>2, <2>5, <2>6, <2>7 DEF Known
<1>7. ASSUME NEW p \in Pages PROVE \E h \in result' : h.page = p
  <2>1. p \in {f.page : f \in dir}
    BY <1>4
  <2>2. Final(Kept(p)) \in result' /\ Final(Kept(p)).page = p
    BY <1>1, <1>5, <2>1, FileFields
  <2> QED
    BY <2>2
<1>8. ASSUME NEW g \in result', NEW h \in result', g.page = h.page PROVE g = h
  BY <1>6, <1>8
<1>9. Pages' = Pages /\ doc' = doc
  BY <1>1 DEF planVars, Pages
<1>10. \A p : ClampedDpi(doc'[p]) = ClampedDpi(doc[p])
  BY <1>9
<1>11. ResultIsDocument'
  BY <1>6, <1>7, <1>8, <1>9, <1>10 DEF ResultIsDocument
<1> QED
  BY <1>1, <1>6, <1>11 DEF ResultInv

LEMMA DirPlan ==
    ASSUME RangeInv, DirInv, Plan
    PROVE  DirInv'
<1>1. /\ pc = "plan" /\ pc' = "rendering" /\ dir' = dir /\ doc' = doc
      /\ written' = [r \in ranges' |-> r[1] - 1]
  BY DEF Plan
<1>2. \A r \in ranges' : r[1] \in Nat
  <2>1. Given /\ ranges' = Ranges
    BY DEF RangeInv, Plan, Ranges, DpiRuns, ShardRun, Pages, PagePeak
  <2> QED
    BY <2>1, RangesNat
<1>3. ASSUME NEW r \in ranges', NEW p \in r[1] .. written'[r] PROVE FALSE
  BY <1>1, <1>2, <1>3
<1>4. \A x : Known(x)' = Known(x)
  BY <1>1 DEF Known, Complete, Pages
<1> QED
  BY <1>1, <1>3, <1>4 DEF DirInv

LEMMA FilesNext == RangeInv /\ DirInv /\ ResultInv /\ [Next]_vars => DirInv' /\ ResultInv'
<1> SUFFICES ASSUME RangeInv, DirInv, ResultInv, [Next]_vars PROVE DirInv' /\ ResultInv'
  OBVIOUS
<1>1. ASSUME UNCHANGED doc
      PROVE  \A x : Complete(x)' = Complete(x) /\ Known(x)' = Known(x)
  BY <1>1 DEF Complete, Known, Pages
<1>2. ASSUME UNCHANGED <<planVars, dir, written>>, pc # "done", pc' # "done"
      PROVE  DirInv' /\ ResultInv'
  <2>1. ranges' = ranges /\ doc' = doc
    BY <1>2 DEF planVars
  <2> QED
    BY <1>1, <1>2, <2>1 DEF DirInv, ResultInv
<1>3. CASE UNCHANGED vars
  <2>1. UNCHANGED <<doc, dir, written, ranges, pc, result>>
    BY <1>3 DEF vars, planVars
  <2>2. ResultIsDocument' = ResultIsDocument
    BY <2>1 DEF ResultIsDocument, Pages
  <2> QED
    BY <1>1, <2>1, <2>2 DEF DirInv, ResultInv
<1>4. CASE Collect
  <2>1. pc' = "done"
    BY <1>4 DEF Collect
  <2> QED
    BY <1>4, <2>1, ResultCollect DEF DirInv
<1>5. CASE Plan
  <2>1. pc' # "done"
    BY <1>5 DEF Plan
  <2> QED
    BY <1>5, <2>1, DirPlan DEF ResultInv
<1>6. CASE Raise
  BY <1>2, <1>6 DEF Raise
<1>7. pc = "rendering" \/ active # {} => pc # "done"
  BY DEF RangeInv
<1>8. ASSUME NEW r \in ranges, Start(r) \/ Finish(r) \/ RenderFails(r)
      PROVE  DirInv' /\ ResultInv'
  <2>1. UNCHANGED <<planVars, dir, written, pc>> /\ (pc = "rendering" \/ active # {})
    BY <1>8 DEF Start, Finish, RenderFails
  <2> QED
    BY <1>2, <1>7, <2>1
<1>9. ASSUME NEW r \in ranges, WritePage(r) \/ LeaveStray(r)
      PROVE  DirInv' /\ ResultInv'
  <2>1. pc' = pc /\ active # {}
    BY <1>9 DEF WritePage, LeaveStray
  <2> QED
    BY <1>7, <1>9, <2>1, DirWritePage, DirLeaveStray DEF ResultInv
<1> QED
  BY <1>3, <1>4, <1>5, <1>6, <1>8, <1>9 DEF Next, Step, RangeStep

\* The inductive invariant, from which the results below follow.
THEOREM Invariant == Spec => []IInv
<1>1. Init => IInv
  BY RangeInit, DirInit DEF IInv
<1>2. IInv /\ [Next]_vars => IInv'
  BY RangeNext, FilesNext DEF IInv
<1> QED
  BY <1>1, <1>2, PTL DEF Spec

-----------------------------------------------------------------------------
\* Type correctness, for any documents and budgets.
THEOREM TypeCorrect == Spec => []TypeOK
<1>1. ASSUME IInv PROVE TypeOK
  <2>1. \A r \in ranges : r \in Pages \X Pages /\ r[1] <= r[2]
    BY <1>1, AreRanges DEF IInv, IsRange
  <2>2. \A r \in active : r \in DOMAIN written /\ written[r] \in r[1] - 1 .. r[2]
    BY <1>1 DEF IInv, RangeInv, Idle
  <2>3. \A f \in dir : f.page \in Nat /\ f.padding \in Padding
    BY <1>1 DEF IInv, DirInv, ResultInv, Known
  <2> QED
    BY <1>1, <2>1, <2>2, <2>3 DEF IInv, RangeInv, Given, TypeOK
<1> QED
  BY <1>1, Invariant, PTL

\* base.py:394-404 and 40-46: for every document, whatever shards it was cut into and
\* whatever partial and older files were there, the result is its pages, each once: see
\* ResultIsDocument.
THEOREM ResultCorrect == Spec => []ResultIsDocument
<1>1. IInv => ResultIsDocument
  BY DEF IInv, ResultInv, ResultIsDocument
<1> QED
  BY <1>1, Invariant, PTL

\* base.py:365-377: no render process writes any more when rasterize is over.
THEOREM NobodyWrites == Spec => []QuietWhenOver
<1>1. IInv => QuietWhenOver
  BY DEF IInv, RangeInv, QuietWhenOver
<1> QED
  BY <1>1, Invariant, PTL
-----------------------------------------------------------------------------
(* The sum of what is rendered.                                            *)

\* What the fold in MapThenSumSet adds to the sum of the rest.
Pick(s) == CHOOSE x \in s : TRUE
Unrolled(g, s) == IF s = {} THEN 0 ELSE Rendered(Pick(s)) + g[s \ {Pick(s)}]

LEMMA PickFacts ==
    ASSUME NEW s, IsFiniteSet(s), s # {}
    PROVE  /\ Pick(s) \in s /\ IsFiniteSet(s \ {Pick(s)})
           /\ Cardinality(s) \in Nat \ {0}
           /\ Cardinality(s \ {Pick(s)}) = Cardinality(s) - 1
<1>1. Pick(s) \in s
  BY DEF Pick
<1>2. Cardinality(s) \in Nat /\ Cardinality(s) # 0
  BY FS_CardinalityType, FS_EmptySet
<1> QED
  BY <1>1, <1>2, FS_RemoveElement

\* There is a function that sums up every part of S.
LEMMA SumExists ==
    ASSUME NEW S, IsFiniteSet(S), \A r \in S : Rendered(r) \in Nat
    PROVE  \E g \in [SUBSET S -> Nat] : \A s \in SUBSET S : g[s] = Unrolled(g, s)
<1> DEFINE Upto(g, n) == \A s \in SUBSET S : Cardinality(s) <= n => g[s] = Unrolled(g, s)
           T == {n \in Nat : ~\E g \in [SUBSET S -> Nat] : Upto(g, n)}
<1>1. \A s \in SUBSET S : IsFiniteSet(s) /\ Cardinality(s) \in Nat /\ Cardinality(s) <= Cardinality(S)
  BY FS_Subset, FS_CardinalityType
<1>2. Cardinality(S) \in Nat
  BY FS_CardinalityType
<1>3. T = {}
  <2>1. SUFFICES ASSUME T # {} PROVE FALSE
    OBVIOUS
  <2>2. PICK n \in T : \A k \in T : n <= k
    <3>1. T \in SUBSET Nat
      OBVIOUS
    <3> HIDE DEF T
    <3> QED
      BY <2>1, <3>1, LeastNat
  <2>3. PICK g \in [SUBSET S -> Nat] : n > 0 => Upto(g, n - 1)
    <3>1. \A k \in Nat : k \notin T => \E g \in [SUBSET S -> Nat] : Upto(g, k)
      OBVIOUS
    <3>4. n \in Nat
      OBVIOUS
    <3> HIDE DEF T, Upto
    <3>2. CASE n > 0
      <4>1. n - 1 \in Nat /\ n - 1 \notin T
        BY <2>2, <3>2, <3>4
      <4> QED
        BY <3>1, <4>1
    <3>3. CASE ~(n > 0)
      <4>1. [s \in SUBSET S |-> 0] \in [SUBSET S -> Nat]
        OBVIOUS
      <4> QED
        BY <3>3, <4>1
    <3> QED
      BY <3>2, <3>3
  <2> DEFINE h == [s \in SUBSET S |-> Unrolled(g, s)]
  <2>4. ASSUME NEW s \in SUBSET S, s # {}
        PROVE  Pick(s) \in S /\ s \ {Pick(s)} \in SUBSET S /\ Rendered(Pick(s)) \in Nat
    BY <1>1, <2>4, PickFacts
  <2>5. h \in [SUBSET S -> Nat]
    <3>1. ASSUME NEW s \in SUBSET S PROVE Unrolled(g, s) \in Nat
      BY <2>3, <2>4 DEF Unrolled
    <3> QED
      BY <3>1
  <2>6. ASSUME NEW s \in SUBSET S, Cardinality(s) <= n PROVE h[s] = Unrolled(h, s)
    <3>1. CASE s = {}
      BY <3>1 DEF Unrolled
    <3>2. CASE s # {}
      <4> DEFINE rest == s \ {Pick(s)}
      <4>1. rest \in SUBSET S /\ Cardinality(rest) = Cardinality(s) - 1 /\ Cardinality(s) \in Nat \ {0}
        BY <1>1, <2>4, <3>2, PickFacts
      <4>2. n \in Nat /\ n > 0 /\ Cardinality(rest) <= n - 1
        BY <2>2, <2>6, <4>1
      <4>3. g[rest] = Unrolled(g, rest)
        BY <2>3, <4>1, <4>2
      <4>4. h[rest] = g[rest]
        BY <4>1, <4>3
      <4> HIDE DEF rest
      <4>5. h[s] = Rendered(Pick(s)) + g[rest]
        BY <3>2 DEF Unrolled, rest
      <4>6. Unrolled(h, s) = Rendered(Pick(s)) + h[rest]
        BY <3>2 DEF Unrolled, rest
      <4> QED
        BY <4>4, <4>5, <4>6
    <3> QED
      BY <3>1, <3>2
  <2> HIDE DEF h
  <2>7. Upto(h, n)
    BY <2>6
  <2> QED
    BY <2>2, <2>5, <2>7
<1>4. PICK g \in [SUBSET S -> Nat] : Upto(g, Cardinality(S))
  BY <1>2, <1>3
<1> QED
  BY <1>1, <1>4

\* A sum is no more than its terms' bound, times how many they are.
LEMMA SumBound ==
    ASSUME NEW S, IsFiniteSet(S), NEW b \in Nat,
           \A r \in S : Rendered(r) \in Nat /\ Rendered(r) <= b
    PROVE  /\ MapThenSumSet(Rendered, S) \in Nat
           /\ MapThenSumSet(Rendered, S) <= Cardinality(S) * b
<1> DEFINE sum == CHOOSE g : g = [s \in SUBSET S |-> Unrolled(g, s)]
           Bad == {n \in Nat : \E s \in SUBSET S :
                       Cardinality(s) = n /\ ~(sum[s] \in Nat /\ sum[s] <= n * b)}
<1>1. MapThenSumSet(Rendered, S) = sum[S]
  BY DEF MapThenSumSet, MapThenFoldSet, Unrolled, Pick
<1>2. sum = [s \in SUBSET S |-> Unrolled(sum, s)]
  <2>1. PICK g \in [SUBSET S -> Nat] : \A s \in SUBSET S : g[s] = Unrolled(g, s)
    BY SumExists
  <2>2. g = [s \in SUBSET S |-> Unrolled(g, s)]
    BY <2>1
  <2> QED
    BY <2>2
<1> HIDE DEF sum
<1>3. \A s \in SUBSET S : IsFiniteSet(s) /\ Cardinality(s) \in Nat
  BY FS_Subset, FS_CardinalityType
<1>4. Bad = {}
  <2>1. SUFFICES ASSUME Bad # {} PROVE FALSE
    OBVIOUS
  <2>2. PICK n \in Bad : \A k \in Bad : n <= k
    <3>1. Bad \in SUBSET Nat
      OBVIOUS
    <3> HIDE DEF Bad
    <3> QED
      BY <2>1, <3>1, LeastNat
  <2>3. PICK s \in SUBSET S : Cardinality(s) = n /\ ~(sum[s] \in Nat /\ sum[s] <= n * b)
    BY <2>2
  <2>4. sum[s] = Unrolled(sum, s)
    BY <1>2
  <2>5. CASE s = {}
    <3>1. sum[s] = 0 /\ n = 0
      BY <2>3, <2>4, <2>5, FS_EmptySet DEF Unrolled
    <3> QED
      BY <2>3, <3>1
  <2>6. CASE s # {}
    <3> DEFINE rest == s \ {Pick(s)}
    <3>1. /\ rest \in SUBSET S /\ Cardinality(rest) = n - 1 /\ n \in Nat \ {0}
          /\ Pick(s) \in S
      BY <1>3, <2>3, <2>6, PickFacts
    <3>2. sum[s] = Rendered(Pick(s)) + sum[rest]
      BY <2>4, <2>6 DEF Unrolled
    <3> HIDE DEF rest
    <3>3. n - 1 \in Nat /\ ~(n <= n - 1)
      BY <3>1
    <3>4. sum[rest] \in Nat /\ sum[rest] <= (n - 1) * b
      BY <2>2, <3>1, <3>3
    <3>5. Rendered(Pick(s)) \in Nat /\ Rendered(Pick(s)) <= b
      BY <3>1
    <3>6. (n - 1) * b = n * b - b /\ n * b \in Nat
      BY <3>1
    <3>7. sum[s] \in Nat /\ sum[s] <= n * b
      BY <3>2, <3>4, <3>5, <3>6
    <3> QED
      BY <2>3, <3>7
  <2> QED
    BY <2>5, <2>6
<1>5. sum[S] \in Nat /\ sum[S] <= Cardinality(S) * b
  <2>1. S \in SUBSET S /\ Cardinality(S) \in Nat
    BY <1>3
  <2> QED
    BY <1>4, <2>1
<1> QED
  BY <1>1, <1>5

-----------------------------------------------------------------------------
(* The memory of the renders.                                              *)

LEMMA QuotientBound ==
    ASSUME NEW x \in Nat, NEW c \in Nat \ {0}, NEW k \in Nat, x <= k * c
    PROVE  x \div c \in Nat /\ x \div c <= k
<1> DEFINE q == x \div c
<1>1. q \in Nat /\ q * c <= x
  OBVIOUS
<1> HIDE DEF q
<1>2. SUFFICES ASSUME q > k PROVE FALSE
  BY <1>1 DEF q
<1>3. (q - (k + 1)) * c >= 0
  BY <1>1, <1>2
<1>4. (q - (k + 1)) * c = q * c - k * c - c
  BY <1>1
<1>5. q * c \in Nat /\ k * c \in Nat
  BY <1>1
<1> QED
  BY <1>1, <1>3, <1>4, <1>5

\* What one render of the document may take at most.
Peak == Max({DefaultPeak, PagePeak(1, Len(doc))})

LEMMA PeakIs ==
    ASSUME Given
    PROVE  /\ Peak \in Nat \ {0} /\ Peak >= DefaultPeak /\ Peak >= PagePeak(1, Len(doc))
           /\ \E m \in Nat \ {0} : /\ Largest(doc) = m /\ \A p \in Pages : doc[p] <= m
                                   /\ PagePeak(1, Len(doc)) = Min({BudgetPx, m})
<1>1. doc \in Seq(Nat \ {0}) /\ Len(doc) \in Nat \ {0} /\ Pages = 1 .. Len(doc)
      /\ 1 \in DOMAIN doc /\ Len(doc) \in DOMAIN doc /\ 1 <= Len(doc)
  BY GivenFacts DEF Pages
<1>2. DefaultPeak \in Nat \ {0} /\ BudgetPx \in Nat
  BY RasterizerAssumption
<1>3. PagePeak(1, Len(doc)) \in Nat
  BY <1>1, PeakFacts
<1>4. Peak \in Nat \ {0} /\ Peak >= DefaultPeak /\ Peak >= PagePeak(1, Len(doc))
  BY <1>2, <1>3, MaxOfTwo, MinMaxNat DEF Peak
<1>5. PICK q \in 1 .. Len(doc) : /\ Max({doc[p] : p \in 1 .. Len(doc)}) = doc[q]
                                 /\ \A p \in 1 .. Len(doc) : doc[p] <= doc[q]
  BY <1>1, LargestPage
<1>6. Largest(doc) = doc[q] /\ PagePeak(1, Len(doc)) = Min({BudgetPx, doc[q]})
  <2>1. DOMAIN doc = 1 .. Len(doc)
    BY <1>1
  <2> QED
    BY <1>5, <2>1, Zenon DEF Largest, PagePeak
<1>7. doc[q] \in Nat \ {0}
  BY <1>1
<1> QED
  BY <1>1, <1>4, <1>5, <1>6, <1>7

\* A page over the budget is clamped until it fits, or to the floor.
LEMMA ClampedFits ==
    ASSUME NEW m \in Nat \ {0}, ~(m <= BudgetPx)
    PROVE  /\ ClampedDpi(m) \in 1 .. Dpi
           /\ \/ ClampedDpi(m) = MinDpi
              \/ ClampedDpi(m) * ClampedDpi(m) * m <= Dpi * Dpi * BudgetPx
<1> DEFINE S == {MinDpi} \cup {d \in 1 .. Dpi : d * d * m <= Dpi * Dpi * BudgetPx}
<1>1. Dpi \in Nat /\ MinDpi \in 1 .. Dpi
  BY RasterizerAssumption
<1>2. S \in SUBSET (1 .. Dpi) /\ S # {}
  BY <1>1
<1>3. ClampedDpi(m) = Max(S)
  BY DEF ClampedDpi
<1>4. \A d \in S : d = MinDpi \/ d * d * m <= Dpi * Dpi * BudgetPx
  OBVIOUS
<1> HIDE DEF S
<1>5. PICK d \in S : \A k \in S : k <= d
  <2>1. S \in SUBSET Nat /\ \A k \in S : k <= Dpi
    BY <1>1, <1>2
  <2> QED
    BY <1>1, <1>2, <2>1, LargestNat
<1>6. Max(S) = d
  <2>1. S \in SUBSET Int
    BY <1>1, <1>2
  <2> QED
    BY <1>5, <2>1, MaxIs
<1>7. d \in 1 .. Dpi
  BY <1>2
<1> QED
  BY <1>3, <1>4, <1>5, <1>6, <1>7

\* No render takes more than the peak, at whatever dpi its largest page leaves it.
LEMMA RenderedFits ==
    ASSUME Given, NEW r, IsRange(r)
    PROVE  Rendered(r) \in Nat /\ Rendered(r) <= Peak
<1>1. doc \in Seq(Nat \ {0}) /\ Pages = 1 .. Len(doc) /\ Len(doc) \in Nat
  BY GivenFacts
<1>2. r[1] \in Pages /\ r[2] \in Pages /\ r[1] <= r[2]
  BY DEF IsRange
<1>3. PICK q \in r[1] .. r[2] : Max({doc[p] : p \in r[1] .. r[2]}) = doc[q]
  BY <1>1, <1>2, LargestPage DEF Pages
<1>4. q \in Pages /\ doc[q] \in Nat \ {0}
  BY <1>1, <1>2
<1> DEFINE m == doc[q]
           d == ClampedDpi(m)
<1>5. Rendered(r) = (m * d * d) \div (Dpi * Dpi)
  BY <1>3 DEF Rendered, EffectiveDpi
<1>6. PICK large \in Nat \ {0} :
          /\ Largest(doc) = large /\ m <= large
          /\ PagePeak(1, Len(doc)) = Min({BudgetPx, large})
  BY <1>4, PeakIs
<1>7. /\ Peak \in Nat /\ DefaultPeak <= Peak /\ Min({BudgetPx, large}) <= Peak
  BY <1>6, PeakIs
<1>8. /\ Dpi \in Nat \ {0} /\ MinDpi \in Nat \ {0} /\ BudgetPx \in Nat /\ DefaultPeak \in Nat
      /\ large * MinDpi * MinDpi <= DefaultPeak * Dpi * Dpi
  <2>1. Dpi \in Nat /\ MinDpi \in 1 .. Dpi /\ BudgetPx \in Nat /\ DefaultPeak \in Nat
    BY RasterizerAssumption
  <2>2. Largest(doc) * MinDpi * MinDpi <= DefaultPeak * Dpi * Dpi
    BY RasterizerAssumption DEF Given
  <2> QED
    BY <1>6, <2>1, <2>2
<1>9. m \in Nat \ {0} /\ (m <= BudgetPx => d = Dpi)
  BY <1>4 DEF ClampedDpi
<1>10. ~(m <= BudgetPx) =>
          d \in 1 .. Dpi /\ (d = MinDpi \/ d * d * m <= Dpi * Dpi * BudgetPx)
  BY <1>9, ClampedFits
<1>11. Min({BudgetPx, large}) \in {BudgetPx, large}
  <2>1. large \in Nat
    BY <1>6
  <2> QED
    BY <1>8, <2>1, MinMaxOfNat, Zenon
<1> HIDE DEF m, d
<1> DEFINE c == Dpi * Dpi
<1>12. c \in Nat \ {0}
  BY <1>8
<1>13. SUFFICES m * d * d \in Nat /\ m * d * d <= Peak * c
  BY <1>5, <1>7, <1>12, QuotientBound
<1>14. ASSUME NEW k \in Nat, k <= Peak PROVE k * c <= Peak * c
  <2> HIDE DEF c
  <2>1. (Peak - k) * c >= 0 /\ (Peak - k) * c = Peak * c - k * c
    BY <1>7, <1>12, <1>14
  <2>2. Peak * c \in Nat /\ k * c \in Nat
    BY <1>7, <1>12
  <2> QED
    BY <2>1, <2>2
<1>15. CASE m <= BudgetPx
  <2>1. m <= Peak
    BY <1>6, <1>7, <1>8, <1>9, <1>11, <1>15
  <2>2. m * d * d = m * c
    BY <1>8, <1>9, <1>15
  <2>3. m * c \in Nat
    BY <1>9, <1>12
  <2> QED
    BY <1>9, <1>14, <2>1, <2>2, <2>3
<1>16. CASE ~(m <= BudgetPx) /\ d = MinDpi
  <2>1. m * d * d \in Nat /\ m * d * d <= large * MinDpi * MinDpi
    <3>1. (large - m) * (MinDpi * MinDpi) >= 0
      BY <1>6, <1>8, <1>9
    <3>2. (large - m) * (MinDpi * MinDpi) = large * MinDpi * MinDpi - m * MinDpi * MinDpi
      BY <1>6, <1>8, <1>9
    <3>3. large * MinDpi * MinDpi \in Nat /\ m * MinDpi * MinDpi \in Nat
      BY <1>6, <1>8, <1>9
    <3> QED
      BY <1>16, <3>1, <3>2, <3>3
  <2>2. DefaultPeak * Dpi * Dpi = DefaultPeak * c /\ DefaultPeak * c \in Nat
    BY <1>8
  <2>3. DefaultPeak * c <= Peak * c
    BY <1>7, <1>8, <1>14
  <2>4. large * MinDpi * MinDpi \in Nat /\ Peak * c \in Nat
    BY <1>6, <1>7, <1>8, <1>12
  <2> HIDE DEF c
  <2> QED
    BY <1>8, <2>1, <2>2, <2>3, <2>4
<1>17. CASE ~(m <= BudgetPx) /\ d * d * m <= Dpi * Dpi * BudgetPx
  <2>1. d \in Nat /\ m * d * d = d * d * m /\ m * d * d \in Nat
    <3>1. d \in Nat
      BY <1>8, <1>10, <1>17
    <3> QED
      BY <1>9, <3>1
  <2>2. BudgetPx <= Peak
    BY <1>6, <1>7, <1>8, <1>9, <1>11, <1>17
  <2>3. Dpi * Dpi * BudgetPx = BudgetPx * c /\ BudgetPx * c \in Nat /\ Peak * c \in Nat
    BY <1>7, <1>8, <1>12
  <2>4. BudgetPx * c <= Peak * c
    BY <1>8, <1>14, <2>2
  <2> HIDE DEF c
  <2> QED
    BY <1>17, <2>1, <2>3, <2>4
<1> QED
  BY <1>10, <1>15, <1>16, <1>17

\* The pool never renders more ranges at a time than it has workers.
PoolInv ==
    /\ pc # "plan" => workers = Workers(Ranges)
    /\ IsFiniteSet(active)
    /\ Cardinality(active) <= Max({1, workers})

LEMMA PoolInit == Init => PoolInv
<1> SUFFICES ASSUME Init PROVE PoolInv
  OBVIOUS
<1>1. pc = "plan" /\ workers = 0 /\ active = {}
  BY DEF Init
<1>2. IsFiniteSet({}) /\ Cardinality({}) = 0
  BY FS_EmptySet
<1>3. Max({1, 0}) >= 1 /\ Max({1, 0}) \in {1, 0}
  BY MaxOfTwo
<1> QED
  BY <1>1, <1>2, <1>3 DEF PoolInv

LEMMA PoolNext == RangeInv /\ PoolInv /\ [Next]_vars => PoolInv'
<1> SUFFICES ASSUME RangeInv, PoolInv, [Next]_vars PROVE PoolInv'
  OBVIOUS
<1>1. ASSUME UNCHANGED <<planVars, active>>, pc = "plan" <=> pc' = "plan" PROVE PoolInv'
  BY <1>1 DEF planVars, PoolInv, Workers, Ranges, DpiRuns, ShardRun, Pages, PagePeak
<1>2. ASSUME UNCHANGED planVars, pc' = pc, active' \subseteq active PROVE PoolInv'
  <2>1. IsFiniteSet(active') /\ Cardinality(active') <= Cardinality(active)
    BY <1>2, FS_Subset DEF PoolInv
  <2>2. Cardinality(active') \in Nat /\ Cardinality(active) \in Nat
    BY <2>1, FS_CardinalityType DEF PoolInv
  <2>3. workers \in Nat /\ Max({1, workers}) \in {1, workers}
    <3>1. workers \in Nat /\ 1 \in Nat
      BY DEF RangeInv
    <3> QED
      BY <3>1, MinMaxOfNat, Zenon
  <2> QED
    BY <1>2, <2>1, <2>2, <2>3
       DEF planVars, PoolInv, Workers, Ranges, DpiRuns, ShardRun, Pages, PagePeak
<1>3. CASE Plan
  <2>1. workers' = Workers(Ranges)' /\ active' = {} /\ pc' # "plan" /\ RangeInv'
    <3>1. Ranges' = Ranges /\ Workers(Ranges)' = Workers(Ranges)
      BY <1>3 DEF Plan, Ranges, DpiRuns, ShardRun, Workers, Pages, PagePeak
    <3> QED
      BY <1>3, <3>1, RangePlan DEF Plan, RangeInv, Idle, Workers, PagePeak
  <2>2. IsFiniteSet({}) /\ Cardinality({}) = 0
    BY FS_EmptySet
  <2>3. workers' \in Nat /\ Max({1, workers'}) >= 1 /\ Max({1, workers'}) \in {1, workers'}
    <3>1. workers' \in Nat /\ 1 \in Nat
      BY <2>1 DEF RangeInv
    <3> QED
      BY <3>1, MinMaxOfNat, Zenon
  <2> QED
    BY <2>1, <2>2, <2>3 DEF PoolInv
<1>4. CASE Raise \/ Collect \/ UNCHANGED vars
  BY <1>1, <1>4 DEF Raise, Collect, vars
<1>5. ASSUME NEW r \in ranges, Start(r) PROVE PoolInv'
  <2>1. /\ UNCHANGED <<planVars, pc>> /\ active' = active \cup {r}
        /\ Cardinality(active) < Max({1, workers})
    BY <1>5 DEF Start
  <2>2. IsFiniteSet(active') /\ Cardinality(active') <= Cardinality(active) + 1
    <3>1. IsFiniteSet(active) /\ Cardinality(active) \in Nat
      BY FS_CardinalityType DEF PoolInv
    <3>2. /\ IsFiniteSet(active \cup {r})
          /\ Cardinality(active \cup {r}) =
                IF r \in active THEN Cardinality(active) ELSE Cardinality(active) + 1
      BY <3>1, FS_AddElement
    <3> QED
      BY <2>1, <3>1, <3>2
  <2>3. Cardinality(active') \in Nat /\ Cardinality(active) \in Nat
    BY <2>2, FS_CardinalityType DEF PoolInv
  <2>4. workers \in Nat /\ Max({1, workers}) \in {1, workers}
    <3>1. workers \in Nat /\ 1 \in Nat
      BY DEF RangeInv
    <3> QED
      BY <3>1, MinMaxOfNat, Zenon
  <2> QED
    BY <2>1, <2>2, <2>3, <2>4
       DEF planVars, PoolInv, Workers, Ranges, DpiRuns, ShardRun, Pages, PagePeak
<1>6. ASSUME NEW r \in ranges, Finish(r) \/ RenderFails(r) PROVE PoolInv'
  BY <1>2, <1>6 DEF Finish, RenderFails
<1>7. ASSUME NEW r \in ranges, WritePage(r) \/ LeaveStray(r) PROVE PoolInv'
  BY <1>1, <1>7 DEF WritePage, LeaveStray
<1> QED
  BY <1>3, <1>4, <1>5, <1>6, <1>7 DEF Next, Step, RangeStep

\* More than one render at a time is allowed only as far as the peak fits.
LEMMA WorkersFit ==
    ASSUME Given, Workers(Ranges) > 1
    PROVE  Workers(Ranges) * Peak <= UsablePx
<1> DEFINE n == Workers(Ranges)
           ops == MaxConcurrentPageOps(PagePeak(1, Len(doc)))
           each == UsablePx \div Peak
<1>1. n \in Nat /\ n > 1
  BY WorkersNat
<1>2. Peak \in Nat \ {0} /\ UsablePx \in Nat /\ Ceiling \in Nat
  BY PeakIs, RasterizerAssumption
<1>3. each \in Nat /\ each * Peak <= UsablePx
  BY <1>2
<1>4. ops = Max({1, Min({Ceiling, each})})
  BY DEF MaxConcurrentPageOps, Peak
<1> HIDE DEF each
<1>5. Min({Ceiling, each}) \in Nat /\ Min({Ceiling, each}) <= each
  BY <1>2, <1>3, MinMaxOfNat, MinMaxNat, Zenon
<1>6. ops \in {1, Min({Ceiling, each})}
  <2>1. 1 \in Nat
    OBVIOUS
  <2> QED
    BY <1>4, <1>5, <2>1, MinMaxOfNat, Zenon
<1>7. n <= ops
  <2>1. Len(doc) \in Nat \ {0} /\ Pages = 1 .. Len(doc) /\ cpuBudget \in Nat
    BY GivenFacts
  <2>2. ops \in Nat
    BY <2>1, PeakFacts
  <2>3. Cardinality(Ranges) \in Nat
    BY RangesFinite, FS_CardinalityType
  <2> HIDE DEF ops, n
  <2>4. cpuBudget \in Int /\ ops \in Int /\ Cardinality(Ranges) \in Int
    BY <2>1, <2>2, <2>3
  <2>5. n = Min({cpuBudget, ops, Cardinality(Ranges)})
    BY DEF Workers, ops, n
  <2> QED
    BY <2>4, <2>5, MinOfThree, Zenon
<1> HIDE DEF n, ops
<1>8. n <= each
  BY <1>1, <1>3, <1>5, <1>6, <1>7
<1>9. (each - n) * Peak >= 0 /\ (each - n) * Peak = each * Peak - n * Peak
  BY <1>1, <1>2, <1>3, <1>8
<1>10. each * Peak \in Nat /\ n * Peak \in Nat
  BY <1>1, <1>2, <1>3
<1>11. n * Peak <= UsablePx
  BY <1>2, <1>3, <1>9, <1>10
<1> QED
  BY <1>11 DEF n

\* base.py:349-355: however a document is cut and whatever its pages measure, the renders
\* that go on at the same time fit the worker's memory together.
THEOREM RendersFit == Spec => []RendersFitMemory
<1>1. Init => RangeInv /\ PoolInv
  BY RangeInit, PoolInit
<1>2. RangeInv /\ PoolInv /\ [Next]_vars => RangeInv' /\ PoolInv'
  BY RangeNext, PoolNext
<1>3. RangeInv /\ PoolInv => RendersFitMemory
  <2> SUFFICES ASSUME RangeInv, PoolInv, Cardinality(active) > 1
               PROVE  MapThenSumSet(Rendered, active) <= UsablePx
    BY DEF RendersFitMemory
  <2>1. Given /\ workers \in Nat /\ active \subseteq ranges
    BY DEF RangeInv
  <2>2. Cardinality(active) \in Nat /\ Cardinality(active) <= workers /\ workers > 1
    <3>1. Cardinality(active) \in Nat
      BY FS_CardinalityType DEF PoolInv
    <3>2. Max({1, workers}) \in {1, workers}
      BY <2>1, MaxOfTwo
    <3> QED
      BY <2>1, <3>1, <3>2 DEF PoolInv
  <2>3. active # {}
    BY <2>2, FS_EmptySet
  <2>4. workers = Workers(Ranges)
    BY <2>1, <2>3 DEF PoolInv, RangeInv, Idle
  <2>5. workers * Peak <= UsablePx /\ Peak \in Nat /\ UsablePx \in Nat
    BY <2>1, <2>2, <2>4, WorkersFit, PeakIs, RasterizerAssumption
  <2>6. \A r \in active : Rendered(r) \in Nat /\ Rendered(r) <= Peak
    BY <2>1, AreRanges, RenderedFits
  <2>7. /\ MapThenSumSet(Rendered, active) \in Nat
        /\ MapThenSumSet(Rendered, active) <= Cardinality(active) * Peak
    BY <2>5, <2>6, SumBound DEF PoolInv
  <2>8. Cardinality(active) * Peak <= workers * Peak
    <3>1. (workers - Cardinality(active)) * Peak >= 0
      BY <2>1, <2>2, <2>5
    <3>2. (workers - Cardinality(active)) * Peak = workers * Peak - Cardinality(active) * Peak
      BY <2>1, <2>2, <2>5
    <3>3. workers * Peak \in Nat /\ Cardinality(active) * Peak \in Nat
      BY <2>1, <2>2, <2>5
    <3> QED
      BY <3>1, <3>2, <3>3
  <2>9. ASSUME NEW n \in Nat, NEW k \in Nat, n * Peak <= UsablePx, k * Peak <= n * Peak,
               NEW sum, sum <= k * Peak, sum \in Nat
        PROVE  sum <= UsablePx
    <3>1. n * Peak \in Nat /\ k * Peak \in Nat
      BY <2>5
    <3> QED
      BY <2>5, <2>9, <3>1
  <2> QED
    BY <2>1, <2>2, <2>5, <2>7, <2>8, <2>9
<1> QED
  BY <1>1, <1>2, <1>3, PTL DEF Spec
=============================================================================
