----------------------------- MODULE ShapeProof -----------------------------
(***************************************************************************)
(* What the shape check promises about the samples it lets pass, and that it  *)
(* has no false alarm, for every set of samples and every tolerance.          *)
(***************************************************************************)
EXTENDS MCShapeCheck, WellFoundedInduction, FiniteSetTheorems, TLAPS

(* Every set of naturals has a least element: the form in which the proofs below *)
(* use induction, as the absence of a least counterexample.                     *)
LEMMA LeastElement ==
    ASSUME NEW T \in SUBSET Nat, T # {}
    PROVE  \E n \in T : \A m \in T : n <= m
<1> DEFINE R == {ss \in Nat \X Nat : ss[1] < ss[2]}
<1>1. IsWellFoundedOn(R, Nat)
    BY NatLessThanWellFounded DEF OpToRel
<1>2. PICK x \in T : \A y \in T : ~ (<<y, x>> \in R)
    BY <1>1, WFMin
<1>3. \A y \in T : ~(y < x)
    BY <1>2
<1> QED
    BY <1>3

(* A set of naturals that has every successor of its members, and zero, is all of them. *)
LEMMA Induction ==
    ASSUME NEW T \in SUBSET Nat, 0 \in T, \A n \in T : n + 1 \in T
    PROVE  T = Nat
<1> SUFFICES ASSUME Nat \ T # {} PROVE FALSE
    OBVIOUS
<1>1. PICK n \in Nat \ T : \A m \in Nat \ T : n <= m
    BY LeastElement
<1>2. n # 0 /\ n - 1 \in Nat
    BY <1>1
<1>3. n - 1 \in T
    BY <1>1, <1>2
<1> QED
    BY <1>1, <1>2, <1>3

(* The largest element of a set of numbers up to n. *)
LEMMA MaxIsLargest ==
    ASSUME NEW n \in Nat, NEW s \in SUBSET (1 .. n), s # {}
    PROVE  Max(s) \in s /\ \A k \in s : k <= Max(s)
<1> DEFINE T == {n - k : k \in s}
<1>0. \A k \in s : k \in Int /\ n - k \in Nat
    OBVIOUS
<1>1. T \in SUBSET Nat /\ T # {}
    BY <1>0
<1>2. PICK d \in T : \A e \in T : d <= e
    BY <1>1, LeastElement
<1>3. PICK k \in s : d = n - k
    BY <1>2
<1>4. \A j \in s : k >= j
    <2> TAKE j \in s
    <2>1. n - k <= n - j /\ j \in Int /\ k \in Int
        BY <1>0, <1>2, <1>3
    <2> QED
        BY <2>1
<1> HIDE DEF T
<1> QED
    BY <1>4, Zenon DEF Max

(* What FoldLeft is defined by exists: a function of the subsets of 1 .. n that takes *)
(* off the largest index and applies the step to what is left.                     *)
FoldsBy(it, X, base, step, n) ==
    /\ it \in [SUBSET (1 .. n) -> X]
    /\ \A s \in SUBSET (1 .. n) :
          it[s] = IF s = {} THEN base ELSE step[Max(s)][it[s \ {Max(s)}]]

LEMMA FoldExists ==
    ASSUME NEW X, NEW base \in X, NEW n \in Nat, NEW step \in [1 .. n -> [X -> X]]
    PROVE  \E it : FoldsBy(it, X, base, step, n)
<1> DEFINE T == {m \in Nat : m <= n => \E it : FoldsBy(it, X, base, step, m)}
<1>1. 0 \in T
    <2> DEFINE it == [s \in SUBSET (1 .. 0) |-> base]
    <2>1. \A s \in SUBSET (1 .. 0) : s = {}
        OBVIOUS
    <2>2. FoldsBy(it, X, base, step, 0)
        BY <2>1 DEF FoldsBy
    <2> QED
        BY <2>2
<1>2. ASSUME NEW m \in T PROVE m + 1 \in T
    <2> SUFFICES ASSUME m + 1 <= n PROVE \E it : FoldsBy(it, X, base, step, m + 1)
        OBVIOUS
    <2>1. PICK old : FoldsBy(old, X, base, step, m)
        <3>1. m <= n
            BY <1>2
        <3> QED
            BY <1>2, <3>1
    <2>0. m \in Nat /\ m <= n
        OBVIOUS
    <2> HIDE DEF T
    <2> DEFINE it == [s \in SUBSET (1 .. m + 1) |->
                         IF m + 1 \in s THEN step[m + 1][old[s \ {m + 1}]] ELSE old[s]]
    <2>2. \A s \in SUBSET (1 .. m + 1) : s \ {m + 1} \in SUBSET (1 .. m)
        BY <2>0
    <2>3. \A s \in SUBSET (1 .. m + 1) : m + 1 \notin s => s \in SUBSET (1 .. m)
        BY <2>0
    <2>4. m + 1 \in 1 .. n
        BY <2>0
    <2>5. it \in [SUBSET (1 .. m + 1) -> X]
        BY <2>1, <2>2, <2>3, <2>4 DEF FoldsBy
    <2>6. ASSUME NEW s \in SUBSET (1 .. m + 1)
          PROVE  it[s] = IF s = {} THEN base ELSE step[Max(s)][it[s \ {Max(s)}]]
        <3>1. CASE m + 1 \in s
            <4>0. m + 1 \in Nat /\ s # {} /\ \A k \in s : k \in Nat /\ k <= m + 1
                BY <2>0, <3>1
            <4>1. Max(s) \in s /\ \A k \in s : k <= Max(s)
                BY <4>0, MaxIsLargest
            <4>2. Max(s) = m + 1
                <5>1. Max(s) \in Nat /\ Max(s) <= m + 1 /\ m + 1 <= Max(s)
                    BY <3>1, <4>0, <4>1
                <5> QED
                    BY <4>0, <5>1
            <4>3. it[s \ {m + 1}] = old[s \ {m + 1}]
                BY <2>2
            <4> QED
                BY <3>1, <4>2, <4>3
        <3>2. CASE m + 1 \notin s /\ s # {}
            <4>1. s \in SUBSET (1 .. m) /\ it[s] = old[s]
                BY <2>3, <3>2
            <4>2. Max(s) \in s
                BY <2>0, <3>2, <4>1, MaxIsLargest
            <4> DEFINE r == s \ {Max(s)}
            <4>3. r \in SUBSET (1 .. m) /\ r \in SUBSET (1 .. m + 1) /\ m + 1 \notin r
                BY <3>2, <4>1
            <4> HIDE DEF r
            <4>4. it[r] = old[r]
                BY <4>3
            <4>5. old[s] = step[Max(s)][old[r]]
                BY <2>1, <3>2, <4>1 DEF FoldsBy, r
            <4> QED
                BY <3>2, <4>1, <4>4, <4>5 DEF r
        <3>3. CASE s = {}
            BY <2>1, <3>3 DEF FoldsBy
        <3> QED
            BY <3>1, <3>2, <3>3
    <2> QED
        BY <2>5, <2>6 DEF FoldsBy
<1>3. T = Nat
    <2> HIDE DEF T
    <2>1. T \in SUBSET Nat
        BY DEF T
    <2>2. \A m \in T : m + 1 \in T
        BY <1>2
    <2> QED
        BY <1>1, <2>1, <2>2, Induction
<1>4. n \in T
    <2> HIDE DEF T
    <2> QED
        BY <1>3
<1> QED
    BY <1>4

Point == Nat \X Nat

(* Merging keeps a sequence of points one. *)
LEMMA MergeType ==
    ASSUME NEW c \in Seq(Point), NEW p \in Point
    PROVE  Merge(c, p) \in Seq(Point)
<1>1. CASE c # <<>> /\ In(p) - In(Last(c)) <= MergeEps
    <2>1. Len(c) \in 1 .. Len(c) /\ c[Len(c)] \in Point
        BY <1>1
    <2> DEFINE q == <<In(c[Len(c)]), IF Out(p) > Out(c[Len(c)]) THEN Out(p) ELSE Out(c[Len(c)])>>
    <2>2. q \in Point
        BY <2>1 DEF In, Out, Point
    <2>3. Merge(c, p) = [c EXCEPT ![Len(c)] = q]
        BY <1>1, <2>1 DEF Merge
    <2> HIDE DEF q
    <2> QED
        BY <2>1, <2>2, <2>3
<1>2. CASE ~(c # <<>> /\ In(p) - In(Last(c)) <= MergeEps)
    BY <1>2 DEF Merge
<1> QED
    BY <1>1, <1>2

(* Cleaning takes the points one by one: what FoldLeft makes of the first k of them. *)
Unrolled(g, s) ==
    /\ g \in [0 .. Len(s) -> Seq(Point)] /\ g[0] = <<>>
    /\ \A k \in 1 .. Len(s) : g[k] = Merge(g[k - 1], s[k])

LEMMA MergeUnrolls ==
    ASSUME NEW s \in Seq(Point)
    PROVE  \E g : Unrolled(g, s) /\ FoldLeft(Merge, <<>>, s) = g[Len(s)]
<1> DEFINE n == Len(s)
           step == [k \in 1 .. n |-> [c \in Seq(Point) |-> Merge(c, s[k])]]
           Folds(it) == it = [x \in SUBSET (1 .. n) |->
                                 IF x = {} THEN <<>> ELSE Merge(it[x \ {Max(x)}], s[Max(x)])]
           iter == CHOOSE it : Folds(it)
<1>0. n \in Nat /\ DOMAIN s = 1 .. n /\ \A k \in 1 .. n : s[k] \in Point
    OBVIOUS
<1>1. \E it : Folds(it)
    <2>1. step \in [1 .. n -> [Seq(Point) -> Seq(Point)]]
        BY <1>0, MergeType
    <2>2. <<>> \in Seq(Point)
        OBVIOUS
    <2> HIDE DEF step
    <2>3. PICK it : FoldsBy(it, Seq(Point), <<>>, step, n)
        BY <1>0, <2>1, <2>2, FoldExists
    <2>4. ASSUME NEW x \in SUBSET (1 .. n)
          PROVE  it[x] = IF x = {} THEN <<>> ELSE Merge(it[x \ {Max(x)}], s[Max(x)])
        <3>1. CASE x = {}
            BY <2>3, <3>1 DEF FoldsBy
        <3>2. CASE x # {}
            <4>1. Max(x) \in 1 .. n
                BY <1>0, <3>2, MaxIsLargest
            <4>2. it[x \ {Max(x)}] \in Seq(Point)
                BY <2>3 DEF FoldsBy
            <4>3. it[x] = step[Max(x)][it[x \ {Max(x)}]]
                BY <2>3, <3>2 DEF FoldsBy
            <4> QED
                BY <3>2, <4>1, <4>2, <4>3 DEF step
        <3> QED
            BY <3>1, <3>2
    <2>5. it = [x \in SUBSET (1 .. n) |-> it[x]]
        BY <2>3 DEF FoldsBy
    <2> QED
        BY <2>4, <2>5
<1>2. Folds(iter)
    BY <1>1
<1>3. FoldLeft(Merge, <<>>, s) = iter[1 .. n]
    BY <1>0 DEF FoldLeft, MapThenFoldSet
<1> HIDE DEF iter
<1>4. iter[{}] = <<>>
    BY <1>2
<1>5. ASSUME NEW k \in 1 .. n PROVE iter[1 .. k] = Merge(iter[1 .. k - 1], s[k])
    <2>0. k \in Nat /\ 1 <= k /\ k <= n
        BY <1>0
    <2>1. 1 .. k \in SUBSET (1 .. n) /\ 1 .. k # {} /\ k \in 1 .. k
        <3> HIDE DEF n
        <3>1. k \in 1 .. k
            BY <2>0
        <3>2. 1 .. k \subseteq 1 .. n
            BY <1>0, <2>0
        <3> QED
            BY <3>1, <3>2
    <2>2. Max(1 .. k) \in 1 .. k /\ k <= Max(1 .. k)
        BY <1>0, <2>1, MaxIsLargest
    <2>3. Max(1 .. k) = k /\ (1 .. k) \ {k} = 1 .. k - 1
        BY <1>0, <2>2
    <2> QED
        BY <1>2, <2>1, <2>3
<1> HIDE DEF Folds
<1> DEFINE g == [k \in 0 .. n |-> iter[1 .. k]]
           T == {k \in Nat : k <= n => iter[1 .. k] \in Seq(Point)}
<1>6. \A k \in 0 .. n : iter[1 .. k] \in Seq(Point)
    <2>1. 0 \in T
        <3>1. 1 .. 0 = {}
            OBVIOUS
        <3>2. <<>> \in Seq(Point)
            OBVIOUS
        <3>3. iter[1 .. 0] \in Seq(Point)
            BY <1>4, <3>1, <3>2, Zenon
        <3> QED
            BY <3>3
    <2>2. ASSUME NEW k \in T PROVE k + 1 \in T
        <3> SUFFICES ASSUME k + 1 <= n PROVE iter[1 .. k + 1] \in Seq(Point)
            OBVIOUS
        <3>1. k \in Nat /\ k <= n /\ k + 1 \in 1 .. n /\ (k + 1) - 1 = k
            BY <1>0
        <3>2. iter[1 .. k] \in Seq(Point)
            BY <2>2, <3>1
        <3>3. iter[1 .. k + 1] = Merge(iter[1 .. k], s[k + 1])
            BY <1>5, <3>1
        <3> QED
            BY <1>0, <3>1, <3>2, <3>3, MergeType
    <2>3. T \in SUBSET Nat
        OBVIOUS
    <2>4. T = Nat
        <3> HIDE DEF T
        <3> QED
            BY <2>1, <2>2, <2>3, Induction
    <2> QED
        BY <1>0, <2>4
<1>7. Unrolled(g, s)
    BY <1>0, <1>4, <1>5, <1>6 DEF Unrolled
<1> QED
    BY <1>0, <1>3, <1>7

-----------------------------------------------------------------------------
Ordered(s, n) == \A i, j \in 1 .. n : i < j => Before(s[i], s[j])

(* Samples are ordered by their inputs, and by their outputs where those are the same. *)
LEMMA BeforeOrders ==
    ASSUME NEW p \in Point, NEW q \in Point
    PROVE  /\ p = q \/ Before(p, q) \/ Before(q, p)
           /\ \A r \in Point : Before(p, q) /\ Before(q, r) => Before(p, r)
<1>1. /\ p = <<In(p), Out(p)>> /\ In(p) \in Nat /\ Out(p) \in Nat
      /\ q = <<In(q), Out(q)>> /\ In(q) \in Nat /\ Out(q) \in Nat
    BY DEF Point, In, Out
<1>2. p = q \/ Before(p, q) \/ Before(q, p)
    BY <1>1 DEF Before
<1>3. ASSUME NEW r \in Point, Before(p, q), Before(q, r) PROVE Before(p, r)
    <2>1. In(r) \in Nat /\ Out(r) \in Nat
        BY DEF Point, In, Out
    <2> QED
        BY <1>1, <1>3, <2>1 DEF Before
<1> QED
    BY <1>2, <1>3

(* One more sample has its place among samples that are in order. *)
LEMMA Insert ==
    ASSUME NEW n \in Nat, NEW S \in SUBSET Point, NEW x \in S,
           NEW s \in [1 .. n -> S \ {x}], Ordered(s, n)
    PROVE  \E t \in [1 .. n + 1 -> S] : Ordered(t, n + 1)
<1> DEFINE K == {k \in 1 .. n + 1 : k = n + 1 \/ Before(x, s[k])}
<1>0. x \in Point /\ \A i \in 1 .. n : s[i] \in Point /\ s[i] \in S /\ s[i] # x
    OBVIOUS
<1>1. K \in SUBSET Nat /\ n + 1 \in K
    OBVIOUS
<1>2. PICK k \in K : \A m \in K : k <= m
    BY <1>1, LeastElement
<1>3. k \in 1 .. n + 1 /\ (k <= n => Before(x, s[k]))
    BY <1>2
<1>4. ASSUME NEW i \in 1 .. n, i < k PROVE Before(s[i], x)
    <2>1. ~Before(x, s[i])
        BY <1>2, <1>4
    <2> QED
        BY <1>0, <2>1, BeforeOrders
<1>5. ASSUME NEW i \in 1 .. n, i >= k PROVE Before(x, s[i])
    <2>1. k \in 1 .. n /\ Before(x, s[k])
        BY <1>3, <1>5
    <2>2. k = i \/ Before(s[k], s[i])
        BY <1>5, <2>1 DEF Ordered
    <2> QED
        BY <1>0, <2>1, <2>2, BeforeOrders
<1> HIDE DEF K
<1> DEFINE t == [i \in 1 .. n + 1 |-> IF i < k THEN s[i] ELSE IF i = k THEN x ELSE s[i - 1]]
<1>6. \A i \in 1 .. n + 1 :
          /\ i < k => i \in 1 .. n /\ t[i] = s[i]
          /\ i = k => t[i] = x
          /\ i > k => i - 1 \in 1 .. n /\ i - 1 >= k /\ t[i] = s[i - 1]
    BY <1>3
<1>7. t \in [1 .. n + 1 -> S]
    BY <1>0, <1>3
<1> HIDE DEF t
<1>8. ASSUME NEW i \in 1 .. n + 1, NEW j \in 1 .. n + 1, i < j PROVE Before(t[i], t[j])
    <2>1. CASE j < k
        <3>1. i < k
            BY <1>3, <1>8, <2>1
        <3> QED
            BY <1>6, <1>8, <2>1, <3>1 DEF Ordered
    <2>2. CASE j = k
        BY <1>4, <1>6, <1>8, <2>2
    <2>3. CASE j > k /\ i < k
        <3>1. i \in 1 .. n /\ j - 1 \in 1 .. n /\ i < j - 1
            BY <1>3, <1>6, <2>3
        <3> QED
            BY <1>6, <2>3, <3>1 DEF Ordered
    <2>4. CASE i = k
        <3>1. j > k /\ t[i] = x
            BY <1>3, <1>6, <1>8, <2>4
        <3> QED
            BY <1>5, <1>6, <3>1
    <2>5. CASE i > k
        <3>1. j > k
            BY <1>3, <1>8, <2>5
        <3>2. i - 1 \in 1 .. n /\ j - 1 \in 1 .. n /\ i - 1 < j - 1
            BY <1>6, <1>8, <2>5, <3>1
        <3> QED
            BY <1>6, <2>5, <3>1, <3>2 DEF Ordered
    <2> QED
        BY <1>3, <2>1, <2>2, <2>3, <2>4, <2>5
<1> QED
    BY <1>7, <1>8 DEF Ordered

(* Every finite set of samples can be put in order. *)
LEMMA SortExists ==
    ASSUME NEW S \in SUBSET Point, IsFiniteSet(S)
    PROVE  \E s \in [1 .. Cardinality(S) -> S] : Ordered(s, Cardinality(S))
<1> DEFINE Sorts(n) == \A X \in SUBSET Point :
                          IsFiniteSet(X) /\ Cardinality(X) = n =>
                              \E s \in [1 .. n -> X] : Ordered(s, n)
           T == {n \in Nat : Sorts(n)}
<1>1. Sorts(0)
    <2> SUFFICES ASSUME NEW X \in SUBSET Point PROVE \E s \in [1 .. 0 -> X] : Ordered(s, 0)
        OBVIOUS
    <2>1. [i \in 1 .. 0 |-> 0] \in [1 .. 0 -> X] /\ \A i \in 1 .. 0 : FALSE
        OBVIOUS
    <2> QED
        BY <2>1 DEF Ordered
<1>2. ASSUME NEW n \in Nat, Sorts(n) PROVE Sorts(n + 1)
    <2> SUFFICES ASSUME NEW X \in SUBSET Point, IsFiniteSet(X), Cardinality(X) = n + 1
                 PROVE  \E s \in [1 .. n + 1 -> X] : Ordered(s, n + 1)
        OBVIOUS
    <2>1. X # {}
        BY FS_EmptySet
    <2>2. PICK x \in X : TRUE
        BY <2>1
    <2>3. IsFiniteSet(X \ {x}) /\ Cardinality(X \ {x}) = n
        <3>1. Cardinality(X \ {x}) = Cardinality(X) - 1
            BY <2>2, FS_RemoveElement
        <3> QED
            BY <3>1, FS_RemoveElement
    <2>4. PICK s \in [1 .. n -> X \ {x}] : Ordered(s, n)
        BY <1>2, <2>3
    <2> QED
        BY <2>4, Insert
<1> HIDE DEF Sorts
<1>3. T = Nat
    <2>1. 0 \in T /\ T \in SUBSET Nat /\ \A n \in T : n + 1 \in T
        BY <1>1, <1>2
    <2> HIDE DEF T
    <2> QED
        BY <2>1, Induction
<1>4. Cardinality(S) \in Nat
    BY FS_CardinalityType
<1>5. Sorts(Cardinality(S))
    BY <1>3, <1>4
<1> QED
    BY <1>5 DEF Sorts

(* The samples above min_input, in order. *)
LEMMA SortedIsOrdered ==
    ASSUME NEW points \in SUBSET Point, IsFiniteSet(points)
    PROVE  LET kept == {p \in points : In(p) > MinInput}
           IN  /\ Sorted(points) \in [1 .. Cardinality(kept) -> kept]
               /\ Ordered(Sorted(points), Cardinality(kept))
<1> DEFINE kept == {p \in points : In(p) > MinInput}
           n == Cardinality(kept)
<1>1. kept \in SUBSET Point /\ IsFiniteSet(kept)
    BY FS_Subset
<1>2. \E s \in [1 .. n -> kept] : \A i, j \in 1 .. n : i < j => Before(s[i], s[j])
    <2> HIDE DEF kept
    <2> QED
        BY <1>1, SortExists DEF Ordered
<1>3. Sorted(points) =
          CHOOSE s \in [1 .. n -> kept] : \A i, j \in 1 .. n : i < j => Before(s[i], s[j])
    BY DEF Sorted
<1> HIDE DEF kept
<1>4. /\ Sorted(points) \in [1 .. n -> kept]
      /\ \A i, j \in 1 .. n : i < j => Before(Sorted(points)[i], Sorted(points)[j])
    BY <1>2, <1>3
<1> QED
    BY <1>4 DEF kept, Ordered

(* What is left after cleaning is a sequence of samples. *)
LEMMA CleanedType ==
    ASSUME NEW points \in SUBSET Point, IsFiniteSet(points)
    PROVE  Cleaned(points) \in Seq(Point)
<1> DEFINE kept == {p \in points : In(p) > MinInput}
<1>1. IsFiniteSet(kept) /\ kept \in SUBSET Point
    BY FS_Subset
<1>2. Cardinality(kept) \in Nat /\ Sorted(points) \in [1 .. Cardinality(kept) -> kept]
    BY <1>1, FS_CardinalityType, SortedIsOrdered
<1> HIDE DEF kept
<1>3. Sorted(points) \in Seq(Point) /\ Len(Sorted(points)) \in Nat
    BY <1>1, <1>2
<1>4. PICK g : /\ Unrolled(g, Sorted(points))
               /\ FoldLeft(Merge, <<>>, Sorted(points)) = g[Len(Sorted(points))]
    BY <1>3, MergeUnrolls
<1>5. Cleaned(points) = g[Len(Sorted(points))]
    BY <1>4 DEF Cleaned
<1> QED
    BY <1>3, <1>4, <1>5 DEF Unrolled

(* Inputs, outputs and steps of cleaned samples are numbers. *)
LEMMA SampleTypes ==
    ASSUME NEW c \in Seq(Point)
    PROVE  /\ Len(c) \in Nat
           /\ \A i \in 1 .. Len(c) : In(c[i]) \in Nat /\ Out(c[i]) \in Nat
           /\ \A i \in Steps(c) : i \in 1 .. Len(c) /\ i + 1 \in 1 .. Len(c)
           /\ \A i \in Steps(c) : Dx(c, i) \in Int /\ Dy(c, i) \in Nat
<1>1. Len(c) \in Nat /\ \A i \in 1 .. Len(c) : c[i] \in Point
    OBVIOUS
<1>2. \A i \in 1 .. Len(c) : In(c[i]) \in Nat /\ Out(c[i]) \in Nat
    BY <1>1 DEF Point, In, Out
<1>3. \A i \in Steps(c) : i \in 1 .. Len(c) /\ i + 1 \in 1 .. Len(c)
    BY <1>1 DEF Steps
<1>4. \A i \in Steps(c) : Dx(c, i) \in Int /\ Dy(c, i) \in Nat
    BY <1>2, <1>3 DEF Dx, Dy, Minus
<1> QED
    BY <1>1, <1>2, <1>3, <1>4

-----------------------------------------------------------------------------
(* Small falls from one sample to the next add up to small falls over many. *)
LEMMA FallsAddUp ==
    ASSUME NEW c \in Seq(Point), \A i \in Steps(c) : ~Falls(c, i),
           NEW i \in 1 .. Len(c), NEW j \in 1 .. Len(c), i < j
    PROVE  Out(c[j]) + (j - i) * Uncertainty >= Out(c[i])
<1> DEFINE T == {d \in Nat : i + d <= Len(c) => Out(c[i + d]) + d * Uncertainty >= Out(c[i])}
<1>0. /\ i \in Nat /\ j \in Nat /\ Len(c) \in Nat /\ Uncertainty \in Nat
      /\ \A k \in 1 .. Len(c) : Out(c[k]) \in Nat
    BY ShapeAssumption, SampleTypes
<1>1. 0 \in T
    <2>1. i + 0 = i /\ 0 * Uncertainty = 0 /\ Out(c[i]) \in Nat
        BY <1>0
    <2> QED
        BY <2>1
<1>2. ASSUME NEW d \in T PROVE d + 1 \in T
    <2> SUFFICES ASSUME i + (d + 1) <= Len(c)
                 PROVE  Out(c[i + (d + 1)]) + (d + 1) * Uncertainty >= Out(c[i])
        OBVIOUS
    <2>1. d \in Nat /\ i + d \in Steps(c) /\ i + d \in 1 .. Len(c) /\ i + d + 1 \in 1 .. Len(c)
        BY <1>0 DEF Steps
    <2>2. Out(c[i + d]) + d * Uncertainty >= Out(c[i])
        BY <1>0, <2>1
    <2>3. ~(Out(c[i + d + 1]) + Uncertainty < Out(c[i + d]))
        BY <2>1 DEF Falls
    <2>4. (d + 1) * Uncertainty = d * Uncertainty + Uncertainty /\ d * Uncertainty \in Nat
        BY <1>0, <2>1
    <2>5. i + (d + 1) = i + d + 1
        BY <1>0, <2>1
    <2> HIDE DEF T
    <2> QED
        BY <1>0, <2>1, <2>2, <2>3, <2>4, <2>5
<1>3. T = Nat
    <2>1. T \in SUBSET Nat /\ \A d \in T : d + 1 \in T
        BY <1>2
    <2> HIDE DEF T
    <2> QED
        BY <1>1, <2>1, Induction
<1>4. j - i \in T
    <2> HIDE DEF T
    <2> QED
        BY <1>0, <1>3
<1>5. i + (j - i) = j
    BY <1>0
<1> QED
    BY <1>0, <1>4, <1>5

(* If the slope rises by no more than 2 * e * U per MinDx between two segments and by  *)
(* no more than the noise of one comparison to a third, it rises by no more than          *)
(* 2 * (e + 1) * U per MinDx between the first and the third.                            *)
LEMMA SlopesAddUp ==
    ASSUME NEW M \in Nat \ {0}, NEW U \in Nat, NEW e \in Nat,
           NEW a \in Nat, NEW b \in Nat, NEW d \in Nat, M <= a, M <= b, M <= d,
           NEW p \in Nat, NEW q \in Nat, NEW r \in Nat,
           (q * a - p * b) * M <= 2 * U * e * a * b,
           r * b - q * d <= U * (b + d)
    PROVE  (r * a - p * d) * M <= 2 * U * (e + 1) * a * d
<1> DEFINE Z == (r * a - p * d) * M
           W == 2 * U * (e + 1) * a * d
<1>1. ((q * a - p * b) * M) * d <= (2 * U * e * a * b) * d
    <2>1. \A x, y \in Int : \A z \in Nat : x <= y => x * z <= y * z
        OBVIOUS
    <2>2. (q * a - p * b) * M \in Int /\ 2 * U * e * a * b \in Int
        OBVIOUS
    <2> HIDE DEF Z, W
    <2> QED
        BY <2>1, <2>2
<1>2. (r * b - q * d) * (a * M) <= (U * (b + d)) * (a * M)
    <2>1. \A x, y \in Int : \A z \in Nat : x <= y => x * z <= y * z
        OBVIOUS
    <2>2. r * b - q * d \in Int /\ U * (b + d) \in Int /\ a * M \in Nat
        OBVIOUS
    <2> HIDE DEF Z, W
    <2> QED
        BY <2>1, <2>2
<1>3. (b + d) * M <= 2 * (b * d)
    <2>1. \A x, y, z \in Nat : x <= y => z * x <= z * y
        OBVIOUS
    <2>2. d * M <= d * b /\ b * M <= b * d
        BY <2>1
    <2> QED
        BY <2>2
<1>4. (U * (b + d)) * (a * M) <= (U * a) * (2 * (b * d))
    <2>1. \A x, y, z \in Nat : x <= y => z * x <= z * y
        OBVIOUS
    <2>2. (U * a) * ((b + d) * M) <= (U * a) * (2 * (b * d))
        <3>1. U * a \in Nat /\ (b + d) * M \in Nat /\ 2 * (b * d) \in Nat
            OBVIOUS
        <3> QED
            BY <1>3, <2>1, <3>1
    <2>3. (U * (b + d)) * (a * M) = (U * a) * ((b + d) * M)
        OBVIOUS
    <2> QED
        BY <2>2, <2>3
<1>5. ((q * a - p * b) * M) * d + (r * b - q * d) * (a * M) = b * Z
    OBVIOUS
<1>6. (2 * U * e * a * b) * d + (U * a) * (2 * (b * d)) = b * W
    OBVIOUS
<1>7. Z \in Int /\ W \in Int /\ b > 0
    OBVIOUS
<1>8. b * Z <= b * W
    <2>1. /\ ((q * a - p * b) * M) * d \in Int /\ (r * b - q * d) * (a * M) \in Int
          /\ (2 * U * e * a * b) * d \in Int /\ (U * a) * (2 * (b * d)) \in Int
          /\ (U * (b + d)) * (a * M) \in Int
        OBVIOUS
    <2> HIDE DEF Z, W
    <2> QED
        BY <1>1, <1>2, <1>4, <1>5, <1>6, <2>1
<1>9. \A x, y \in Int : b * x <= b * y => x <= y
    <2> TAKE x, y \in Int
    <2>1. x > y => x >= y + 1
        OBVIOUS
    <2>2. x >= y + 1 => b * x >= b * y + b
        OBVIOUS
    <2> QED
        BY <1>7, <2>1, <2>2
<1> HIDE DEF Z, W
<1>10. Z <= W
    BY <1>7, <1>8, <1>9
<1> QED
    BY <1>10 DEF Z, W

(* Small steepenings from one wide segment to the next add up to small steepenings over *)
(* many: the least segment that is too steep for segment i would be so for the one       *)
(* before it, too.                                                                     *)
LEMMA SteepeningsAddUp ==
    ASSUME NEW c \in Seq(Point),
           \A i, j \in Wide(c) : Follows(c, i, j) => ~Steepens(c, i, j),
           NEW i \in Wide(c), NEW j \in Wide(c), i < j
    PROVE  (Dy(c, j) * Dx(c, i) - Dy(c, i) * Dx(c, j)) * MinDx
               <= 2 * Uncertainty * (j - i) * Dx(c, i) * Dx(c, j)
<1> DEFINE Small(k) == (Dy(c, k) * Dx(c, i) - Dy(c, i) * Dx(c, k)) * MinDx
                          <= 2 * Uncertainty * (k - i) * Dx(c, i) * Dx(c, k)
           T == {k \in Wide(c) : i < k /\ ~Small(k)}
<1>0. /\ MinDx \in Nat \ {0} /\ Uncertainty \in Nat /\ Len(c) \in Nat
      /\ \A k \in Wide(c) : /\ k \in Nat /\ k \in 1 .. Len(c)
                            /\ Dx(c, k) \in Nat /\ MinDx <= Dx(c, k) /\ Dy(c, k) \in Nat
    <2>1. ASSUME NEW k \in Wide(c)
          PROVE  /\ k \in Nat /\ k \in 1 .. Len(c)
                 /\ Dx(c, k) \in Nat /\ MinDx <= Dx(c, k) /\ Dy(c, k) \in Nat
        <3>1. k \in Steps(c) /\ Dx(c, k) >= MinDx
            BY DEF Wide
        <3>2. Dx(c, k) \in Int /\ Dy(c, k) \in Nat /\ k \in 1 .. Len(c)
            BY <3>1, SampleTypes
        <3> QED
            BY <3>1, <3>2, ShapeAssumption
    <2>2. Len(c) \in Nat
        OBVIOUS
    <2> QED
        BY <2>1, <2>2, ShapeAssumption
<1>1. SUFFICES ASSUME T # {} PROVE FALSE
    OBVIOUS
<1>2. T \in SUBSET Nat
    BY <1>0
<1>3. PICK l \in T : \A k \in T : l <= k
    BY <1>1, <1>2, LeastElement
<1>4. l \in Wide(c) /\ i < l /\ ~Small(l) /\ \A k \in Wide(c) : i < k /\ k < l => Small(k)
    BY <1>0, <1>3
<1> HIDE DEF T
<1> DEFINE B == {k \in Wide(c) : i <= k /\ k < l}
           k == Max(B)
<1>5. k \in B /\ \A m \in B : m <= k
    <2> HIDE DEF Small
    <2>1. \A m \in Wide(c) : m \in 1 .. Len(c)
        BY <1>0
    <2>2. i <= i /\ i < l
        BY <1>0, <1>4
    <2>3. B \in SUBSET (1 .. Len(c))
        BY <2>1
    <2>4. i \in B
        BY <2>2
    <2>5. Len(c) \in Nat
        BY <1>0
    <2> HIDE DEF B
    <2> QED
        BY <2>3, <2>4, <2>5, MaxIsLargest
<1>6. k \in Wide(c) /\ i <= k /\ k < l
    BY <1>5
<1>7. Follows(c, k, l)
    <2> SUFFICES ASSUME NEW m \in Wide(c), k < m, m < l PROVE FALSE
        BY <1>6 DEF Follows
    <2>1. m \in B
        BY <1>0, <1>6
    <2> HIDE DEF k, B
    <2> QED
        BY <1>0, <1>5, <1>6, <2>1
<1> HIDE DEF k, B
<1>8. Dy(c, l) * Dx(c, k) - Dy(c, k) * Dx(c, l) <= Uncertainty * (Dx(c, k) + Dx(c, l))
    <2> DEFINE r == Dy(c, l)
               q == Dy(c, k)
               b == Dx(c, k)
               d == Dx(c, l)
               U == Uncertainty
    <2>1. r \in Nat /\ q \in Nat /\ b \in Nat /\ d \in Nat /\ U \in Nat
        BY <1>0, <1>4, <1>6
    <2>2. ~(Minus(r, U) * b > (q + U) * d)
        BY <1>4, <1>6, <1>7 DEF Steepens
    <2> HIDE DEF r, q, b, d, U
    <2>3. r - U <= Minus(r, U) /\ Minus(r, U) \in Nat /\ r - U \in Int
        BY <2>1 DEF Minus
    <2>4. (r - U) * b <= Minus(r, U) * b
        <3>1. \A x, y \in Int : \A z \in Nat : x <= y => x * z <= y * z
            OBVIOUS
        <3> QED
            BY <2>1, <2>3, <3>1
    <2>5. (r - U) * b <= (q + U) * d
        BY <2>1, <2>2, <2>3, <2>4
    <2>6. r * b - q * d <= U * (b + d)
        BY <2>1, <2>5
    <2> QED
        BY <2>6 DEF r, q, b, d, U
<1>9. k - i \in Nat /\ l - i \in Nat /\ k - i + 1 <= l - i
    <2>1. i \in Nat /\ k \in Nat /\ l \in Nat
        BY <1>0, <1>4, <1>6
    <2> QED
        BY <1>4, <1>6, <2>1
<1>10. (Dy(c, k) * Dx(c, i) - Dy(c, i) * Dx(c, k)) * MinDx
           <= 2 * Uncertainty * (k - i) * Dx(c, i) * Dx(c, k)
    <2>1. CASE i < k
        BY <1>4, <1>6, <2>1
    <2>2. CASE k = i
        <3>1. Dx(c, i) \in Nat /\ Dy(c, i) \in Nat
            BY <1>0
        <3>2. /\ (Dy(c, i) * Dx(c, i) - Dy(c, i) * Dx(c, i)) * MinDx = 0
              /\ 2 * Uncertainty * 0 * Dx(c, i) * Dx(c, i) = 0 /\ i - i = 0
            BY <1>0, <3>1
        <3> QED
            BY <2>2, <3>2
    <2> QED
        BY <1>0, <1>6, <2>1, <2>2
<1>11. Small(l)
    <2> DEFINE a == Dx(c, i)
               d == Dx(c, l)
               U == Uncertainty
    <2>1. (Dy(c, l) * Dx(c, i) - Dy(c, i) * Dx(c, l)) * MinDx
              <= 2 * Uncertainty * (k - i + 1) * Dx(c, i) * Dx(c, l)
        BY <1>0, <1>4, <1>6, <1>8, <1>9, <1>10, SlopesAddUp
    <2>2. a \in Nat /\ d \in Nat /\ U \in Nat
        BY <1>0, <1>4
    <2> HIDE DEF a, d, U
    <2>3. \A m, n \in Nat : m <= n => 2 * U * m * a * d <= 2 * U * n * a * d
        <3>1. \A x, m, n \in Nat : m <= n => x * m <= x * n
            OBVIOUS
        <3>2. \A m \in Nat : 2 * U * m * a * d = (2 * U * a * d) * m /\ 2 * U * a * d \in Nat
            BY <2>2
        <3> QED
            BY <3>1, <3>2
    <2>4. 2 * U * (k - i + 1) * a * d <= 2 * U * (l - i) * a * d
        BY <1>9, <2>3
    <2>5. /\ (Dy(c, l) * Dx(c, i) - Dy(c, i) * Dx(c, l)) * MinDx \in Int
          /\ 2 * U * (k - i + 1) * a * d \in Int /\ 2 * U * (l - i) * a * d \in Int
        <3>1. /\ Dy(c, l) \in Nat /\ Dy(c, i) \in Nat /\ MinDx \in Nat
              /\ Dx(c, l) \in Nat /\ Dx(c, i) \in Nat
            BY <1>0, <1>4
        <3>2. k - i + 1 \in Int /\ l - i \in Int /\ a \in Int /\ d \in Int /\ U \in Int
            BY <1>9, <2>2
        <3>3. (Dy(c, l) * Dx(c, i) - Dy(c, i) * Dx(c, l)) * MinDx \in Int
            BY <3>1
        <3>4. \A x \in Int : 2 * U * x * a * d \in Int
            BY <3>2
        <3> QED
            BY <3>2, <3>3, <3>4
    <2> QED
        BY <2>1, <2>4, <2>5 DEF a, d, U
<1> QED
    BY <1>4, <1>11

-----------------------------------------------------------------------------
(* The samples are numbers, finitely many, and those of a curve are on it. *)
SampleInv ==
    /\ samples \in SUBSET Point /\ IsFiniteSet(samples)
    /\ curve \in Curves \cup {NoCurve}
    /\ curve # NoCurve => \A p \in samples : In(p) \in Inputs /\ Out(p) = Quote(curve, In(p))

LEMMA Sampled == Spec => []SampleInv
<1>1. Init => SampleInv
    BY FS_EmptySet DEF Init, SampleInv
<1>2. SampleInv /\ [Next]_<<curve, samples>> => SampleInv'
    <2> SUFFICES ASSUME SampleInv, [Next]_<<curve, samples>> PROVE SampleInv'
        OBVIOUS
    <2>1. ASSUME NEW x \in Inputs, Sample(x) PROVE SampleInv'
        <3>1. PICK y \in IF curve = NoCurve THEN Outputs ELSE {Quote(curve, x)} :
                  samples' = samples \cup {<<x, y>>} /\ curve' = curve
            BY <2>1 DEF Sample
        <3>2. curve # NoCurve => y = Quote(curve, x) /\ y \in Nat
            <4> SUFFICES ASSUME curve # NoCurve PROVE y = Quote(curve, x) /\ Quote(curve, x) \in Nat
                BY <3>1
            <4>1. curve[x] \in Nat /\ Parts \in Nat \ {0}
                BY SamplesAssumption DEF SampleInv
            <4>2. \A m \in Nat : \A n \in Nat \ {0} : m \div n \in Nat
                OBVIOUS
            <4> QED
                BY <3>1, <4>1, <4>2 DEF Quote
        <3>3. x \in Nat /\ y \in Nat
            BY <3>1, <3>2, SamplesAssumption
        <3>4. <<x, y>> \in Point /\ In(<<x, y>>) = x /\ Out(<<x, y>>) = y
            BY <3>3 DEF Point, In, Out
        <3>5. samples' \in SUBSET Point /\ IsFiniteSet(samples')
            BY <3>1, <3>4, FS_AddElement DEF SampleInv
        <3> QED
            BY <3>1, <3>2, <3>4, <3>5 DEF SampleInv, Quote
    <2>2. CASE UNCHANGED <<curve, samples>>
        BY <2>2 DEF SampleInv, Quote
    <2> QED
        BY <2>1, <2>2 DEF Next
<1> QED
    BY <1>1, <1>2, PTL DEF Spec

(* Point a of the cleaned samples stands for sample p. *)
Covers(a, p) == In(a) <= In(p) /\ In(p) <= In(a) + MergeEps /\ Out(p) <= Out(a)

(* Cleaned samples are further apart than MergeEps; each sample of S has the point that *)
(* stands for it; each point has its input from a sample, and its output from one that   *)
(* it stands for.                                                                      *)
Groups(c, S) ==
    /\ \A i, j \in 1 .. Len(c) : i < j => In(c[i]) + MergeEps < In(c[j])
    /\ \A p \in S : \E i \in 1 .. Len(c) : Covers(c[i], p)
    /\ \A i \in 1 .. Len(c) : \E p \in S : Covers(c[i], p) /\ Out(p) = Out(c[i])
    /\ \A i \in 1 .. Len(c) : \E p \in S : In(p) = In(c[i])

(* One more sample joins the last group or starts one. *)
LEMMA MergeGroups ==
    ASSUME NEW S \in SUBSET Point, NEW c \in Seq(Point), Groups(c, S), NEW p \in Point,
           c # <<>> => In(c[Len(c)]) <= In(p)
    PROVE  /\ Groups(Merge(c, p), S \cup {p}) /\ Merge(c, p) # <<>>
           /\ In(Merge(c, p)[Len(Merge(c, p))]) <= In(p)
<1>0. /\ MergeEps \in Nat /\ In(p) \in Nat /\ Out(p) \in Nat /\ Len(c) \in Nat
      /\ \A i \in 1 .. Len(c) : c[i] \in Point /\ In(c[i]) \in Nat /\ Out(c[i]) \in Nat
      /\ \A q \in S : In(q) \in Nat /\ Out(q) \in Nat
    BY ShapeAssumption, SampleTypes DEF Point, In, Out
<1>1. CASE c # <<>> /\ In(p) - In(Last(c)) <= MergeEps
    <2> DEFINE l == c[Len(c)]
               q == <<In(l), IF Out(p) > Out(l) THEN Out(p) ELSE Out(l)>>
               d == Merge(c, p)
    <2>1. Len(c) \in 1 .. Len(c) /\ Last(c) = l
        BY <1>1, <1>0 DEF Last
    <2>2. d = [c EXCEPT ![Len(c)] = q]
        BY <1>1, <2>1 DEF Merge
    <2>3. /\ In(q) = In(l) /\ Out(q) \in Nat /\ q \in Point
          /\ Out(q) = Out(p) \/ Out(q) = Out(l)
          /\ Out(p) <= Out(q) /\ Out(l) <= Out(q)
        BY <1>0, <2>1 DEF In, Out, Point
    <2>4. In(l) \in Nat /\ In(l) <= In(p) /\ In(p) <= In(l) + MergeEps
        BY <1>0, <1>1, <2>1
    <2> HIDE DEF q
    <2>5. /\ Len(d) = Len(c) /\ d[Len(c)] = q
          /\ \A i \in 1 .. Len(c) : i # Len(c) => d[i] = c[i]
          /\ d \in Seq(Point)
        BY <2>1, <2>2, <2>3
    <2> HIDE DEF d
    <2>6. \A i \in 1 .. Len(c) : In(d[i]) = In(c[i]) /\ Out(c[i]) <= Out(d[i])
        BY <1>0, <2>3, <2>5
    <2>7. Covers(q, p)
        BY <2>3, <2>4 DEF Covers
    <2>8. ASSUME NEW x \in S \cup {p} PROVE \E i \in 1 .. Len(c) : Covers(d[i], x)
        <3>1. CASE x = p
            BY <2>1, <2>5, <2>7, <3>1
        <3>2. CASE x \in S
            <4>1. PICK i \in 1 .. Len(c) : Covers(c[i], x) BY <3>2 DEF Groups
            <4>2. In(x) \in Nat /\ Out(x) \in Nat BY <1>0, <3>2
            <4>3. Out(d[i]) \in Nat BY <1>0, <2>3, <2>5
            <4>4. Covers(d[i], x) BY <1>0, <2>6, <4>1, <4>2, <4>3 DEF Covers
            <4> QED BY <4>4
        <3> QED BY <3>1, <3>2
    <2>9. ASSUME NEW i \in 1 .. Len(c)
          PROVE  \E x \in S \cup {p} : Covers(d[i], x) /\ Out(x) = Out(d[i])
        <3>1. PICK x \in S : Covers(c[i], x) /\ Out(x) = Out(c[i]) BY DEF Groups
        <3>2. CASE i # Len(c) BY <2>5, <3>1, <3>2
        <3>3. CASE i = Len(c) /\ Out(q) = Out(p) BY <2>5, <2>7, <3>3
        <3>4. CASE i = Len(c) /\ Out(q) = Out(l)
            <4>1. Covers(q, x) /\ Out(x) = Out(q) BY <2>3, <3>1, <3>4 DEF Covers
            <4> QED BY <2>5, <3>4, <4>1
        <3> QED BY <2>3, <3>2, <3>3, <3>4
    <2>10. \A i \in 1 .. Len(c) : \E x \in S \cup {p} : In(x) = In(d[i])
        BY <2>6 DEF Groups
    <2>11. \A i, j \in 1 .. Len(d) : i < j => In(d[i]) + MergeEps < In(d[j])
        BY <2>5, <2>6 DEF Groups
    <2>12. Groups(d, S \cup {p})
        BY <2>5, <2>8, <2>9, <2>10, <2>11 DEF Groups
    <2>13. d # <<>> /\ In(d[Len(d)]) <= In(p)
        BY <2>1, <2>3, <2>4, <2>5
    <2> QED BY <2>12, <2>13 DEF d
<1>2. CASE ~(c # <<>> /\ In(p) - In(Last(c)) <= MergeEps)
    <2> DEFINE d == Merge(c, p)
    <2>1. d = Append(c, p)
        BY <1>2 DEF Merge
    <2>2. /\ Len(d) = Len(c) + 1 /\ d[Len(c) + 1] = p
          /\ \A i \in 1 .. Len(c) : d[i] = c[i]
        BY <1>0, <2>1
    <2>3. d # <<>> BY <1>0, <2>1
    <2> HIDE DEF d
    <2>4. \A i \in 1 .. Len(c) : In(c[i]) + MergeEps < In(p)
        <3> SUFFICES ASSUME NEW i \in 1 .. Len(c) PROVE In(c[i]) + MergeEps < In(p)
            OBVIOUS
        <3>1. c # <<>> /\ Len(c) \in 1 .. Len(c) BY <1>0
        <3>2. In(p) - In(c[Len(c)]) > MergeEps BY <1>0, <1>2, <3>1 DEF Last
        <3>3. i = Len(c) \/ In(c[i]) + MergeEps < In(c[Len(c)]) BY <1>0, <3>1 DEF Groups
        <3>4. In(c[i]) \in Nat /\ In(c[Len(c)]) \in Nat /\ In(p) \in Nat /\ MergeEps \in Nat
            BY <1>0, <3>1
        <3> QED BY <3>2, <3>3, <3>4
    <2>5. \A i \in 1 .. Len(c) + 1 : i \in 1 .. Len(c) \/ i = Len(c) + 1
        BY <1>0
    <2>6. Covers(p, p) /\ Len(c) + 1 \in 1 .. Len(d) /\ \A i \in 1 .. Len(c) : i \in 1 .. Len(d)
        BY <1>0, <2>2 DEF Covers
    <2>7. \A x \in S \cup {p} : \E i \in 1 .. Len(d) : Covers(d[i], x)
        BY <2>2, <2>6 DEF Groups
    <2>8. \A i \in 1 .. Len(d) : \E x \in S \cup {p} : Covers(d[i], x) /\ Out(x) = Out(d[i])
        BY <2>2, <2>5, <2>6 DEF Groups
    <2>9. \A i \in 1 .. Len(d) : \E x \in S \cup {p} : In(x) = In(d[i])
        BY <2>2, <2>5 DEF Groups
    <2>10. ASSUME NEW i \in 1 .. Len(d), NEW j \in 1 .. Len(d), i < j
           PROVE  In(d[i]) + MergeEps < In(d[j])
        <3>1. i \in 1 .. Len(c) BY <1>0, <2>2, <2>10
        <3>2. CASE j \in 1 .. Len(c) BY <2>2, <2>10, <3>1, <3>2 DEF Groups
        <3>3. CASE j = Len(c) + 1 BY <2>2, <2>4, <3>1, <3>3
        <3> QED BY <2>2, <2>5, <3>2, <3>3
    <2>11. In(d[Len(d)]) <= In(p)
        BY <1>0, <2>2
    <2> QED BY <2>3, <2>7, <2>8, <2>9, <2>10, <2>11 DEF Groups, d
<1> QED BY <1>1, <1>2

(* The samples in order are all of them. *)
LEMMA SortedAreAll ==
    ASSUME NEW S \in SUBSET Point, IsFiniteSet(S), NEW s \in [1 .. Cardinality(S) -> S],
           Ordered(s, Cardinality(S))
    PROVE  \A p \in S : \E k \in 1 .. Cardinality(S) : s[k] = p
<1> DEFINE n == Cardinality(S)
<1>1. n \in Nat
    BY FS_CardinalityType
<1>2. Cardinality(1 .. n) = n
    BY <1>1, FS_Interval
<1>3. ASSUME NEW i \in 1 .. n, NEW j \in 1 .. n, s[i] = s[j] PROVE i = j
    <2>1. s[i] \in Point /\ In(s[i]) \in Nat /\ Out(s[i]) \in Nat
        BY DEF Point, In, Out
    <2>2. ~Before(s[i], s[j]) /\ ~Before(s[j], s[i])
        BY <1>3, <2>1 DEF Before
    <2>3. ~(i < j) /\ ~(j < i)
        BY <2>2 DEF Ordered
    <2> QED BY <1>1, <2>3
<1> HIDE DEF n
<1>4. s \in [1 .. n -> S]
    BY DEF n
<1>5. s \in Injection(1 .. n, S)
    BY <1>3, <1>4 DEF Injection, IsInjective
<1>6. s \in Surjection(1 .. n, S)
    BY <1>2, <1>5, FS_Injection DEF n
<1> QED
    BY <1>6 DEF Surjection, n

(* So all the samples are grouped. *)
LEMMA CleanedGroups ==
    ASSUME SampleInv
    PROVE  Cleaned(samples) \in Seq(Point) /\ Groups(Cleaned(samples), Counted)
<1> DEFINE n == Cardinality(Counted)
           s == Sorted(samples)
<1>1. IsFiniteSet(Counted) /\ Counted \in SUBSET Point
    BY FS_Subset DEF SampleInv, Counted
<1>2. n \in Nat /\ s \in [1 .. n -> Counted] /\ Ordered(s, n)
    <2>1. s \in [1 .. n -> Counted] /\ Ordered(s, n)
        BY SortedIsOrdered DEF SampleInv, Counted
    <2> HIDE DEF s
    <2> QED
        BY <1>1, <2>1, FS_CardinalityType
<1>3. \A p \in Counted : \E k \in 1 .. n : s[k] = p
    <2> HIDE DEF s
    <2> QED BY <1>1, <1>2, SortedAreAll
<1> HIDE DEF n, s
<1>4. s \in Seq(Point) /\ Len(s) = n /\ \A i \in 1 .. n : s[i] \in Point /\ In(s[i]) \in Nat
    BY <1>1, <1>2 DEF Point, In
<1>5. \A i, j \in 1 .. n : i < j => In(s[i]) <= In(s[j])
    BY <1>2, <1>4 DEF Ordered, Before
<1>6. PICK g : Unrolled(g, s) /\ FoldLeft(Merge, <<>>, s) = g[n]
    BY <1>4, MergeUnrolls
<1>7. g[0] = <<>> /\ \A k \in 0 .. n : g[k] \in Seq(Point)
    <2>1. g \in [0 .. n -> Seq(Point)] /\ g[0] = <<>>
        BY <1>4, <1>6, Zenon DEF Unrolled
    <2> QED
        BY <2>1
<1> DEFINE First(k) == {s[m] : m \in 1 .. k}
           Good(k) == /\ Groups(g[k], First(k))
                      /\ g[k] # <<>> => k >= 1 /\ In(g[k][Len(g[k])]) <= In(s[k])
           T == {k \in Nat : k <= n => Good(k)}
<1>8. 0 \in T
    <2>1. First(0) = {} /\ Len(<<>>) = 0 /\ 1 .. 0 = {}
        OBVIOUS
    <2> HIDE DEF First
    <2>2. Good(0) BY <1>7, <2>1 DEF Groups
    <2> QED BY <2>2
<1>9. ASSUME NEW k \in T PROVE k + 1 \in T
    <2> SUFFICES ASSUME k + 1 <= n PROVE Good(k + 1)
        OBVIOUS
    <2>1. k \in Nat /\ k + 1 \in 1 .. n /\ k \in 0 .. n /\ (k + 1) - 1 = k
        BY <1>2
    <2>2. Good(k)
        BY <2>1
    <2>3. g[k + 1] = Merge(g[k], s[k + 1])
        BY <1>4, <1>6, <2>1 DEF Unrolled
    <2>4. g[k] \in Seq(Point) /\ s[k + 1] \in Point
        BY <1>4, <1>7, <2>1
    <2>5. g[k] # <<>> => In(g[k][Len(g[k])]) <= In(s[k + 1])
        <3> SUFFICES ASSUME g[k] # <<>> PROVE In(g[k][Len(g[k])]) <= In(s[k + 1])
            OBVIOUS
        <3>1. k \in 1 .. n /\ In(g[k][Len(g[k])]) <= In(s[k])
            BY <1>2, <2>1, <2>2
        <3>2. In(s[k]) <= In(s[k + 1])
            BY <1>5, <2>1, <3>1
        <3>3. In(s[k]) \in Nat /\ In(s[k + 1]) \in Nat
            BY <1>4, <2>1, <3>1
        <3>4. In(g[k][Len(g[k])]) \in Nat
            <4>1. \A p \in Point : In(p) \in Nat
                BY DEF Point, In
            <4> HIDE DEF Good, T
            <4>2. Len(g[k]) \in 1 .. Len(g[k])
                BY <2>4
            <4> QED BY <2>4, <4>1, <4>2
        <3> QED BY <3>1, <3>2, <3>3, <3>4
    <2>6. First(k) \in SUBSET Point /\ First(k + 1) = First(k) \cup {s[k + 1]}
        <3>1. \A m : m \in 1 .. k + 1 <=> m \in 1 .. k \/ m = k + 1
            BY <2>1
        <3>2. \A m \in 1 .. k : s[m] \in Point
            BY <1>2, <1>4, <2>1
        <3> QED BY <3>1, <3>2
    <2> HIDE DEF First
    <2>7. /\ Groups(Merge(g[k], s[k + 1]), First(k) \cup {s[k + 1]})
          /\ In(Merge(g[k], s[k + 1])[Len(Merge(g[k], s[k + 1]))]) <= In(s[k + 1])
        BY <2>2, <2>4, <2>5, <2>6, MergeGroups
    <2>8. Groups(g[k + 1], First(k + 1))
        BY <2>3, <2>6, <2>7
    <2>9. k + 1 >= 1 /\ In(g[k + 1][Len(g[k + 1])]) <= In(s[k + 1])
        BY <2>1, <2>3, <2>7
    <2> QED
        BY <2>8, <2>9
<1>10. T = Nat
    <2>1. T \in SUBSET Nat /\ \A k \in T : k + 1 \in T
        BY <1>9
    <2> HIDE DEF T
    <2> QED
        BY <1>8, <2>1, Induction
<1>11. Groups(g[n], First(n))
    <2>1. n \in T
        <3> HIDE DEF T
        <3> QED BY <1>2, <1>10
    <2>2. n <= n
        BY <1>2
    <2> HIDE DEF First
    <2> QED BY <2>1, <2>2
<1>12. First(n) = Counted
    BY <1>2, <1>3
<1>13. Cleaned(samples) = g[n]
    BY <1>6 DEF Cleaned, s
<1>14. g[n] \in Seq(Point)
    BY <1>2, <1>7
<1> HIDE DEF First
<1> QED
    BY <1>11, <1>12, <1>13, <1>14

(* There are as many samples between two as there are points between theirs. *)
LEMMA BetweenCounts ==
    ASSUME SampleInv, NEW c \in Seq(Point), Groups(c, Counted),
           NEW p \in Counted, NEW q \in Counted,
           NEW i \in 1 .. Len(c), NEW j \in 1 .. Len(c), i < j,
           Covers(c[i], p), Covers(c[j], q)
    PROVE  Cardinality(Between(p, q)) \in Nat /\ j - i <= Cardinality(Between(p, q))
<1>0. /\ Counted \in SUBSET Point /\ IsFiniteSet(Counted)
      /\ MergeEps \in Nat /\ Len(c) \in Nat /\ i \in Nat /\ j \in Nat
      /\ \A k \in 1 .. Len(c) : In(c[k]) \in Nat
      /\ In(p) \in Nat /\ In(q) \in Nat
    <2>1. Counted \in SUBSET Point /\ IsFiniteSet(Counted)
        BY FS_Subset DEF SampleInv, Counted
    <2>2. MergeEps \in Nat
        BY ShapeAssumption
    <2>3. Len(c) \in Nat /\ \A k \in 1 .. Len(c) : In(c[k]) \in Nat
        BY SampleTypes
    <2>4. i \in Nat /\ j \in Nat
        BY <2>3
    <2>5. \A x \in Point : In(x) \in Nat
        BY DEF Point, In
    <2> QED BY <2>1, <2>2, <2>3, <2>4, <2>5
<1> DEFINE f == [k \in i + 1 .. j |-> CHOOSE x \in Counted : In(x) = In(c[k])]
<1>1. ASSUME NEW k \in i + 1 .. j
      PROVE  f[k] \in Counted /\ In(f[k]) = In(c[k]) /\ f[k] \in Between(p, q)
    <2>1. k \in 1 .. Len(c) /\ i < k /\ k <= j
        BY <1>0
    <2>2. \E x \in Counted : In(x) = In(c[k])
        BY <2>1 DEF Groups
    <2>3. f[k] \in Counted /\ In(f[k]) = In(c[k])
        BY <2>2
    <2> HIDE DEF f
    <2>4. In(c[i]) + MergeEps < In(c[k]) /\ In(p) <= In(c[i]) + MergeEps
        BY <2>1 DEF Groups, Covers
    <2>5. k = j \/ In(c[k]) + MergeEps < In(c[j])
        BY <1>0, <2>1 DEF Groups
    <2>6. In(c[j]) <= In(q)
        BY DEF Covers
    <2>7. In(p) < In(c[k]) /\ In(c[k]) <= In(q)
        BY <1>0, <2>1, <2>4, <2>5, <2>6
    <2> QED BY <2>3, <2>7 DEF Between
<1>2. f \in [i + 1 .. j -> Between(p, q)]
    BY <1>1
<1> HIDE DEF f
<1>3. ASSUME NEW k \in i + 1 .. j, NEW m \in i + 1 .. j, f[k] = f[m] PROVE k = m
    <2>1. k \in 1 .. Len(c) /\ m \in 1 .. Len(c)
        BY <1>0
    <2>2. In(c[k]) = In(c[m])
        <3>1. In(f[k]) = In(c[k]) /\ In(f[m]) = In(c[m])
            BY <1>1
        <3> QED BY <1>3, <3>1
    <2>3. /\ k < m => In(c[k]) + MergeEps < In(c[m])
          /\ m < k => In(c[m]) + MergeEps < In(c[k])
        BY <2>1 DEF Groups
    <2>4. In(c[k]) \in Nat /\ In(c[m]) \in Nat /\ MergeEps \in Nat
        BY <1>0, <2>1
    <2>5. ~(k < m) /\ ~(m < k)
        BY <2>2, <2>3, <2>4
    <2> QED BY <1>0, <2>1, <2>5
<1>4. f \in Injection(i + 1 .. j, Between(p, q))
    BY <1>2, <1>3 DEF Injection, IsInjective
<1>5. IsFiniteSet(Between(p, q))
    BY <1>0, FS_Subset DEF Between
<1>6. Cardinality(i + 1 .. j) = j - i
    BY <1>0, FS_Interval
<1>7. Cardinality(Between(p, q)) \in Nat
    BY <1>5, FS_CardinalityType
<1>8. Cardinality(i + 1 .. j) <= Cardinality(Between(p, q))
    BY <1>4, <1>5, FS_Injection
<1> QED BY <1>6, <1>7, <1>8

(* Outputs of samples that pass rise between any two samples that are not merged, up to *)
(* the noise forgiven at each step and up to what a merge hides, for any samples of        *)
(* anything at all.                                                                      *)
THEOREM PassingOutputsRise == Spec => []FallsAreNoise
<1>1. SampleInv => FallsAreNoise
    <2> SUFFICES ASSUME SampleInv, ~ShapeViolation(samples),
                        NEW p \in Counted, NEW q \in Counted, In(p) + MergeEps < In(q)
                 PROVE  \E r \in Counted :
                            /\ Near(q, r) /\ (Apart => r = q)
                            /\ Out(r) + Cardinality(Between(p, q)) * Uncertainty >= Out(p)
        BY DEF FallsAreNoise
    <2> DEFINE c == Cleaned(samples)
    <2>1. c \in Seq(Point) /\ Groups(c, Counted)
        BY CleanedGroups
    <2>2. \A i \in Steps(c) : ~Falls(c, i)
        BY DEF ShapeViolation
    <2> HIDE DEF c
    <2>3. PICK i \in 1 .. Len(c) : Covers(c[i], p)
        BY <2>1 DEF Groups
    <2>4. PICK j \in 1 .. Len(c) : Covers(c[j], q)
        BY <2>1 DEF Groups
    <2>5. PICK r \in Counted : Covers(c[j], r) /\ Out(r) = Out(c[j])
        BY <2>1 DEF Groups
    <2>6. /\ MergeEps \in Nat /\ Uncertainty \in Nat
          /\ i \in Nat /\ j \in Nat
          /\ In(c[i]) \in Nat /\ Out(c[i]) \in Nat /\ In(c[j]) \in Nat /\ Out(c[j]) \in Nat
        BY <2>1, ShapeAssumption, SampleTypes
    <2>7. /\ In(p) \in Nat /\ Out(p) \in Nat /\ In(q) \in Nat /\ In(r) \in Nat /\ Out(r) \in Nat
        BY DEF SampleInv, Counted, Point, In, Out
    <2>8. i < j
        <3>1. i # j
            BY <2>3, <2>4, <2>6, <2>7 DEF Covers
        <3>2. ASSUME j < i PROVE FALSE
            <4>1. In(c[j]) + MergeEps < In(c[i])
                BY <2>1, <3>2 DEF Groups
            <4> QED BY <2>3, <2>4, <2>6, <2>7, <4>1 DEF Covers
        <3> QED BY <2>6, <3>1, <3>2
    <2>9. Near(q, r)
        BY <2>4, <2>5, <2>6, <2>7 DEF Covers, Near
    <2>10. Apart => r = q
        BY <2>6, <2>7, <2>9 DEF Apart, Near, Counted
    <2> DEFINE b == Cardinality(Between(p, q))
    <2>11. b \in Nat /\ j - i <= b
        BY <2>1, <2>3, <2>4, <2>8, BetweenCounts
    <2> HIDE DEF b
    <2>12. Out(c[j]) + (j - i) * Uncertainty >= Out(c[i])
        BY <2>1, <2>2, <2>8, FallsAddUp
    <2>13. (j - i) * Uncertainty <= b * Uncertainty
        <3>1. \A x, y \in Int, z \in Nat : x <= y => x * z <= y * z
            OBVIOUS
        <3> QED BY <2>6, <2>11, <3>1
    <2>14. (j - i) * Uncertainty \in Int /\ b * Uncertainty \in Int
        BY <2>6, <2>11
    <2>15. Out(p) <= Out(c[i])
        BY <2>3 DEF Covers
    <2>16. Out(r) + b * Uncertainty >= Out(p)
        BY <2>5, <2>6, <2>7, <2>12, <2>13, <2>14, <2>15
    <2> QED BY <2>9, <2>10, <2>16 DEF b
<1> QED
    BY <1>1, Sampled, PTL

(* The cleaned points of samples that pass are concave, up to the noise forgiven at each *)
(* comparison, between any two segments that are wide enough, for any samples at all.     *)
THEOREM PassingSlopesFall == Spec => []SteepeningIsNoise
<1>1. SampleInv => SteepeningIsNoise
    <2> SUFFICES ASSUME SampleInv, ~ShapeViolation(samples) PROVE
            LET c == Cleaned(samples)
            IN  \A i, j \in Wide(c) : i < j =>
                   (Dy(c, j) * Dx(c, i) - Dy(c, i) * Dx(c, j)) * MinDx
                       <= 2 * Uncertainty * (j - i) * Dx(c, i) * Dx(c, j)
        BY DEF SteepeningIsNoise
    <2> DEFINE c == Cleaned(samples)
    <2>1. c \in Seq(Point)
        BY CleanedType DEF SampleInv
    <2>2. \A i, j \in Wide(c) : Follows(c, i, j) => ~Steepens(c, i, j)
        BY DEF ShapeViolation
    <2> HIDE DEF c
    <2>3. \A i, j \in Wide(c) : i < j =>
              (Dy(c, j) * Dx(c, i) - Dy(c, i) * Dx(c, j)) * MinDx
                  <= 2 * Uncertainty * (j - i) * Dx(c, i) * Dx(c, j)
        BY <2>1, <2>2, SteepeningsAddUp
    <2> QED
        BY <2>3 DEF c
<1> QED
    BY <1>1, Sampled, PTL

-----------------------------------------------------------------------------
(* Samples that are apart are not merged: cleaning only puts them in order. *)
LEMMA ApartAreKept ==
    ASSUME NEW s \in Seq(Point),
           \A k \in 1 .. Len(s) - 1 : In(s[k + 1]) - In(s[k]) > MergeEps
    PROVE  FoldLeft(Merge, <<>>, s) = s
<1> DEFINE n == Len(s)
<1>1. PICK g : Unrolled(g, s) /\ FoldLeft(Merge, <<>>, s) = g[Len(s)]
    BY MergeUnrolls
<1> DEFINE Kept(k) == Len(g[k]) = k /\ \A i \in 1 .. k : g[k][i] = s[i]
           T == {k \in Nat : k <= n => Kept(k)}
<1>0. n \in Nat /\ \A k \in 0 .. n : g[k] \in Seq(Point)
    <2>1. g \in [0 .. n -> Seq(Point)]
        BY <1>1, Zenon DEF Unrolled
    <2> QED
        BY <2>1
<1>2. 0 \in T
    <2>1. g[0] = <<>> /\ Len(<<>>) = 0 /\ \A i \in 1 .. 0 : FALSE
        BY <1>1 DEF Unrolled
    <2>2. Kept(0)
        BY <2>1
    <2> QED
        BY <2>2
<1>3. ASSUME NEW k \in T PROVE k + 1 \in T
    <2> SUFFICES ASSUME k + 1 <= n PROVE Kept(k + 1)
        OBVIOUS
    <2>1. k \in Nat /\ k + 1 \in 1 .. n /\ k \in 0 .. n /\ (k + 1) - 1 = k
        BY <1>0
    <2>2. Kept(k)
        BY <2>1
    <2>3. g[k + 1] = Merge(g[k], s[k + 1])
        BY <1>1, <2>1 DEF Unrolled
    <2>4. g[k] \in Seq(Point) /\ s[k + 1] \in Point
        BY <1>0, <2>1
    <2>5. g[k] # <<>> => In(s[k + 1]) - In(Last(g[k])) > MergeEps
        <3> SUFFICES ASSUME g[k] # <<>> PROVE In(s[k + 1]) - In(g[k][Len(g[k])]) > MergeEps
            BY DEF Last
        <3>1. k \in 1 .. n - 1
            BY <2>1, <2>2, <2>4
        <3> QED
            BY <2>2, <3>1
    <2>6. g[k + 1] = Append(g[k], s[k + 1])
        <3>1. ~(g[k] # <<>> /\ In(s[k + 1]) - In(Last(g[k])) <= MergeEps)
            <4>1. \A p \in Point : In(p) \in Nat
                BY DEF Point, In
            <4>2. g[k] # <<>> => Last(g[k]) \in Point
                BY <2>4 DEF Last
            <4>3. In(s[k + 1]) \in Nat /\ MergeEps \in Nat /\ (g[k] # <<>> => In(Last(g[k])) \in Nat)
                BY <2>4, <4>1, <4>2, ShapeAssumption
            <4> QED
                BY <2>5, <4>3
        <3> QED
            BY <2>3, <3>1 DEF Merge
    <2> QED
        BY <2>1, <2>2, <2>4, <2>6
<1>4. T = Nat
    <2>1. T \in SUBSET Nat /\ \A k \in T : k + 1 \in T
        BY <1>3
    <2> HIDE DEF T
    <2> QED
        BY <1>2, <2>1, Induction
<1>5. n \in T
    <2> HIDE DEF T
    <2> QED
        BY <1>0, <1>4
<1>6. Len(g[n]) = n /\ g[n] \in Seq(Point) /\ \A i \in 1 .. n : g[n][i] = s[i]
    BY <1>0, <1>5
<1>7. g[n] = s
    BY <1>0, <1>6
<1> QED
    BY <1>1, <1>7

(* Cutting two outputs to whole nanos changes their difference by less than a nano. *)
LEMMA CutDifference ==
    ASSUME NEW P \in Nat \ {0}, NEW u \in Nat, NEW v \in Nat, u <= v
    PROVE  /\ u \div P \in Nat /\ v \div P \in Nat /\ u \div P <= v \div P
           /\ P * ((v \div P) - (u \div P) - 1) <= v - u
           /\ v - u <= P * ((v \div P) - (u \div P) + 1)
<1> DEFINE a == u \div P
           b == v \div P
<1>1. a \in Nat /\ b \in Nat
    BY SMT
<1>2. P * a <= u /\ u < P * a + P /\ P * b <= v /\ v < P * b + P
    BY SMT
<1> HIDE DEF a, b
<1>3. P * (b - a - 1) = P * b - P * a - P /\ P * (b - a + 1) = P * b - P * a + P
    BY <1>1
<1>4. P * a \in Int /\ P * b \in Int
    BY <1>1
<1>5. a <= b
    <2> SUFFICES ASSUME a >= b + 1 PROVE FALSE
        BY <1>1
    <2>1. \A x, y \in Int : x >= y => P * x >= P * y
        OBVIOUS
    <2>2. P * a >= P * (b + 1) /\ P * (b + 1) = P * b + P
        BY <1>1, <2>1
    <2> QED
        BY <1>2, <1>4, <2>2
<1>6. P * (b - a - 1) <= v - u /\ v - u <= P * (b - a + 1)
    BY <1>2, <1>3, <1>4
<1> QED
    BY <1>1, <1>5, <1>6 DEF a, b

(* Two chords of a concave curve, the first d wide and rising by p and the second e wide *)
(* and rising by q, are not told apart once the rises are off by less than a nano each,   *)
(* because a nano and more is forgiven on both sides.                                    *)
LEMMA ChordsAreNoise ==
    ASSUME NEW P \in Nat \ {0}, NEW U \in Nat \ {0}, NEW d \in Nat, NEW e \in Nat,
           NEW p \in Nat, NEW q \in Nat, q * d <= p * e,
           NEW m \in Nat, NEW n \in Nat, p <= P * (m + 1), P * (n - 1) <= q
    PROVE  ~(Minus(n, U) * d > (m + U) * e)
<1>1. CASE n <= U
    <2>1. Minus(n, U) = 0 /\ (m + U) * e \in Nat /\ 0 * d = 0
        BY <1>1 DEF Minus
    <2> QED
        BY <2>1
<1>2. CASE n > U
    <2>1. Minus(n, U) = n - U /\ n - U \in Nat /\ n - 1 \in Nat /\ n - U <= n - 1 /\ m + 1 <= m + U
        BY <1>2 DEF Minus
    <2>2. \A x, y, z \in Nat : x <= y => x * z <= y * z
        OBVIOUS
    <2>3. (n - U) * d <= (n - 1) * d /\ (m + 1) * e <= (m + U) * e
        BY <2>1, <2>2
    <2>4. (P * (n - 1)) * d <= q * d /\ p * e <= (P * (m + 1)) * e
        BY <2>1, <2>2
    <2>5. P * ((n - 1) * d) <= P * ((m + 1) * e)
        <3>1. (P * (n - 1)) * d = P * ((n - 1) * d) /\ (P * (m + 1)) * e = P * ((m + 1) * e)
            BY <2>1
        <3>2. q * d \in Nat /\ p * e \in Nat /\ P * ((n - 1) * d) \in Nat /\ P * ((m + 1) * e) \in Nat
            BY <2>1
        <3> QED
            BY <2>4, <3>1, <3>2
    <2>6. \A x, y \in Nat : P * x <= P * y => x <= y
        <3> SUFFICES ASSUME NEW x \in Nat, NEW y \in Nat, x >= y + 1 PROVE P * x > P * y
            OBVIOUS
        <3>1. \A v, w \in Nat : v >= w => P * v >= P * w
            OBVIOUS
        <3>2. P * x >= P * (y + 1) /\ P * (y + 1) = P * y + P
            BY <3>1
        <3> QED
            BY <3>2
    <2>7. (n - 1) * d \in Nat /\ (m + 1) * e \in Nat /\ (n - U) * d \in Nat /\ (m + U) * e \in Nat
        BY <2>1
    <2> QED
        BY <2>1, <2>3, <2>5, <2>6, <2>7
<1> QED
    BY <1>1, <1>2

(* Samples of which no two are merged: cleaning drops those up to min_input, and puts the *)
(* others in order.                                                                      *)
LEMMA ApartCleaned ==
    ASSUME NEW points \in SUBSET Point, IsFiniteSet(points),
           \A p, q \in points : p = q \/ In(p) - In(q) > MergeEps \/ In(q) - In(p) > MergeEps
    PROVE  LET c == Cleaned(points)
           IN  /\ c \in Seq(Point)
               /\ \A i \in 1 .. Len(c) : c[i] \in points
               /\ \A i, j \in 1 .. Len(c) : i < j => In(c[i]) < In(c[j])
<1> DEFINE kept == {p \in points : In(p) > MinInput}
           n == Cardinality(kept)
           s == Sorted(points)
<1>1. IsFiniteSet(kept) /\ kept \in SUBSET Point /\ kept \subseteq points
    BY FS_Subset
<1>2. n \in Nat /\ s \in [1 .. n -> kept] /\ Ordered(s, n)
    <2>1. s \in [1 .. n -> kept] /\ Ordered(s, n)
        BY SortedIsOrdered
    <2> HIDE DEF kept, s
    <2> QED
        BY <1>1, <2>1, FS_CardinalityType
<1> HIDE DEF kept, n, s
<1>3. s \in Seq(Point) /\ Len(s) = n /\ \A i \in 1 .. n : s[i] \in points /\ s[i] \in Point
    BY <1>1, <1>2
<1>4. ASSUME NEW i \in 1 .. n, NEW j \in 1 .. n, i < j PROVE In(s[j]) - In(s[i]) > MergeEps
    <2>1. Before(s[i], s[j])
        BY <1>2, <1>4 DEF Ordered
    <2>2. /\ In(s[i]) \in Nat /\ Out(s[i]) \in Nat /\ In(s[j]) \in Nat /\ Out(s[j]) \in Nat
          /\ MergeEps \in Nat
        BY <1>3, ShapeAssumption DEF Point, In, Out
    <2>3. In(s[i]) <= In(s[j]) /\ s[i] # s[j]
        BY <2>1, <2>2 DEF Before
    <2>4. s[i] = s[j] \/ In(s[i]) - In(s[j]) > MergeEps \/ In(s[j]) - In(s[i]) > MergeEps
        BY <1>3
    <2> QED
        BY <2>2, <2>3, <2>4
<1>5. Cleaned(points) = s
    <2>1. \A k \in 1 .. Len(s) - 1 : In(s[k + 1]) - In(s[k]) > MergeEps
        <3> SUFFICES ASSUME NEW k \in 1 .. Len(s) - 1 PROVE In(s[k + 1]) - In(s[k]) > MergeEps
            OBVIOUS
        <3>1. k \in 1 .. n /\ k + 1 \in 1 .. n /\ k < k + 1
            BY <1>2, <1>3
        <3> QED
            BY <1>4, <3>1
    <2>2. FoldLeft(Merge, <<>>, s) = s
        BY <1>3, <2>1, ApartAreKept
    <2> QED
        BY <2>2 DEF Cleaned, s
<1>6. \A i, j \in 1 .. n : i < j => In(s[i]) < In(s[j])
    <2> SUFFICES ASSUME NEW i \in 1 .. n, NEW j \in 1 .. n, i < j PROVE In(s[i]) < In(s[j])
        OBVIOUS
    <2>1. In(s[j]) - In(s[i]) > MergeEps
        BY <1>4
    <2>2. In(s[i]) \in Nat /\ In(s[j]) \in Nat /\ MergeEps \in Nat
        BY <1>3, ShapeAssumption DEF Point, In
    <2> QED
        BY <2>1, <2>2
<1> QED
    BY <1>3, <1>5, <1>6

(* The samples of a curve that are apart, in order. *)
LEMMA CurveSamples ==
    ASSUME SampleInv, curve # NoCurve, Apart
    PROVE  LET c == Cleaned(samples)
           IN  /\ c \in Seq(Point)
               /\ \A i \in 1 .. Len(c) : In(c[i]) \in Inputs /\ Out(c[i]) = Quote(curve, In(c[i]))
               /\ \A i, j \in 1 .. Len(c) : i < j => In(c[i]) < In(c[j])
<1> DEFINE c == Cleaned(samples)
<1>1. /\ c \in Seq(Point)
      /\ \A i \in 1 .. Len(c) : c[i] \in samples
      /\ \A i, j \in 1 .. Len(c) : i < j => In(c[i]) < In(c[j])
    BY ApartCleaned DEF SampleInv, Apart
<1> HIDE DEF c
<1>2. \A i \in 1 .. Len(c) : In(c[i]) \in Inputs /\ Out(c[i]) = Quote(curve, In(c[i]))
    BY <1>1 DEF SampleInv
<1> QED
    BY <1>1, <1>2 DEF c

(* Three samples a step apart that rise, the second time by hardly more than the first. *)
LEMMA EvenSteps ==
    ASSUME NEW x \in Nat, NEW p \in Nat, NEW q \in Nat, NEW r \in Nat, p <= q, q <= r,
           r - q <= q - p + 2 * Uncertainty, MergeEps < MinDx
    PROVE  ~ShapeViolation({<<x, p>>, <<x + MinDx, q>>, <<x + 2 * MinDx, r>>})
<1> DEFINE points == {<<x, p>>, <<x + MinDx, q>>, <<x + 2 * MinDx, r>>}
           c == Cleaned(points)
<1>0. MinDx \in Nat \ {0} /\ Uncertainty \in Nat /\ MergeEps \in Nat
    BY ShapeAssumption
<1>1. \A a \in points :
          \/ In(a) = x /\ Out(a) = p /\ a = <<x, p>>
          \/ In(a) = x + MinDx /\ Out(a) = q /\ a = <<x + MinDx, q>>
          \/ In(a) = x + 2 * MinDx /\ Out(a) = r /\ a = <<x + 2 * MinDx, r>>
    BY DEF In, Out
<1>2. points \in SUBSET Point /\ IsFiniteSet(points)
    <2>1. \A S, e : IsFiniteSet(S) => IsFiniteSet(S \cup {e})
        BY FS_AddElement
    <2>2. IsFiniteSet(points)
        <3>1. IsFiniteSet({<<x, p>>} \cup {<<x + MinDx, q>>})
            BY <2>1, FS_Singleton
        <3>2. IsFiniteSet(({<<x, p>>} \cup {<<x + MinDx, q>>}) \cup {<<x + 2 * MinDx, r>>})
            BY <2>1, <3>1
        <3>3. points = ({<<x, p>>} \cup {<<x + MinDx, q>>}) \cup {<<x + 2 * MinDx, r>>}
            OBVIOUS
        <3> HIDE DEF points
        <3> QED
            BY <3>2, <3>3, Zenon
    <2>3. points \in SUBSET Point
        BY <1>0 DEF Point
    <2> QED
        BY <2>2, <2>3
<1>3. \A a, b \in points : a = b \/ In(a) - In(b) > MergeEps \/ In(b) - In(a) > MergeEps
    <2> HIDE DEF points
    <2> QED
        BY <1>0, <1>1
<1>4. /\ c \in Seq(Point)
      /\ \A i \in 1 .. Len(c) : c[i] \in points
      /\ \A i, j \in 1 .. Len(c) : i < j => In(c[i]) < In(c[j])
    <2> HIDE DEF points
    <2> QED
        BY <1>2, <1>3, ApartCleaned
<1> HIDE DEF points, c
<1>5. /\ Len(c) \in Nat
      /\ \A i \in Steps(c) : i \in Nat /\ i \in 1 .. Len(c) /\ i + 1 \in 1 .. Len(c)
    BY <1>4, SampleTypes DEF Steps
<1>6. ASSUME NEW i \in Steps(c) PROVE ~Falls(c, i)
    <2>1. c[i] \in points /\ c[i + 1] \in points /\ In(c[i]) < In(c[i + 1])
        BY <1>4, <1>5
    <2>2. Out(c[i]) <= Out(c[i + 1]) /\ Out(c[i]) \in Nat /\ Out(c[i + 1]) \in Nat
        BY <1>0, <1>1, <2>1
    <2> QED
        BY <1>0, <2>2 DEF Falls
<1>7. ASSUME NEW i \in Wide(c), NEW j \in Wide(c), Follows(c, i, j)
      PROVE  ~Steepens(c, i, j)
    <2>1. i \in Steps(c) /\ j \in Steps(c) /\ i < j
        BY <1>7 DEF Wide, Follows
    <2>2. /\ c[i] \in points /\ c[i + 1] \in points /\ c[j] \in points /\ c[j + 1] \in points
          /\ In(c[i]) < In(c[i + 1]) /\ In(c[j]) < In(c[j + 1])
          /\ c[i + 1] = c[j] \/ In(c[i + 1]) < In(c[j])
        <3>1. i + 1 = j \/ i + 1 < j
            BY <1>5, <2>1
        <3> QED
            BY <1>4, <1>5, <2>1, <3>1
    <2>3. /\ In(c[i]) = x /\ Out(c[i]) = p
          /\ In(c[i + 1]) = x + MinDx /\ Out(c[i + 1]) = q
          /\ In(c[j]) = x + MinDx /\ Out(c[j]) = q
          /\ In(c[j + 1]) = x + 2 * MinDx /\ Out(c[j + 1]) = r
        <3>1. In(c[i]) = x /\ In(c[j + 1]) = x + 2 * MinDx
            BY <1>0, <1>1, <2>2
        <3>2. In(c[i + 1]) = x + MinDx /\ In(c[j]) = x + MinDx
            BY <1>0, <1>1, <2>2, <3>1
        <3>3. x # x + MinDx /\ x # x + 2 * MinDx /\ x + MinDx # x + 2 * MinDx
            BY <1>0
        <3> QED
            BY <1>1, <2>2, <3>1, <3>2, <3>3
    <2>4. Dx(c, i) = MinDx /\ Dx(c, j) = MinDx
        BY <1>0, <2>3 DEF Dx
    <2>5. Dy(c, i) = q - p /\ Dy(c, j) = r - q
        BY <2>3 DEF Dy, Minus
    <2>6. Minus(r - q, Uncertainty) <= (q - p) + Uncertainty /\ Minus(r - q, Uncertainty) \in Nat
        BY <1>0 DEF Minus
    <2>7. \A m, n \in Nat : m <= n => ~(m * MinDx > n * MinDx)
        BY <1>0
    <2>8. ~(Minus(r - q, Uncertainty) * MinDx > ((q - p) + Uncertainty) * MinDx)
        BY <1>0, <2>6, <2>7
    <2> QED
        BY <2>4, <2>5, <2>8 DEF Steepens
<1> QED
    BY <1>6, <1>7 DEF ShapeViolation, c, points

(* An output that a sample may have been lent by one that was merged into it. *)
Lends(x, p) == In(p) <= x /\ x <= In(p) + MergeEps /\ Out(p) = Quote(curve, x)

Lent(c) ==
    /\ \A i \in 1 .. Len(c) : \E x \in Inputs : Lends(x, c[i])
    /\ \A i, j \in 1 .. Len(c) : i < j => In(c[i]) + MergeEps < In(c[j])

(* Cleaning the samples of a curve leaves samples more than MergeEps apart, each with its *)
(* own output or that of an input at most MergeEps further.                              *)
LEMMA MergeLends ==
    ASSUME curve # NoCurve, NEW c \in Seq(Point), Lent(c), NEW p \in Point,
           In(p) \in Inputs, Out(p) = Quote(curve, In(p)),
           c # <<>> => In(c[Len(c)]) <= In(p)
    PROVE  /\ Lent(Merge(c, p)) /\ Merge(c, p) # <<>>
           /\ In(Merge(c, p)[Len(Merge(c, p))]) <= In(p)
<1>0. /\ MergeEps \in Nat /\ In(p) \in Nat /\ Out(p) \in Nat /\ Len(c) \in Nat
      /\ \A i \in 1 .. Len(c) : c[i] \in Point /\ In(c[i]) \in Nat /\ Out(c[i]) \in Nat
    BY ShapeAssumption, SampleTypes DEF Point, In, Out
<1>1. CASE c # <<>> /\ In(p) - In(Last(c)) <= MergeEps
    <2> DEFINE l == c[Len(c)]
               q == <<In(l), IF Out(p) > Out(l) THEN Out(p) ELSE Out(l)>>
    <2>1. Len(c) \in 1 .. Len(c) /\ Last(c) = l
        BY <1>1, <1>0 DEF Last
    <2>2. Merge(c, p) = [c EXCEPT ![Len(c)] = q]
        BY <1>1, <2>1 DEF Merge
    <2>3. In(q) = In(l) /\ (Out(q) = Out(p) \/ Out(q) = Out(l)) /\ q \in Point
        BY <1>0, <2>1 DEF In, Out, Point
    <2>4. In(l) \in Nat /\ In(l) <= In(p) /\ In(p) <= In(l) + MergeEps
        BY <1>0, <1>1, <2>1
    <2>5. \E x \in Inputs : Lends(x, q)
        <3>1. CASE Out(q) = Out(p)
            BY <2>3, <2>4, <3>1 DEF Lends
        <3>2. CASE Out(q) = Out(l)
            <4>1. PICK x \in Inputs : Lends(x, l) BY <2>1 DEF Lent
            <4> QED BY <2>3, <3>2, <4>1 DEF Lends
        <3> QED BY <2>3, <3>1, <3>2
    <2> HIDE DEF q
    <2>6. /\ Len(Merge(c, p)) = Len(c) /\ Merge(c, p)[Len(c)] = q
          /\ \A i \in 1 .. Len(c) : i # Len(c) => Merge(c, p)[i] = c[i]
          /\ Merge(c, p) \in Seq(Point)
        BY <2>1, <2>2, <2>3
    <2>7. \A i \in 1 .. Len(c) : In(Merge(c, p)[i]) = In(c[i])
        BY <2>3, <2>6
    <2>8. \A i \in 1 .. Len(c) : \E x \in Inputs : Lends(x, Merge(c, p)[i])
        BY <2>5, <2>6 DEF Lent
    <2>9. Merge(c, p) # <<>>
        BY <2>1, <2>6
    <2> QED BY <2>1, <2>3, <2>4, <2>6, <2>7, <2>8, <2>9 DEF Lent
<1>2. CASE ~(c # <<>> /\ In(p) - In(Last(c)) <= MergeEps)
    <2>1. Merge(c, p) = Append(c, p)
        BY <1>2 DEF Merge
    <2>2. /\ Len(Merge(c, p)) = Len(c) + 1 /\ Merge(c, p)[Len(c) + 1] = p
          /\ \A i \in 1 .. Len(c) : Merge(c, p)[i] = c[i]
        BY <1>0, <2>1
    <2>3. Lends(In(p), p)
        BY <1>0 DEF Lends
    <2>4. \A i \in 1 .. Len(c) : In(c[i]) + MergeEps < In(p)
        <3> SUFFICES ASSUME NEW i \in 1 .. Len(c) PROVE In(c[i]) + MergeEps < In(p)
            OBVIOUS
        <3>1. c # <<>> /\ Len(c) \in 1 .. Len(c) BY <1>0
        <3>2. In(p) - In(c[Len(c)]) > MergeEps BY <1>0, <1>2, <3>1 DEF Last
        <3>3. i = Len(c) \/ In(c[i]) + MergeEps < In(c[Len(c)]) BY <1>0, <3>1 DEF Lent
        <3> QED BY <1>0, <3>1, <3>2, <3>3
    <2>5. \A i \in 1 .. Len(c) + 1 : i \in 1 .. Len(c) \/ i = Len(c) + 1
        BY <1>0
    <2>6. \A i \in 1 .. Len(c) + 1 : \E x \in Inputs : Lends(x, Merge(c, p)[i])
        BY <2>2, <2>3, <2>5 DEF Lent
    <2>7. ASSUME NEW i \in 1 .. Len(c) + 1, NEW j \in 1 .. Len(c) + 1, i < j
          PROVE  In(Merge(c, p)[i]) + MergeEps < In(Merge(c, p)[j])
        <3>1. i \in 1 .. Len(c) BY <1>0, <2>7
        <3>2. CASE j \in 1 .. Len(c) BY <2>2, <2>7, <3>1, <3>2 DEF Lent
        <3>3. CASE j = Len(c) + 1 BY <2>2, <2>4, <3>1, <3>3
        <3> QED BY <2>5, <3>2, <3>3
    <2>8. Merge(c, p) # <<>> BY <1>0, <2>1
    <2> QED BY <1>0, <2>2, <2>6, <2>7, <2>8 DEF Lent
<1> QED BY <1>1, <1>2

(* The last of some points is a point. *)
LEMMA LastIsPoint ==
    ASSUME NEW c \in Seq(Point), c # <<>>
    PROVE  c[Len(c)] \in Point
<1>1. Len(c) \in 1 .. Len(c)
    OBVIOUS
<1> QED
    BY <1>1

(* So it is of all the samples of a curve. *)
LEMMA CurveCleaned ==
    ASSUME SampleInv, curve # NoCurve
    PROVE  LET c == Cleaned(samples) IN c \in Seq(Point) /\ Lent(c)
<1> DEFINE kept == {p \in samples : In(p) > MinInput}
           n == Cardinality(kept)
           s == Sorted(samples)
<1>1. IsFiniteSet(kept) /\ kept \in SUBSET Point /\ kept \subseteq samples
    BY FS_Subset DEF SampleInv
<1>2. n \in Nat /\ s \in [1 .. n -> kept] /\ Ordered(s, n)
    <2>1. s \in [1 .. n -> kept] /\ Ordered(s, n)
        BY SortedIsOrdered DEF SampleInv
    <2> HIDE DEF kept, s
    <2> QED
        BY <1>1, <2>1, FS_CardinalityType
<1> HIDE DEF kept, n, s
<1>3. /\ s \in Seq(Point) /\ Len(s) = n
      /\ \A i \in 1 .. n : s[i] \in Point /\ In(s[i]) \in Inputs /\ Out(s[i]) = Quote(curve, In(s[i]))
    BY <1>1, <1>2 DEF SampleInv
<1>4. \A i, j \in 1 .. n : i < j => In(s[i]) <= In(s[j])
    <2>1. \A i \in 1 .. n : In(s[i]) \in Nat
        BY <1>3 DEF Point, In
    <2> QED BY <1>2, <2>1 DEF Ordered, Before
<1>5. PICK g : Unrolled(g, s) /\ FoldLeft(Merge, <<>>, s) = g[n]
    BY <1>3, MergeUnrolls
<1>6. g[0] = <<>> /\ \A k \in 0 .. n : g[k] \in Seq(Point)
    <2>1. g \in [0 .. n -> Seq(Point)] /\ g[0] = <<>>
        BY <1>3, <1>5, Zenon DEF Unrolled
    <2> QED
        BY <2>1
<1> DEFINE Good(k) == Lent(g[k]) /\ (g[k] # <<>> => k >= 1 /\ In(g[k][Len(g[k])]) <= In(s[k]))
           T == {k \in Nat : k <= n => Good(k)}
<1>7. 0 \in T
    <2>1. Good(0) BY <1>6 DEF Lent
    <2> QED BY <2>1
<1>8. ASSUME NEW k \in T PROVE k + 1 \in T
    <2> SUFFICES ASSUME k + 1 <= n PROVE Good(k + 1)
        OBVIOUS
    <2>1. k \in Nat /\ k + 1 \in 1 .. n /\ k \in 0 .. n /\ (k + 1) - 1 = k
        BY <1>2
    <2>2. Good(k)
        BY <2>1
    <2>3. g[k + 1] = Merge(g[k], s[k + 1])
        BY <1>3, <1>5, <2>1 DEF Unrolled
    <2>4. g[k] \in Seq(Point) /\ s[k + 1] \in Point
        BY <1>3, <1>6, <2>1
    <2>5. g[k] # <<>> => In(g[k][Len(g[k])]) <= In(s[k + 1])
        <3> SUFFICES ASSUME g[k] # <<>> PROVE In(g[k][Len(g[k])]) <= In(s[k + 1])
            OBVIOUS
        <3>1. k \in 1 .. n /\ In(g[k][Len(g[k])]) <= In(s[k])
            BY <1>2, <2>1, <2>2
        <3>2. In(s[k]) <= In(s[k + 1])
            BY <1>4, <2>1, <3>1
        <3>3. In(g[k][Len(g[k])]) \in Nat /\ In(s[k]) \in Nat /\ In(s[k + 1]) \in Nat
            <4>1. \A p \in Point : In(p) \in Nat
                BY DEF Point, In
            <4>2. s[k] \in Point /\ s[k + 1] \in Point
                BY <1>3, <2>1, <3>1
            <4> HIDE DEF Good, T
            <4>3. g[k][Len(g[k])] \in Point
                BY <2>4, LastIsPoint
            <4> QED BY <4>1, <4>2, <4>3
        <3> QED BY <3>1, <3>2, <3>3
    <2>6. /\ Lent(Merge(g[k], s[k + 1]))
          /\ In(Merge(g[k], s[k + 1])[Len(Merge(g[k], s[k + 1]))]) <= In(s[k + 1])
        BY <1>3, <2>1, <2>2, <2>4, <2>5, MergeLends
    <2> QED
        BY <2>1, <2>3, <2>6
<1>9. T = Nat
    <2>1. T \in SUBSET Nat /\ \A k \in T : k + 1 \in T
        BY <1>8
    <2> HIDE DEF T
    <2> QED
        BY <1>7, <2>1, Induction
<1>10. Lent(g[n])
    BY <1>2, <1>9
<1> QED
    BY <1>2, <1>5, <1>6, <1>10 DEF Cleaned, s

(* Two chords whose ends were moved by a and b, no further than the merging allows: the   *)
(* rises p and q no longer fit the widths d and e they are compared by, but on a gentle     *)
(* curve they are off by no more than G for each unit of width.                            *)
LEMMA MovedChords ==
    ASSUME NEW E \in Nat, NEW G \in Nat, NEW d \in Nat, NEW e \in Nat, d > E, e > E,
           NEW a \in Int, NEW b \in Int, -E <= a, a <= E, -E <= b, b <= E,
           NEW p \in Nat, NEW q \in Nat,
           E * p <= G * (d - a), E * q <= G * (e + b),
           q * (d - a) <= p * (e + b)
    PROVE  q * d <= p * e + G * (d + e)
<1>1. \A x, y \in Int, z \in Nat : x <= y => x * z <= y * z
    OBVIOUS
<1>2. q * d <= p * e + (p * b + q * a)
    <2>1. q * (d - a) = q * d - q * a /\ p * (e + b) = p * e + p * b
        OBVIOUS
    <2>2. q * d \in Int /\ q * a \in Int /\ p * e \in Int /\ p * b \in Int
        OBVIOUS
    <2> QED BY <2>1, <2>2
<1>3. p * b + q * a <= G * (d + e)
    <2>1. CASE E = 0
        <3>1. a = 0 /\ b = 0 BY <2>1
        <3>2. p * 0 + q * 0 = 0 /\ G * (d + e) \in Nat OBVIOUS
        <3> QED BY <3>1, <3>2
    <2>2. CASE E > 0
        <3>1. E * (p * b + q * a) <= E * (G * (d + e))
            <4>1. E * (p * b + q * a) = (E * p) * b + (E * q) * a
                OBVIOUS
            <4>2. E * (G * (d + e)) = G * (E * d) + G * (E * e)
                OBVIOUS
            <4> DEFINE s == E * p
                       t == E * q
                       u == G * (d - a)
                       v == G * (e + b)
            <4>3. s \in Nat /\ t \in Nat /\ s <= u /\ t <= v /\ u \in Int /\ v \in Int
                OBVIOUS
            <4>4. u \in Nat /\ v \in Nat
                BY <4>3
            <4>5. ASSUME NEW x \in Int, NEW y \in Int, x <= y PROVE G * x <= G * y /\ G * x \in Int /\ G * y \in Int
                <5>1. x * G <= y * G BY <1>1, <4>5
                <5> QED BY <5>1
            (* What each end adds, at most. *)
            <4>6. CASE a >= 0 /\ b >= 0
                <5>1. s * b <= u * b /\ t * a <= v * a
                    BY <1>1, <4>3, <4>6
                <5>2. u * b = G * ((d - a) * b) /\ v * a = G * ((e + b) * a)
                    OBVIOUS
                <5>3. G * ((d - a) * b) + G * ((e + b) * a) = G * (d * b + e * a)
                    OBVIOUS
                <5>4. d * b + e * a <= E * d + E * e
                    <6>1. b * d <= E * d /\ a * e <= E * e BY <1>1
                    <6> QED BY <6>1
                <5>5. G * (d * b + e * a) <= G * (E * d + E * e)
                    BY <4>5, <5>4
                <5>6. G * (E * d + E * e) = G * (E * d) + G * (E * e)
                    OBVIOUS
                <5>7. s * b \in Int /\ t * a \in Int /\ u * b \in Int /\ v * a \in Int
                    BY <4>3
                <5> HIDE DEF s, t, u, v
                <5> QED BY <5>1, <5>2, <5>3, <5>5, <5>6, <5>7, <4>1, <4>2 DEF s, t
            <4>7. CASE a <= 0 /\ b >= 0
                <5>1. s * b <= u * b /\ t * a <= 0
                    <6>1. t * (-a) \in Nat BY <4>3, <4>7
                    <6>2. t * a = -(t * (-a)) BY <4>3
                    <6> QED BY <1>1, <4>3, <4>7, <6>1, <6>2
                <5>2. u * b <= u * E
                    <6>1. b * u <= E * u BY <1>1, <4>4
                    <6> HIDE DEF u
                    <6> QED BY <4>3, <6>1
                <5>3. u * E = G * ((d - a) * E)
                    OBVIOUS
                <5>4. (d - a) * E <= E * d + E * e
                    <6>1. (d - a) * E <= (d + e) * E BY <1>1, <4>7
                    <6> QED BY <6>1
                <5>5. G * ((d - a) * E) <= G * (E * d + E * e)
                    BY <4>5, <5>4
                <5>6. G * (E * d + E * e) = G * (E * d) + G * (E * e)
                    OBVIOUS
                <5>7. s * b \in Int /\ t * a \in Int /\ u * b \in Int /\ u * E \in Int
                    BY <4>3
                <5> HIDE DEF s, t, u, v
                <5> QED BY <5>1, <5>2, <5>3, <5>5, <5>6, <5>7, <4>1, <4>2 DEF s, t
            <4>8. CASE a >= 0 /\ b <= 0
                <5>1. t * a <= v * a /\ s * b <= 0
                    <6>1. s * (-b) \in Nat BY <4>3, <4>8
                    <6>2. s * b = -(s * (-b)) BY <4>3
                    <6> QED BY <1>1, <4>3, <4>8, <6>1, <6>2
                <5>2. v * a <= v * E
                    <6>1. a * v <= E * v BY <1>1, <4>4
                    <6> HIDE DEF v
                    <6> QED BY <4>3, <6>1
                <5>3. v * E = G * ((e + b) * E)
                    OBVIOUS
                <5>4. (e + b) * E <= E * d + E * e
                    <6>1. (e + b) * E <= (d + e) * E BY <1>1, <4>8
                    <6> QED BY <6>1
                <5>5. G * ((e + b) * E) <= G * (E * d + E * e)
                    BY <4>5, <5>4
                <5>6. G * (E * d + E * e) = G * (E * d) + G * (E * e)
                    OBVIOUS
                <5>7. s * b \in Int /\ t * a \in Int /\ v * a \in Int /\ v * E \in Int
                    BY <4>3
                <5> HIDE DEF s, t, u, v
                <5> QED BY <5>1, <5>2, <5>3, <5>5, <5>6, <5>7, <4>1, <4>2 DEF s, t
            <4>9. CASE a <= 0 /\ b <= 0
                <5>1. s * b <= 0 /\ t * a <= 0
                    <6>1. s * (-b) \in Nat /\ t * (-a) \in Nat BY <4>3, <4>9
                    <6>2. s * b = -(s * (-b)) /\ t * a = -(t * (-a)) BY <4>3
                    <6> QED BY <6>1, <6>2
                <5>2. G * (E * d) \in Nat /\ G * (E * e) \in Nat
                    OBVIOUS
                <5>3. s * b \in Int /\ t * a \in Int
                    BY <4>3
                <5> HIDE DEF s, t, u, v
                <5> QED BY <5>1, <5>2, <5>3, <4>1, <4>2 DEF s, t
            <4> QED BY <4>6, <4>7, <4>8, <4>9
        <3> DEFINE x == p * b + q * a
                   y == G * (d + e)
        <3>2. x \in Int /\ y \in Int OBVIOUS
        <3>3. E * x <= E * y BY <3>1
        <3> HIDE DEF x, y
        <3>4. x <= y
            <4> SUFFICES ASSUME x >= y + 1 PROVE FALSE BY <3>2
            <4>1. (y + 1) * E <= x * E BY <1>1, <3>2
            <4>2. E * x = x * E /\ E * y = y * E /\ (y + 1) * E = y * E + E /\ x * E \in Int /\ y * E \in Int BY <3>2
            <4> QED BY <2>2, <3>3, <4>1, <4>2
        <3> QED BY <3>4 DEF x, y
    <2> QED BY <2>1, <2>2
<1> DEFINE x == p * b + q * a
           y == G * (d + e)
           z == q * d
           w == p * e
<1>4. x \in Int /\ y \in Int /\ z \in Int /\ w \in Int OBVIOUS
<1>5. z <= w + x /\ x <= y BY <1>2, <1>3
<1> HIDE DEF x, y, z, w
<1>6. z <= w + y BY <1>4, <1>5
<1> QED BY <1>6 DEF y, z, w

(* Chords that are off by no more than the noise beyond the cut are not told apart either. *)
LEMMA MovedAreNoise ==
    ASSUME NEW P \in Nat \ {0}, NEW U \in Nat \ {0}, NEW d \in Nat, NEW e \in Nat,
           NEW p \in Nat, NEW q \in Nat, q * d <= p * e + (P * (U - 1)) * (d + e),
           NEW m \in Nat, NEW n \in Nat, p <= P * (m + 1), P * (n - 1) <= q
    PROVE  ~(Minus(n, U) * d > (m + U) * e)
<1>1. CASE n <= U
    <2>1. Minus(n, U) = 0 /\ (m + U) * e \in Nat /\ 0 * d = 0
        BY <1>1 DEF Minus
    <2> QED
        BY <2>1
<1>2. CASE n > U
    <2>1. Minus(n, U) = n - U /\ n - U \in Nat /\ n - 1 \in Nat
        BY <1>2 DEF Minus
    <2>2. \A x, y, z \in Nat : x <= y => x * z <= y * z
        OBVIOUS
    <2>3. (P * (n - 1)) * d <= q * d /\ p * e <= (P * (m + 1)) * e
        BY <2>1, <2>2
    <2>4. /\ (P * (n - 1)) * d = P * ((n - U) * d) + (P * (U - 1)) * d
          /\ (P * (m + U)) * e = (P * (m + 1)) * e + (P * (U - 1)) * e
          /\ (P * (U - 1)) * (d + e) = (P * (U - 1)) * d + (P * (U - 1)) * e
          /\ (P * (m + U)) * e = P * ((m + U) * e)
        BY <2>1
    <2>5. P * ((n - U) * d) <= P * ((m + U) * e)
        <3> DEFINE x1 == (P * (n - 1)) * d
                   x2 == q * d
                   x3 == p * e
                   x4 == (P * (m + 1)) * e
                   x5 == (P * (U - 1)) * d
                   x6 == (P * (U - 1)) * e
                   x7 == P * ((n - U) * d)
                   x8 == P * ((m + U) * e)
                   x9 == (P * (U - 1)) * (d + e)
        <3>1. /\ x1 \in Int /\ x2 \in Int /\ x3 \in Int /\ x4 \in Int /\ x5 \in Int /\ x6 \in Int
              /\ x7 \in Int /\ x8 \in Int /\ x9 \in Int
            BY <2>1
        <3>2. /\ x1 <= x2 /\ x3 <= x4 /\ x1 = x7 + x5 /\ x8 = x4 + x6 /\ x9 = x5 + x6
              /\ x2 <= x3 + x9
            BY <2>3, <2>4
        <3> HIDE DEF x1, x2, x3, x4, x5, x6, x7, x8, x9
        <3>3. x7 <= x8 BY <3>1, <3>2
        <3> QED BY <3>3 DEF x7, x8
    <2>6. \A x, y \in Nat : P * x <= P * y => x <= y
        <3> SUFFICES ASSUME NEW x \in Nat, NEW y \in Nat, x >= y + 1 PROVE P * x > P * y
            OBVIOUS
        <3>1. \A v, w \in Nat : v >= w => P * v >= P * w
            OBVIOUS
        <3>2. P * x >= P * (y + 1) /\ P * (y + 1) = P * y + P
            BY <3>1
        <3> QED
            BY <3>2
    <2>7. (n - U) * d \in Nat /\ (m + U) * e \in Nat
        BY <2>1
    <2> QED
        BY <2>1, <2>5, <2>6, <2>7
<1> QED
    BY <1>1, <1>2

(* On a gentle curve merged samples are not punished either. *)
LEMMA GentlePass ==
    ASSUME Uncertainty >= 1, SampleInv, curve # NoCurve, Gentle(curve)
    PROVE  ~ShapeViolation(samples)
<1> DEFINE c == Cleaned(samples)
<1>1. c \in Seq(Point) /\ Lent(c)
    BY CurveCleaned
<1> HIDE DEF c
<1>2. /\ curve \in [Inputs -> Nat] /\ Rises(curve) /\ Concave(curve)
      /\ Inputs \subseteq Nat /\ Parts \in Nat \ {0}
    BY SamplesAssumption DEF SampleInv
<1>3. /\ Len(c) \in Nat /\ Uncertainty \in Nat \ {0} /\ MergeEps \in Nat
      /\ \A i \in Steps(c) : i \in Nat /\ i \in 1 .. Len(c) /\ i + 1 \in 1 .. Len(c)
      /\ \A i \in 1 .. Len(c) : In(c[i]) \in Nat /\ Out(c[i]) \in Nat
    BY <1>1, ShapeAssumption, SampleTypes DEF Steps
(* The inputs whose outputs are compared, and by how much they are off. *)
<1> DEFINE z == [i \in 1 .. Len(c) |-> CHOOSE x \in Inputs : Lends(x, c[i])]
           off(i) == z[i] - In(c[i])
           u(i) == curve[z[i]]
<1>4. ASSUME NEW i \in 1 .. Len(c)
      PROVE  /\ z[i] \in Inputs /\ z[i] \in Nat /\ off(i) \in Int /\ 0 <= off(i) /\ off(i) <= MergeEps
             /\ z[i] = In(c[i]) + off(i)
             /\ u(i) \in Nat /\ Out(c[i]) = u(i) \div Parts
    <2>1. z[i] \in Inputs /\ Lends(z[i], c[i])
        BY <1>1 DEF Lent
    <2> HIDE DEF z
    <2>2. z[i] \in Nat /\ In(c[i]) \in Nat
        BY <1>2, <1>3, <2>1
    <2>3. u(i) \in Nat /\ Out(c[i]) = u(i) \div Parts
        BY <1>2, <2>1 DEF Lends, Quote
    <2>4. off(i) \in Int /\ 0 <= off(i) /\ off(i) <= MergeEps /\ z[i] = In(c[i]) + off(i)
        <3> DEFINE r == z[i]
                   t == In(c[i])
        <3>1. t <= r /\ r <= t + MergeEps BY <2>1 DEF Lends
        <3>2. r \in Nat /\ t \in Nat BY <2>2
        <3> HIDE DEF r, t
        <3>3. r - t \in Int /\ 0 <= r - t /\ r - t <= MergeEps /\ r = t + (r - t)
            BY <1>3, <3>1, <3>2
        <3> QED BY <3>3 DEF r, t
    <2> HIDE DEF u, off
    <2> QED BY <2>1, <2>2, <2>3, <2>4
<1> HIDE DEF z, off, u
<1>5. ASSUME NEW i \in 1 .. Len(c), NEW j \in 1 .. Len(c), i < j
      PROVE  z[i] < z[j] /\ u(i) <= u(j) /\ In(c[i]) + MergeEps < In(c[j])
    <2>1. In(c[i]) + MergeEps < In(c[j])
        BY <1>1, <1>5 DEF Lent
    <2>2. z[i] < z[j]
        <3>1. /\ z[i] = In(c[i]) + off(i) /\ off(i) \in Int /\ off(i) <= MergeEps
              /\ z[j] = In(c[j]) + off(j) /\ off(j) \in Int /\ 0 <= off(j)
              /\ In(c[i]) \in Nat /\ In(c[j]) \in Nat
            BY <1>3, <1>4
        <3> QED BY <1>3, <2>1, <3>1
    <2>3. u(i) <= u(j)
        <3>1. z[i] \in Inputs /\ z[j] \in Inputs BY <1>4
        <3> QED BY <1>2, <2>2, <3>1 DEF Rises, u
    <2> QED BY <2>1, <2>2, <2>3
<1>6. ASSUME NEW i \in Steps(c)
      PROVE  /\ i \in 1 .. Len(c) /\ i + 1 \in 1 .. Len(c) /\ i < i + 1
             /\ u(i) \in Nat /\ u(i + 1) \in Nat /\ u(i) <= u(i + 1)
             /\ Dx(c, i) \in Nat /\ Dx(c, i) > MergeEps
             /\ Dy(c, i) \in Nat /\ Out(c[i]) <= Out(c[i + 1])
             /\ Parts * (Dy(c, i) - 1) <= u(i + 1) - u(i)
             /\ u(i + 1) - u(i) <= Parts * (Dy(c, i) + 1)
             /\ z[i + 1] - z[i] = Dx(c, i) - (off(i) - off(i + 1))
             /\ MergeEps * (u(i + 1) - u(i)) <= (Parts * (Uncertainty - 1)) * (z[i + 1] - z[i])
    <2>1. i \in 1 .. Len(c) /\ i + 1 \in 1 .. Len(c) /\ i < i + 1
        BY <1>3
    <2>2. u(i) \in Nat /\ u(i + 1) \in Nat /\ u(i) <= u(i + 1) /\ z[i] < z[i + 1]
        BY <1>4, <1>5, <2>1
    <2>3. Dx(c, i) = In(c[i + 1]) - In(c[i]) /\ Dx(c, i) \in Nat /\ Dx(c, i) > MergeEps
        BY <1>3, <1>5, <2>1 DEF Dx
    <2>4. z[i + 1] - z[i] = Dx(c, i) - (off(i) - off(i + 1))
        <3>1. /\ z[i] = In(c[i]) + off(i) /\ off(i) \in Int
              /\ z[i + 1] = In(c[i + 1]) + off(i + 1) /\ off(i + 1) \in Int
              /\ In(c[i]) \in Nat /\ In(c[i + 1]) \in Nat
            BY <1>3, <1>4, <2>1
        <3> QED BY <2>3, <3>1
    <2>5. MergeEps * (u(i + 1) - u(i)) <= (Parts * (Uncertainty - 1)) * (z[i + 1] - z[i])
        <3>1. z[i] \in Inputs /\ z[i + 1] \in Inputs BY <1>4, <2>1
        <3> QED BY <2>2, <3>1 DEF Gentle, u
    <2>6. Out(c[i]) = u(i) \div Parts /\ Out(c[i + 1]) = u(i + 1) \div Parts
        BY <1>4, <2>1
    <2>7. /\ u(i) \div Parts \in Nat /\ u(i + 1) \div Parts \in Nat
          /\ u(i) \div Parts <= u(i + 1) \div Parts
          /\ Parts * ((u(i + 1) \div Parts) - (u(i) \div Parts) - 1) <= u(i + 1) - u(i)
          /\ u(i + 1) - u(i) <= Parts * ((u(i + 1) \div Parts) - (u(i) \div Parts) + 1)
        BY <1>2, <2>2, CutDifference
    <2>8. Dy(c, i) = Out(c[i + 1]) - Out(c[i]) /\ Dy(c, i) \in Nat
        BY <2>6, <2>7 DEF Dy, Minus
    <2> QED BY <2>1, <2>2, <2>3, <2>4, <2>5, <2>6, <2>7, <2>8
<1>7. \A i \in Steps(c) : ~Falls(c, i)
    <2> SUFFICES ASSUME NEW i \in Steps(c) PROVE ~(Out(c[i + 1]) + Uncertainty < Out(c[i]))
        BY DEF Falls
    <2>1. Out(c[i]) <= Out(c[i + 1]) /\ Out(c[i]) \in Nat /\ Out(c[i + 1]) \in Nat
        BY <1>3, <1>6
    <2> QED BY <1>3, <2>1
<1>8. ASSUME NEW i \in Wide(c), NEW j \in Wide(c), Follows(c, i, j)
      PROVE  ~Steepens(c, i, j)
    <2>1. i \in Steps(c) /\ j \in Steps(c) /\ i < j
        BY <1>8 DEF Wide, Follows
    <2>2. z[i + 1] <= z[j]
        <3>1. i + 1 \in 1 .. Len(c) /\ j \in 1 .. Len(c) /\ (i + 1 = j \/ i + 1 < j)
            BY <1>3, <2>1
        <3>2. z[j] \in Nat /\ z[i + 1] \in Nat BY <1>4, <3>1
        <3>3. CASE i + 1 = j BY <3>2, <3>3
        <3>4. CASE i + 1 < j BY <1>5, <3>1, <3>2, <3>4
        <3> QED BY <3>1, <3>3, <3>4
    <2> DEFINE p == u(i + 1) - u(i)
               q == u(j + 1) - u(j)
               a == off(i) - off(i + 1)
               b == off(j + 1) - off(j)
               d == Dx(c, i)
               e == Dx(c, j)
               G == Parts * (Uncertainty - 1)
    <2>3. q * (z[i + 1] - z[i]) <= p * (z[j + 1] - z[j])
        <3>1. /\ z[i] \in Inputs /\ z[i + 1] \in Inputs /\ z[j] \in Inputs /\ z[j + 1] \in Inputs
              /\ z[i] < z[i + 1] /\ z[j] < z[j + 1]
            BY <1>4, <1>5, <1>6, <2>1
        <3> QED BY <1>2, <2>2, <3>1 DEF Concave, u
    <2>4. /\ a \in Int /\ -MergeEps <= a /\ a <= MergeEps
          /\ b \in Int /\ -MergeEps <= b /\ b <= MergeEps
          /\ a = off(i) - off(i + 1) /\ e + b = e - (off(j) - off(j + 1))
        <3>1. /\ i \in 1 .. Len(c) /\ i + 1 \in 1 .. Len(c)
              /\ j \in 1 .. Len(c) /\ j + 1 \in 1 .. Len(c)
            BY <1>6, <2>1
        <3>2. /\ off(i) \in Int /\ 0 <= off(i) /\ off(i) <= MergeEps
              /\ off(i + 1) \in Int /\ 0 <= off(i + 1) /\ off(i + 1) <= MergeEps
              /\ off(j) \in Int /\ 0 <= off(j) /\ off(j) <= MergeEps
              /\ off(j + 1) \in Int /\ 0 <= off(j + 1) /\ off(j + 1) <= MergeEps
            BY <1>4, <3>1
        <3> DEFINE o1 == off(i)
                   o2 == off(i + 1)
                   o3 == off(j)
                   o4 == off(j + 1)
        <3>3. /\ o1 \in Int /\ 0 <= o1 /\ o1 <= MergeEps /\ o2 \in Int /\ 0 <= o2 /\ o2 <= MergeEps
              /\ o3 \in Int /\ 0 <= o3 /\ o3 <= MergeEps /\ o4 \in Int /\ 0 <= o4 /\ o4 <= MergeEps
            BY <3>2
        <3>4. a = o1 - o2 /\ b = o4 - o3 OBVIOUS
        <3>5. e \in Int BY <1>6, <2>1
        <3> HIDE DEF a, b, e, o1, o2, o3, o4
        <3>6. /\ a \in Int /\ -MergeEps <= a /\ a <= MergeEps
              /\ b \in Int /\ -MergeEps <= b /\ b <= MergeEps
              /\ a = o1 - o2 /\ e + b = e - (o3 - o4)
            BY <1>3, <3>3, <3>4, <3>5
        <3> QED BY <3>6 DEF o1, o2, o3, o4
    <2>5. z[i + 1] - z[i] = d - a /\ z[j + 1] - z[j] = e + b
        <3>1. z[j + 1] - z[j] = e - (off(j) - off(j + 1)) BY <1>6, <2>1
        <3>2. z[i + 1] - z[i] = d - (off(i) - off(i + 1)) BY <1>6, <2>1
        <3> HIDE DEF a, b, d, e
        <3> QED BY <2>4, <3>1, <3>2
    <2>6. p \in Nat /\ q \in Nat /\ d \in Nat /\ e \in Nat /\ d > MergeEps /\ e > MergeEps
        <3>1. /\ u(i) \in Nat /\ u(i + 1) \in Nat /\ u(i) <= u(i + 1)
              /\ u(j) \in Nat /\ u(j + 1) \in Nat /\ u(j) <= u(j + 1)
            BY <1>6, <2>1
        <3>2. d \in Nat /\ e \in Nat /\ d > MergeEps /\ e > MergeEps
            BY <1>6, <2>1
        <3>3. p \in Nat /\ q \in Nat
            BY <3>1
        <3> QED BY <3>2, <3>3
    <2>7. MergeEps * p <= G * (d - a) /\ MergeEps * q <= G * (e + b)
        BY <1>6, <2>1, <2>5
    <2>8. q * (d - a) <= p * (e + b)
        BY <2>3, <2>5
    <2>9. /\ Dy(c, i) \in Nat /\ Dy(c, j) \in Nat
          /\ p <= Parts * (Dy(c, i) + 1) /\ Parts * (Dy(c, j) - 1) <= q
        BY <1>6, <2>1
    <2>10. G \in Nat
        BY <1>2, <1>3
    <2> HIDE DEF p, q, a, b, d, e
    <2>11. q * d <= p * e + G * (d + e)
        <3> HIDE DEF G
        <3> QED BY <1>3, <2>4, <2>6, <2>7, <2>8, <2>10, MovedChords
    <2>12. ~(Minus(Dy(c, j), Uncertainty) * d > (Dy(c, i) + Uncertainty) * e)
        BY <1>2, <1>3, <2>6, <2>9, <2>11, MovedAreNoise
    <2> QED BY <2>12 DEF Steepens, d, e
<1> QED BY <1>7, <1>8 DEF ShapeViolation, c

(* Samples that are not merged are not punished, however steep the curve is. *)
LEMMA ApartPass ==
    ASSUME Uncertainty >= 1, SampleInv, curve # NoCurve, Apart
    PROVE  ~ShapeViolation(samples)
<1> DEFINE c == Cleaned(samples)
<1>1. /\ c \in Seq(Point)
      /\ \A i \in 1 .. Len(c) : In(c[i]) \in Inputs /\ Out(c[i]) = Quote(curve, In(c[i]))
      /\ \A i, j \in 1 .. Len(c) : i < j => In(c[i]) < In(c[j])
    BY CurveSamples
<1> HIDE DEF c
<1>2. /\ curve \in [Inputs -> Nat] /\ Rises(curve) /\ Concave(curve)
      /\ Inputs \subseteq Nat /\ Parts \in Nat \ {0}
    BY SamplesAssumption DEF SampleInv
<1>3. /\ Len(c) \in Nat /\ Uncertainty \in Nat \ {0} /\ MinDx \in Nat \ {0}
      /\ \A i \in Steps(c) : i \in Nat /\ i \in 1 .. Len(c) /\ i + 1 \in 1 .. Len(c)
    BY <1>1, ShapeAssumption, SampleTypes DEF Steps
(* Segment i, and the part of it that the cutting hides. *)
<1> DEFINE u(i) == curve[In(c[i])]
           v(i) == curve[In(c[i + 1])]
<1>4. ASSUME NEW i \in Steps(c)
      PROVE  /\ In(c[i]) \in Inputs /\ In(c[i + 1]) \in Inputs /\ In(c[i]) < In(c[i + 1])
             /\ u(i) \in Nat /\ v(i) \in Nat /\ u(i) <= v(i)
             /\ Dx(c, i) \in Nat /\ Dy(c, i) \in Nat
             /\ Out(c[i]) \in Nat /\ Out(c[i + 1]) \in Nat /\ Out(c[i]) <= Out(c[i + 1])
             /\ Parts * (Dy(c, i) - 1) <= v(i) - u(i)
             /\ v(i) - u(i) <= Parts * (Dy(c, i) + 1)
    <2>1. i \in 1 .. Len(c) /\ i + 1 \in 1 .. Len(c) /\ i < i + 1
        BY <1>3
    <2>2. In(c[i]) \in Inputs /\ In(c[i + 1]) \in Inputs /\ In(c[i]) < In(c[i + 1])
        BY <1>1, <2>1
    <2>3. u(i) \in Nat /\ v(i) \in Nat /\ u(i) <= v(i)
        BY <1>2, <2>2 DEF Rises
    <2>4. Out(c[i]) = u(i) \div Parts /\ Out(c[i + 1]) = v(i) \div Parts
        BY <1>1, <2>1 DEF Quote
    <2> HIDE DEF u, v
    <2>5. /\ u(i) \div Parts \in Nat /\ v(i) \div Parts \in Nat
          /\ u(i) \div Parts <= v(i) \div Parts
          /\ Parts * ((v(i) \div Parts) - (u(i) \div Parts) - 1) <= v(i) - u(i)
          /\ v(i) - u(i) <= Parts * ((v(i) \div Parts) - (u(i) \div Parts) + 1)
        BY <1>2, <2>3, CutDifference
    <2>6. Dy(c, i) = Out(c[i + 1]) - Out(c[i])
        BY <2>4, <2>5 DEF Dy, Minus
    <2>7. Dx(c, i) \in Nat
        <3>1. In(c[i]) \in Nat /\ In(c[i + 1]) \in Nat
            BY <1>2, <2>2
        <3> QED
            BY <2>2, <3>1 DEF Dx
    <2>8. Dy(c, i) \in Nat
        BY <2>4, <2>5, <2>6
    <2> QED
        BY <2>2, <2>3, <2>4, <2>5, <2>6, <2>7, <2>8
<1>5. \A i \in Steps(c) : ~Falls(c, i)
    <2> SUFFICES ASSUME NEW i \in Steps(c) PROVE ~(Out(c[i + 1]) + Uncertainty < Out(c[i]))
        BY DEF Falls
    <2>1. Out(c[i]) \in Nat /\ Out(c[i + 1]) \in Nat /\ Out(c[i]) <= Out(c[i + 1])
        BY <1>4
    <2> QED
        BY <1>3, <2>1
<1>6. ASSUME NEW i \in Wide(c), NEW j \in Wide(c), Follows(c, i, j)
      PROVE  ~Steepens(c, i, j)
    <2>1. i \in Steps(c) /\ j \in Steps(c) /\ i < j
        BY <1>6 DEF Wide, Follows
    <2>2. In(c[i + 1]) <= In(c[j])
        <3>1. i + 1 \in 1 .. Len(c) /\ j \in 1 .. Len(c) /\ (i + 1 = j \/ i + 1 < j)
            BY <1>3, <2>1
        <3>2. In(c[j]) \in Nat
            BY <1>2, <1>4, <2>1
        <3>3. CASE i + 1 = j
            BY <3>2, <3>3
        <3>4. CASE i + 1 < j
            <4>1. In(c[i + 1]) < In(c[j]) /\ In(c[i + 1]) \in Nat
                BY <1>1, <1>2, <1>4, <2>1, <3>1, <3>4
            <4> QED
                BY <3>2, <4>1
        <3> QED
            BY <3>1, <3>3, <3>4
    <2>3. (v(j) - u(j)) * (In(c[i + 1]) - In(c[i])) <= (v(i) - u(i)) * (In(c[j + 1]) - In(c[j]))
        BY <1>2, <1>4, <2>1, <2>2 DEF Concave
    <2> DEFINE p == v(i) - u(i)
               q == v(j) - u(j)
    <2>4. q * Dx(c, i) <= p * Dx(c, j)
        BY <2>3 DEF Dx
    <2>5. /\ p \in Nat /\ q \in Nat /\ Dx(c, i) \in Nat /\ Dx(c, j) \in Nat
          /\ Dy(c, i) \in Nat /\ Dy(c, j) \in Nat
          /\ p <= Parts * (Dy(c, i) + 1) /\ Parts * (Dy(c, j) - 1) <= q
        BY <1>4, <2>1
    <2> HIDE DEF p, q
    <2>6. ~(Minus(Dy(c, j), Uncertainty) * Dx(c, i) > (Dy(c, i) + Uncertainty) * Dx(c, j))
        BY <1>2, <1>3, <2>4, <2>5, ChordsAreNoise
    <2> QED
        BY <2>6 DEF Steepens
<1> QED
    BY <1>5, <1>6 DEF ShapeViolation, c

(* A curve that rises and is concave is never punished for the cutting of its outputs to *)
(* whole nanos, wherever it is sampled, as long as a nano is forgiven: if no two samples   *)
(* are merged, and also if some are, on a curve that is gentle enough.  It is what the      *)
(* searches rely on when they sample an honest submission.                                 *)
THEOREM HonestCurvesPass ==
    ASSUME Uncertainty >= 1
    PROVE  Spec => []NoFalseAlarm
<1>1. SampleInv => NoFalseAlarm
    BY ApartPass, GentlePass DEF NoFalseAlarm
<1> QED
    BY <1>1, Sampled, PTL
=============================================================================
