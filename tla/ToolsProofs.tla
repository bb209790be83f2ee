----------------------------- MODULE ToolsProofs -----------------------------
(***************************************************************************)
(* Proofs about the questions of Tools, for every input that its           *)
(* assumptions admit.                                                      *)
(*                                                                         *)
(* The models are made of filters, sorts and concatenations.  The first    *)
(* two parts say what a sort and a filter give, by an explicit list of     *)
(* places; the rest follows rules, queries and launch settings through     *)
(* their own code with those facts.  Where an argument needs induction, it *)
(* takes the least number at which the claim fails (Least).  The last part *)
(* is about the session journal, the one question here with steps: the     *)
(* invariant Replayed ties what its replay will find to the browser.       *)
(***************************************************************************)
EXTENDS Tools, TLAPS, FiniteSetTheorems, WellFoundedInduction

\* R is a strict total order of S.
Orders(R, S) ==
    /\ \A x \in S : <<x, x>> \notin R
    /\ \A x, y \in S : x # y => <<x, y>> \in R \/ <<y, x>> \in R
    /\ \A x, y, z \in S : <<x, y>> \in R /\ <<y, z>> \in R => <<x, z>> \in R

Before(S, R, x) == {y \in S : <<y, x>> \in R}
Rank(S, R, x) == Cardinality(Before(S, R, x))

LEMMA RankOrders ==
    ASSUME NEW S, IsFiniteSet(S), NEW R, Orders(R, S), NEW x \in S, NEW y \in S, <<x, y>> \in R
    PROVE  Rank(S, R, x) < Rank(S, R, y)
<1>1. /\ Before(S, R, x) \in SUBSET Before(S, R, y) /\ Before(S, R, y) \in SUBSET S
      /\ x \in Before(S, R, y) \ Before(S, R, x)
    BY DEF Orders, Before
<1>2. IsFiniteSet(Before(S, R, y))
    BY <1>1, FS_Subset
<1>3. /\ IsFiniteSet(Before(S, R, x)) /\ Rank(S, R, x) <= Rank(S, R, y)
      /\ Rank(S, R, x) # Rank(S, R, y)
    BY <1>1, <1>2, FS_Subset DEF Rank
<1>4. Rank(S, R, x) \in Nat /\ Rank(S, R, y) \in Nat
    BY <1>2, <1>3, FS_CardinalityType DEF Rank
<1> QED BY <1>3, <1>4

\* The ranks of a finite set's members are the numbers below its size.
LEMMA RankFacts ==
    ASSUME NEW S, IsFiniteSet(S), NEW R, Orders(R, S)
    PROVE  /\ Cardinality(S) \in Nat
           /\ \A x \in S : Rank(S, R, x) \in 0 .. (Cardinality(S) - 1)
           /\ \A x, y \in S : <<x, y>> \in R <=> Rank(S, R, x) < Rank(S, R, y)
           /\ \A x, y \in S : Rank(S, R, x) = Rank(S, R, y) => x = y
           /\ \A k \in 1 .. Cardinality(S) : \E x \in S : Rank(S, R, x) = k - 1
<1> DEFINE n == Cardinality(S)
<1>1. n \in Nat
    BY FS_CardinalityType
<1>2. ASSUME NEW x \in S PROVE Rank(S, R, x) \in 0 .. (n - 1)
    <2>1. Before(S, R, x) \in SUBSET S /\ x \notin Before(S, R, x)
        BY DEF Orders, Before
    <2>2. Rank(S, R, x) <= n /\ Rank(S, R, x) # n /\ Rank(S, R, x) \in Nat
        BY <2>1, FS_Subset, FS_CardinalityType DEF Rank
    <2> QED BY <1>1, <2>2
<1>3. ASSUME NEW x \in S, NEW y \in S
      PROVE  /\ <<x, y>> \in R <=> Rank(S, R, x) < Rank(S, R, y)
             /\ Rank(S, R, x) = Rank(S, R, y) => x = y
    <2>1. Rank(S, R, x) \in Int /\ Rank(S, R, y) \in Int
        BY <1>1, <1>2
    <2>2. <<x, y>> \in R => Rank(S, R, x) < Rank(S, R, y)
        BY RankOrders
    <2>3. <<y, x>> \in R => Rank(S, R, y) < Rank(S, R, x)
        BY RankOrders
    <2>4. x = y \/ <<x, y>> \in R \/ <<y, x>> \in R
        BY DEF Orders
    <2> QED BY <2>1, <2>2, <2>3, <2>4
<1>4. ASSUME NEW k \in 1 .. n PROVE \E x \in S : Rank(S, R, x) = k - 1
    <2> DEFINE f == [x \in S |-> Rank(S, R, x) + 1]
    <2>1. f \in [S -> 1 .. n]
        BY <1>1, <1>2
    <2>2. f \in Injection(S, 1 .. n)
        <3>1. ASSUME NEW x \in S, NEW y \in S, f[x] = f[y] PROVE x = y
            <4>1. Rank(S, R, x) \in Int /\ Rank(S, R, y) \in Int
                BY <1>1, <1>2
            <4>2. Rank(S, R, x) + 1 = Rank(S, R, y) + 1
                BY <3>1
            <4>3. Rank(S, R, x) = Rank(S, R, y)
                BY <4>1, <4>2
            <4> QED BY <1>3, <4>3
        <3> QED BY <2>1, <3>1 DEF Injection, IsInjective
    <2>3. IsFiniteSet(1 .. n) /\ Cardinality(1 .. n) = n
        BY <1>1, FS_Interval
    <2>4. f \in Surjection(S, 1 .. n)
        <3> HIDE DEF f
        <3> QED BY <2>2, <2>3, FS_Injection
    <2>5. PICK x \in S : f[x] = k
        BY <2>4 DEF Surjection
    <2> QED BY <1>1, <1>2, <2>5
<1> QED BY <1>1, <1>2, <1>3, <1>4

\* Sorting a finite set lists each of its members once, at its rank.
LEMMA SortedFacts ==
    ASSUME NEW S, IsFiniteSet(S), NEW R, Orders(R, S)
    PROVE  /\ Cardinality(S) \in Nat
           /\ Sorted(S, R) \in [1 .. Cardinality(S) -> S]
           /\ \A k \in 1 .. Cardinality(S) : Rank(S, R, Sorted(S, R)[k]) = k - 1
           /\ \A x \in S : /\ Rank(S, R, x) + 1 \in 1 .. Cardinality(S)
                           /\ Sorted(S, R)[Rank(S, R, x) + 1] = x
           /\ \A j, k \in 1 .. Cardinality(S) :
                 j < k <=> <<Sorted(S, R)[j], Sorted(S, R)[k]>> \in R
<1> DEFINE n == Cardinality(S)
           L == Sorted(S, R)
<1>1. /\ n \in Nat
      /\ \A x \in S : Rank(S, R, x) \in 0 .. (n - 1)
      /\ \A x, y \in S : <<x, y>> \in R <=> Rank(S, R, x) < Rank(S, R, y)
      /\ \A x, y \in S : Rank(S, R, x) = Rank(S, R, y) => x = y
      /\ \A k \in 1 .. n : \E x \in S : Rank(S, R, x) = k - 1
    BY RankFacts
<1>2. L = [k \in 1 .. n |-> CHOOSE x \in S : Rank(S, R, x) = k - 1]
    BY DEF Sorted, Rank, Before
<1>3. ASSUME NEW k \in 1 .. n PROVE L[k] \in S /\ Rank(S, R, L[k]) = k - 1
    BY <1>1, <1>2
<1>4. L \in [1 .. n -> S]
    BY <1>2, <1>3
<1>5. ASSUME NEW x \in S PROVE Rank(S, R, x) + 1 \in 1 .. n /\ L[Rank(S, R, x) + 1] = x
    <2>1. Rank(S, R, x) + 1 \in 1 .. n /\ (Rank(S, R, x) + 1) - 1 = Rank(S, R, x)
        BY <1>1
    <2> QED BY <1>1, <1>3, <2>1
<1>6. ASSUME NEW j \in 1 .. n, NEW k \in 1 .. n PROVE j < k <=> <<L[j], L[k]>> \in R
    <2>1. L[j] \in S /\ L[k] \in S /\ Rank(S, R, L[j]) = j - 1 /\ Rank(S, R, L[k]) = k - 1
        BY <1>3
    <2>2. <<L[j], L[k]>> \in R <=> Rank(S, R, L[j]) < Rank(S, R, L[k])
        BY <1>1, <2>1
    <2> QED BY <2>1, <2>2, <1>1
<1> QED BY <1>1, <1>3, <1>4, <1>5, <1>6

\* L lists all of S in the order R.
InOrder(L, n, S, R) ==
    /\ L \in [1 .. n -> S]
    /\ \A j, k \in 1 .. n : j < k => <<L[j], L[k]>> \in R
    /\ \A x \in S : \E k \in 1 .. n : L[k] = x

\* The sorted list is the only one that has every member and is in order.
LEMMA SortedUnique ==
    ASSUME NEW S, NEW R, Orders(R, S), NEW n \in Nat, NEW L, InOrder(L, n, S, R)
    PROVE  /\ IsFiniteSet(S) /\ Cardinality(S) = n /\ Sorted(S, R) = L
           /\ \A k \in 1 .. n : Rank(S, R, L[k]) = k - 1
<1> USE DEF InOrder
<1>1. ASSUME NEW j \in 1 .. n, NEW k \in 1 .. n, L[j] = L[k] PROVE j = k
    <2>1. L[j] \in S /\ <<L[j], L[j]>> \notin R
        BY DEF Orders
    <2>2. ~ (j < k) /\ ~ (k < j)
        BY <1>1, <2>1
    <2> QED BY <2>2
<1>2. L \in Bijection(1 .. n, S)
    BY <1>1 DEF Bijection, Injection, IsInjective, Surjection
<1>3. IsFiniteSet(1 .. n) /\ Cardinality(1 .. n) = n
    BY FS_Interval
<1>4. IsFiniteSet(S) /\ Cardinality(S) = n
    BY <1>2, <1>3, FS_Bijection DEF ExistsBijection
<1>5. ASSUME NEW k \in 1 .. n PROVE Rank(S, R, L[k]) = k - 1
    <2> DEFINE f == [j \in 1 .. (k - 1) |-> L[j]]
    <2>1. \A j \in 1 .. n : <<L[j], L[k]>> \in R <=> j \in 1 .. (k - 1)
        <3> SUFFICES ASSUME NEW j \in 1 .. n PROVE <<L[j], L[k]>> \in R <=> j < k
            OBVIOUS
        <3>1. L[j] \in S /\ L[k] \in S
            OBVIOUS
        <3>2. CASE j < k
            BY <3>2
        <3>3. CASE j = k
            BY <3>1, <3>3 DEF Orders
        <3>4. CASE k < j
            BY <3>1, <3>4 DEF Orders
        <3> QED BY <3>2, <3>3, <3>4
    <2>2. Before(S, R, L[k]) = {L[j] : j \in 1 .. (k - 1)}
        <3>1. \A j \in 1 .. (k - 1) : j \in 1 .. n
            OBVIOUS
        <3> QED BY <2>1, <3>1 DEF Before
    <2>3. f \in Bijection(1 .. (k - 1), Before(S, R, L[k]))
        <3>1. f \in [1 .. (k - 1) -> Before(S, R, L[k])]
            BY <2>2
        <3>2. \A i, j \in 1 .. (k - 1) : f[i] = f[j] => i = j
            BY <1>1
        <3>3. \A y \in Before(S, R, L[k]) : \E j \in 1 .. (k - 1) : f[j] = y
            BY <2>2
        <3> QED BY <3>1, <3>2, <3>3 DEF Bijection, Injection, IsInjective, Surjection
    <2>4. IsFiniteSet(1 .. (k - 1)) /\ Cardinality(1 .. (k - 1)) = k - 1
        BY FS_Interval
    <2>5. ExistsBijection(1 .. (k - 1), Before(S, R, L[k]))
        BY <2>3 DEF ExistsBijection
    <2> HIDE DEF f
    <2> QED BY <2>4, <2>5, FS_Bijection DEF Rank
<1>6. ASSUME NEW k \in 1 .. n PROVE Sorted(S, R)[k] = L[k]
    <2>1. L[k] \in S /\ Rank(S, R, L[k]) = k - 1
        BY <1>5
    <2>2. \A x \in S : Sorted(S, R)[Rank(S, R, x) + 1] = x
        BY <1>4, SortedFacts
    <2>3. (k - 1) + 1 = k
        OBVIOUS
    <2> QED BY <2>1, <2>2, <2>3
<1>7. Sorted(S, R) \in [1 .. n -> S]
    BY <1>4, SortedFacts
<1> QED BY <1>4, <1>5, <1>6, <1>7

LEMMA NumbersOrder ==
    ASSUME NEW S, S \subseteq Nat
    PROVE  Orders({p \in S \X S : p[1] < p[2]}, S)
<1> DEFINE R == {p \in S \X S : p[1] < p[2]}
<1>1. \A x, y \in S : <<x, y>> \in R <=> x < y
    OBVIOUS
<1>2. \A x \in S : x \in Nat
    OBVIOUS
<1> HIDE DEF R
<1> QED BY <1>1, <1>2 DEF Orders

\* The ascending list of numbers.
LEMMA AscendingFacts ==
    ASSUME NEW n \in Nat, NEW S, S \subseteq 1 .. n
    PROVE  /\ Cardinality(S) \in Nat
           /\ Ascending(S) \in [1 .. Cardinality(S) -> S]
           /\ \A j, k \in 1 .. Cardinality(S) : j < k <=> Ascending(S)[j] < Ascending(S)[k]
           /\ \A i \in S : \E k \in 1 .. Cardinality(S) : Ascending(S)[k] = i
<1> DEFINE R == {p \in S \X S : p[1] < p[2]}
<1>0. S \subseteq Nat /\ S \in SUBSET (1 .. n) /\ IsFiniteSet(1 .. n)
    BY FS_Interval
<1>1. Orders(R, S)
    BY <1>0, NumbersOrder
<1>2. IsFiniteSet(S)
    BY <1>0, FS_Subset
<1>3. \A x, y \in S : <<x, y>> \in R <=> x < y
    OBVIOUS
<1>4. Ascending(S) = Sorted(S, R)
    BY DEF Ascending
<1> HIDE DEF R
<1>5. /\ Cardinality(S) \in Nat
      /\ Sorted(S, R) \in [1 .. Cardinality(S) -> S]
      /\ \A i \in S : /\ Rank(S, R, i) + 1 \in 1 .. Cardinality(S)
                      /\ Sorted(S, R)[Rank(S, R, i) + 1] = i
      /\ \A j, k \in 1 .. Cardinality(S) :
            j < k <=> <<Sorted(S, R)[j], Sorted(S, R)[k]>> \in R
    BY <1>1, <1>2, SortedFacts
<1>6. \A i \in S : \E k \in 1 .. Cardinality(S) : Sorted(S, R)[k] = i
    BY <1>5
<1>7. \A j, k \in 1 .. Cardinality(S) : j < k <=> Sorted(S, R)[j] < Sorted(S, R)[k]
    BY <1>3, <1>5
<1> QED BY <1>4, <1>5, <1>6, <1>7

LEMMA AscendingUnique ==
    ASSUME NEW S, S \subseteq Nat, NEW n \in Nat, NEW L \in [1 .. n -> S],
           \A j, k \in 1 .. n : j < k => L[j] < L[k],
           \A i \in S : \E k \in 1 .. n : L[k] = i
    PROVE  Cardinality(S) = n /\ Ascending(S) = L
<1> DEFINE R == {p \in S \X S : p[1] < p[2]}
<1>1. Orders(R, S)
    BY NumbersOrder
<1>2. \A j, k \in 1 .. n : j < k => <<L[j], L[k]>> \in R
    OBVIOUS
<1>3. Ascending(S) = Sorted(S, R)
    BY DEF Ascending
<1> HIDE DEF R
<1>4. Cardinality(S) = n /\ Sorted(S, R) = L
    <2>1. InOrder(L, n, S, R)
        BY <1>2 DEF InOrder
    <2> QED BY <1>1, <2>1, SortedUnique
<1> QED BY <1>3, <1>4

-----------------------------------------------------------------------------
(* Filtering. *)

\* The list o takes the entries of s that are in A, those place the places L.
Picks(o, s, A, n, L) ==
    /\ L \in [1 .. n -> DOMAIN s]
    /\ \A j, k \in 1 .. n : j < k => L[j] < L[k]
    /\ \A i \in DOMAIN s : s[i] \in A <=> \E k \in 1 .. n : L[k] = i
    /\ Len(o) = n
    /\ \A k \in 1 .. n : o[k] = s[L[k]]

LEMMA OnlyPicks ==
    ASSUME NEW X, NEW s \in Seq(X), NEW A
    PROVE  /\ Only(s, A) \in Seq(X)
           /\ Len(Only(s, A)) = Cardinality({i \in DOMAIN s : s[i] \in A})
           /\ \E n \in Nat : \E L : Picks(Only(s, A), s, A, n, L)
<1> DEFINE S == {i \in DOMAIN s : s[i] \in A}
           n == Cardinality(S)
           L == Ascending(S)
<1>1. Len(s) \in Nat /\ DOMAIN s = 1 .. Len(s) /\ S \subseteq 1 .. Len(s)
    OBVIOUS
<1>2. /\ n \in Nat /\ L \in [1 .. n -> S]
      /\ \A j, k \in 1 .. n : j < k <=> L[j] < L[k]
      /\ \A i \in S : \E k \in 1 .. n : L[k] = i
    <2> HIDE DEF S
    <2> QED BY <1>1, AscendingFacts
<1>3. L \in [1 .. n -> DOMAIN s] /\ DOMAIN L = 1 .. n /\ \A k \in 1 .. n : s[L[k]] \in X
    <2>1. S \subseteq DOMAIN s /\ \A i \in DOMAIN s : s[i] \in X
        OBVIOUS
    <2> HIDE DEF S, n, L
    <2> QED BY <1>2, <2>1
<1>4. Only(s, A) = [k \in 1 .. n |-> s[L[k]]]
    BY <1>3 DEF Only
<1>5. Only(s, A) \in Seq(X) /\ Len(Only(s, A)) = n
    BY <1>2, <1>3, <1>4
<1>6. \A k \in 1 .. n : Only(s, A)[k] = s[L[k]]
    BY <1>4
<1>7. Picks(Only(s, A), s, A, n, L)
    BY <1>2, <1>3, <1>5, <1>6 DEF Picks
<1>8. \E m \in Nat : \E M : Picks(Only(s, A), s, A, m, M)
    <2> HIDE DEF n, L
    <2> QED BY <1>2, <1>7
<1> QED BY <1>5, <1>8

\* Such a list is the only one.
LEMMA OnlyUnique ==
    ASSUME NEW X, NEW s \in Seq(X), NEW A, NEW n \in Nat, NEW L,
           NEW o \in Seq(X), Picks(o, s, A, n, L)
    PROVE  Only(s, A) = o
<1> DEFINE S == {i \in DOMAIN s : s[i] \in A}
<1>1. S \subseteq Nat
    OBVIOUS
<1>2. /\ L \in [1 .. n -> S]
      /\ \A j, k \in 1 .. n : j < k => L[j] < L[k]
      /\ \A i \in S : \E k \in 1 .. n : L[k] = i
    BY DEF Picks
<1>3. Ascending(S) = L
    <2> HIDE DEF S
    <2> QED BY <1>1, <1>2, AscendingUnique
<1>4. DOMAIN L = 1 .. n
    BY <1>2
<1>5. Only(s, A) = [k \in 1 .. n |-> s[L[k]]]
    BY <1>3, <1>4 DEF Only
<1>6. o = [k \in 1 .. n |-> o[k]] /\ \A k \in 1 .. n : o[k] = s[L[k]]
    BY DEF Picks
<1> QED BY <1>5, <1>6

LEMMA OnlyType ==
    ASSUME NEW X, NEW s \in Seq(X), NEW A
    PROVE  /\ Only(s, A) \in Seq(X)
           /\ ToSet(Only(s, A)) = ToSet(s) \cap A
           /\ Len(Only(s, A)) = Cardinality({i \in DOMAIN s : s[i] \in A})
           /\ Only(s, A) = <<>> <=> \A i \in DOMAIN s : s[i] \notin A
<1>1. PICK o \in Seq(X) : o = Only(s, A)
    BY OnlyPicks
<1>2. PICK n \in Nat : \E L : Picks(o, s, A, n, L)
    BY <1>1, OnlyPicks
<1>3. PICK L : Picks(o, s, A, n, L)
    BY <1>2
<1>4. /\ \A k \in 1 .. n : L[k] \in DOMAIN s /\ o[k] = s[L[k]]
      /\ \A i \in DOMAIN s : s[i] \in A <=> \E k \in 1 .. n : L[k] = i
      /\ DOMAIN o = 1 .. n /\ Len(o) = n
    BY <1>3 DEF Picks
<1>5. ToSet(o) = ToSet(s) \cap A
    <2>1. ASSUME NEW k \in DOMAIN o PROVE o[k] \in ToSet(s) /\ o[k] \in A
        BY <1>4 DEF ToSet
    <2>2. ASSUME NEW i \in DOMAIN s, s[i] \in A PROVE s[i] \in ToSet(o)
        <3>1. PICK k \in 1 .. n : L[k] = i
            BY <1>4, <2>2
        <3> QED BY <3>1, <1>4 DEF ToSet
    <2> QED BY <2>1, <2>2 DEF ToSet
<1>6. o = <<>> <=> \A i \in DOMAIN s : s[i] \notin A
    <2>1. CASE n = 0
        <3>1. o = <<>> /\ \A k \in 1 .. n : FALSE
            BY <1>4, <2>1
        <3> QED BY <3>1, <1>4
    <2>2. CASE n # 0
        <3>1. o # <<>> /\ 1 \in 1 .. n
            BY <1>4, <2>2
        <3> QED BY <3>1, <1>4
    <2> QED BY <2>1, <2>2
<1> QED BY <1>1, <1>5, <1>6, OnlyPicks

LEMMA OnlySame ==
    ASSUME NEW s, NEW A, NEW B, \A i \in DOMAIN s : s[i] \in A <=> s[i] \in B
    PROVE  Only(s, A) = Only(s, B)
<1>1. {i \in DOMAIN s : s[i] \in A} = {i \in DOMAIN s : s[i] \in B}
    OBVIOUS
<1> QED BY <1>1 DEF Only

LEMMA OnlyAll ==
    ASSUME NEW X, NEW s \in Seq(X), NEW A, \A i \in DOMAIN s : s[i] \in A
    PROVE  Only(s, A) = s
<1>1. PICK L : L = [k \in 1 .. Len(s) |-> k]
    OBVIOUS
<1>2. Len(s) \in Nat /\ Picks(s, s, A, Len(s), L)
    BY <1>1 DEF Picks
<1> QED BY <1>2, OnlyUnique

\* What concatenation is, position by position.
LEMMA ConcatFacts ==
    ASSUME NEW X, NEW s \in Seq(X), NEW t \in Seq(X)
    PROVE  /\ s \o t \in Seq(X) /\ Len(s \o t) = Len(s) + Len(t)
           /\ DOMAIN s = 1 .. Len(s) /\ DOMAIN t = 1 .. Len(t)
           /\ DOMAIN (s \o t) = 1 .. (Len(s) + Len(t))
           /\ Len(s) \in Nat /\ Len(t) \in Nat
           /\ \A i \in 1 .. Len(s) : (s \o t)[i] = s[i]
           /\ \A i \in 1 .. Len(t) : (s \o t)[Len(s) + i] = t[i]
<1>1. s \o t \in Seq(X) /\ Len(s \o t) = Len(s) + Len(t) /\ Len(s) \in Nat /\ Len(t) \in Nat
    OBVIOUS
<1>2. DOMAIN s = 1 .. Len(s) /\ DOMAIN t = 1 .. Len(t) /\ DOMAIN (s \o t) = 1 .. Len(s \o t)
    OBVIOUS
<1>3. \A i \in 1 .. Len(s) : (s \o t)[i] = s[i]
    OBVIOUS
<1>4. \A i \in 1 .. Len(t) : (s \o t)[Len(s) + i] = t[i]
    OBVIOUS
<1> QED BY <1>1, <1>2, <1>3, <1>4

LEMMA IsConcat ==
    ASSUME NEW X, NEW s \in Seq(X), NEW t \in Seq(X), NEW u \in Seq(X),
           Len(u) = Len(s) + Len(t),
           \A i \in 1 .. Len(s) : u[i] = s[i],
           \A i \in 1 .. Len(t) : u[Len(s) + i] = t[i]
    PROVE  s \o t = u
<1>1. PICK v \in Seq(X) : v = s \o t
    BY ConcatFacts
<1>2. PICK n \in Nat : n = Len(s) + Len(t)
    OBVIOUS
<1>3. /\ Len(v) = n /\ DOMAIN v = 1 .. n /\ DOMAIN u = 1 .. n
      /\ Len(s) \in Nat /\ Len(t) \in Nat
      /\ \A i \in 1 .. Len(s) : v[i] = s[i]
      /\ \A i \in 1 .. Len(t) : v[Len(s) + i] = t[i]
    BY <1>1, <1>2, ConcatFacts
<1>4. ASSUME NEW k \in 1 .. n PROVE v[k] = u[k]
    <2>1. CASE k \in 1 .. Len(s)
        BY <2>1, <1>3
    <2>2. CASE k \notin 1 .. Len(s)
        <3>1. k - Len(s) \in 1 .. Len(t) /\ Len(s) + (k - Len(s)) = k
            BY <1>2, <1>3, <2>2
        <3> QED BY <3>1, <1>3
    <2> QED BY <2>1, <2>2
<1>5. v = u
    BY <1>3, <1>4
<1> QED BY <1>1, <1>5

\* Filtering a list is filtering its parts.
LEMMA OnlyConcat ==
    ASSUME NEW X, NEW s \in Seq(X), NEW t \in Seq(X), NEW A
    PROVE  Only(s \o t, A) = Only(s, A) \o Only(t, A)
<1>1. PICK a \in Seq(X) : a = Only(s, A)
    BY OnlyPicks
<1>2. PICK m \in Nat : \E L : Picks(a, s, A, m, L)
    BY <1>1, OnlyPicks
<1>18. PICK L : Picks(a, s, A, m, L)
    BY <1>2
<1>3. PICK b \in Seq(X) : b = Only(t, A)
    BY OnlyPicks
<1>4. PICK n \in Nat : \E M : Picks(b, t, A, n, M)
    BY <1>3, OnlyPicks
<1>19. PICK M : Picks(b, t, A, n, M)
    BY <1>4
<1>5. PICK u : u = s \o t
    OBVIOUS
<1>6. PICK l \in Nat : l = Len(s)
    OBVIOUS
<1>7. PICK r \in Nat : r = Len(t)
    OBVIOUS
<1>8. /\ u \in Seq(X) /\ DOMAIN s = 1 .. l /\ DOMAIN t = 1 .. r /\ DOMAIN u = 1 .. (l + r)
      /\ \A i \in 1 .. l : u[i] = s[i]
      /\ \A i \in 1 .. r : u[l + i] = t[i]
    BY <1>5, <1>6, <1>7, ConcatFacts
<1>9. /\ \A k \in 1 .. m : L[k] \in 1 .. l
      /\ \A k \in 1 .. n : M[k] \in 1 .. r
      /\ \A j, k \in 1 .. m : j < k => L[j] < L[k]
      /\ \A j, k \in 1 .. n : j < k => M[j] < M[k]
      /\ \A i \in 1 .. l : s[i] \in A <=> \E k \in 1 .. m : L[k] = i
      /\ \A i \in 1 .. r : t[i] \in A <=> \E k \in 1 .. n : M[k] = i
    BY <1>8, <1>18, <1>19 DEF Picks
<1>10. PICK K : K = [k \in 1 .. (m + n) |-> IF k <= m THEN L[k] ELSE l + M[k - m]]
    OBVIOUS
<1>11. ASSUME NEW k \in 1 .. m PROVE k \in 1 .. (m + n) /\ K[k] = L[k]
    BY <1>10
<1>12. ASSUME NEW k \in 1 .. n PROVE m + k \in 1 .. (m + n) /\ K[m + k] = l + M[k]
    <2>1. m + k \in 1 .. (m + n) /\ ~ (m + k <= m) /\ (m + k) - m = k
        OBVIOUS
    <2>2. K[m + k] = l + M[(m + k) - m]
        BY <1>10, <2>1
    <2> QED BY <2>1, <2>2
<1>13. ASSUME NEW k \in 1 .. (m + n), k \notin 1 .. m
       PROVE  k - m \in 1 .. n /\ k = m + (k - m) /\ K[k] = l + M[k - m]
    <2>1. k - m \in 1 .. n /\ k = m + (k - m) /\ ~ (k <= m)
        BY <1>13
    <2> QED BY <1>10, <2>1
<1>14. ASSUME NEW k \in 1 .. (m + n) PROVE K[k] \in 1 .. (l + r)
    <2>1. CASE k \in 1 .. m
        <3>1. K[k] = L[k] /\ L[k] \in 1 .. l
            BY <1>9, <1>11, <2>1
        <3> QED BY <3>1
    <2>2. CASE k \notin 1 .. m
        <3>1. k - m \in 1 .. n /\ K[k] = l + M[k - m]
            BY <1>13, <2>2
        <3>2. M[k - m] \in 1 .. r
            BY <1>9, <3>1
        <3> QED BY <3>1, <3>2
    <2> QED BY <2>1, <2>2
<1>15. K \in [1 .. (m + n) -> DOMAIN u]
    <2>1. K = [k \in 1 .. (m + n) |-> K[k]]
        BY <1>10
    <2> QED BY <1>8, <1>14, <2>1
<1>16. /\ \A j, k \in 1 .. (m + n) : j < k => K[j] < K[k]
       /\ \A i \in 1 .. (l + r) : u[i] \in A <=> \E k \in 1 .. (m + n) : K[k] = i
    <2>1. ASSUME NEW j \in 1 .. (m + n), NEW k \in 1 .. (m + n), j < k PROVE K[j] < K[k]
        <3>1. CASE j \in 1 .. m /\ k \in 1 .. m
            BY <1>9, <1>11, <2>1, <3>1
        <3>2. CASE j \in 1 .. m /\ k \notin 1 .. m
            <4>1. K[j] = L[j] /\ L[j] \in 1 .. l
                BY <1>9, <1>11, <3>2
            <4>2. K[k] = l + M[k - m] /\ k - m \in 1 .. n
                BY <1>13, <3>2
            <4>3. M[k - m] \in 1 .. r
                BY <1>9, <4>2
            <4> QED BY <4>1, <4>2, <4>3
        <3>3. CASE j \notin 1 .. m
            <4>0. k \notin 1 .. m
                BY <2>1, <3>3
            <4>1. K[j] = l + M[j - m] /\ j - m \in 1 .. n
                BY <1>13, <3>3
            <4>2. K[k] = l + M[k - m] /\ k - m \in 1 .. n
                BY <1>13, <4>0
            <4>3. j - m < k - m
                BY <2>1
            <4>4. M[j - m] < M[k - m] /\ M[j - m] \in 1 .. r /\ M[k - m] \in 1 .. r
                BY <1>9, <4>1, <4>2, <4>3
            <4> QED BY <4>1, <4>2, <4>4
        <3> QED BY <3>1, <3>2, <3>3
    <2>2. ASSUME NEW i \in 1 .. (l + r)
          PROVE  u[i] \in A <=> \E k \in 1 .. (m + n) : K[k] = i
        <3>1. CASE i \in 1 .. l
            <4>1. u[i] \in A <=> \E k \in 1 .. m : L[k] = i
                BY <1>8, <1>9, <3>1
            <4>2. ASSUME NEW k \in 1 .. (m + n), k \notin 1 .. m PROVE K[k] # i
                <5>1. k - m \in 1 .. n /\ K[k] = l + M[k - m]
                    BY <1>13, <4>2
                <5>2. M[k - m] \in 1 .. r
                    BY <1>9, <5>1
                <5> QED BY <3>1, <5>1, <5>2
            <4> QED BY <4>1, <4>2, <1>11
        <3>2. CASE i \notin 1 .. l
            <4>1. PICK j \in 1 .. r : i = l + j
                <5>1. i - l \in 1 .. r /\ i = l + (i - l)
                    BY <3>2
                <5> QED BY <5>1
            <4>2. u[i] \in A <=> \E k \in 1 .. n : M[k] = j
                BY <1>8, <1>9, <4>1
            <4>3. ASSUME NEW k \in 1 .. n, M[k] = j PROVE \E q \in 1 .. (m + n) : K[q] = i
                BY <1>12, <4>1, <4>3
            <4>4. ASSUME NEW k \in 1 .. (m + n), K[k] = i PROVE \E q \in 1 .. n : M[q] = j
                <5>1. k \notin 1 .. m
                    BY <1>9, <1>11, <3>2, <4>4
                <5>2. k - m \in 1 .. n /\ K[k] = l + M[k - m]
                    BY <1>13, <5>1
                <5>3. M[k - m] \in 1 .. r
                    BY <1>9, <5>2
                <5>4. M[k - m] = j
                    BY <4>1, <4>4, <5>2, <5>3
                <5> QED BY <5>2, <5>4
            <4> QED BY <4>2, <4>3, <4>4
        <3> QED BY <3>1, <3>2
    <2> QED BY <2>1, <2>2
<1>20. /\ Len(a) = m /\ Len(b) = n
       /\ \A k \in 1 .. m : a[k] = s[L[k]]
       /\ \A k \in 1 .. n : b[k] = t[M[k]]
    BY <1>18, <1>19 DEF Picks
<1>21. PICK c : c = [k \in 1 .. (m + n) |-> u[K[k]]]
    OBVIOUS
<1>22. c \in Seq(X) /\ Len(c) = m + n
    <2>1. \A k \in 1 .. (m + n) : u[K[k]] \in X
        BY <1>8, <1>15
    <2> QED BY <1>21, <2>1
<1>17. Only(u, A) = c
    <2>1. Picks(c, u, A, m + n, K)
        BY <1>8, <1>15, <1>16, <1>21, <1>22 DEF Picks
    <2> QED BY <1>8, <1>22, <2>1, OnlyUnique
<1>23. ASSUME NEW k \in 1 .. m PROVE c[k] = a[k]
    <2>1. c[k] = u[L[k]]
        BY <1>11, <1>21
    <2> QED BY <2>1, <1>8, <1>9, <1>20
<1>24. ASSUME NEW k \in 1 .. n PROVE c[m + k] = b[k]
    <2>1. c[m + k] = u[l + M[k]]
        BY <1>12, <1>21
    <2> QED BY <2>1, <1>8, <1>9, <1>20
<1>25. a \o b = c
    BY <1>20, <1>22, <1>23, <1>24, IsConcat
<1> QED BY <1>1, <1>3, <1>5, <1>17, <1>25

-----------------------------------------------------------------------------
(* Sorting a list by the order R of its places. *)

\* The list r has the n entries of s in the order R; place tells where in s each
\* stands.
Rearranges(r, s, n, place, R) ==
    /\ place \in [1 .. n -> 1 .. n] /\ Len(r) = n
    /\ \A k \in 1 .. n : r[k] = s[place[k]]
    /\ \A i \in 1 .. n : \E k \in 1 .. n : place[k] = i
    /\ \A j, k \in 1 .. n : j < k <=> <<place[j], place[k]>> \in R

LEMMA SortedList ==
    ASSUME NEW X, NEW s \in Seq(X), NEW R, Orders(R, DOMAIN s), NEW r,
           r = [k \in DOMAIN s |-> s[Sorted(DOMAIN s, R)[k]]]
    PROVE  r \in Seq(X) /\ \E place : Rearranges(r, s, Len(s), place, R)
<1>1. DOMAIN s = 1 .. Len(s) /\ Len(s) \in Nat
    OBVIOUS
<1>2. PICK place : place = Sorted(DOMAIN s, R)
    OBVIOUS
<1>3. IsFiniteSet(DOMAIN s) /\ Cardinality(DOMAIN s) = Len(s)
    <2>1. PICK n \in Nat : n = Len(s) /\ DOMAIN s = 1 .. n
        BY <1>1
    <2>2. IsFiniteSet(1 .. n) /\ Cardinality(1 .. n) = n
        BY FS_Interval
    <2> QED BY <2>1, <2>2
<1>4. /\ place \in [1 .. Len(s) -> DOMAIN s]
      /\ \A i \in DOMAIN s : /\ Rank(DOMAIN s, R, i) + 1 \in 1 .. Len(s)
                             /\ place[Rank(DOMAIN s, R, i) + 1] = i
      /\ \A j, k \in 1 .. Len(s) : j < k <=> <<place[j], place[k]>> \in R
    BY <1>1, <1>2, <1>3, SortedFacts
<1>5. \A k \in 1 .. Len(s) : place[k] \in DOMAIN s
    BY <1>4
<1>6. \A k \in 1 .. Len(s) : r[k] = s[place[k]] /\ s[place[k]] \in X
    BY <1>1, <1>2, <1>5
<1>7. r \in Seq(X) /\ Len(r) = Len(s)
    BY <1>1, <1>2, <1>6
<1>8. \A i \in 1 .. Len(s) : \E k \in 1 .. Len(s) : place[k] = i
    BY <1>1, <1>4
<1>9. Rearranges(r, s, Len(s), place, R)
    BY <1>1, <1>4, <1>6, <1>7, <1>8 DEF Rearranges
<1> QED BY <1>7, <1>9

\* A set of numbers has a least one: what stands for induction below.
LEMMA Least ==
    ASSUME NEW T, T \subseteq Nat, T # {}
    PROVE  \E m \in T : \A n \in T : m <= n
<1> DEFINE less == {pair \in Nat \X Nat : pair[1] < pair[2]}
<1>1. IsWellFoundedOn(less, Nat)
    BY NatLessThanWellFounded DEF OpToRel
<1>2. PICK m \in T : \A n \in T : <<n, m>> \notin less
    <2> HIDE DEF less
    <2> QED BY <1>1, WFMin
<1>3. ASSUME NEW n \in T PROVE m <= n
    <2>1. n \in Nat /\ m \in Nat /\ <<n, m>> \in Nat \X Nat
        OBVIOUS
    <2>2. ~ (n < m)
        BY <1>2, <2>1
    <2> QED BY <2>1, <2>2
<1> QED BY <1>3

LEMMA MinFacts ==
    ASSUME NEW T, T \subseteq Nat, T # {}
    PROVE  Min(T) \in T /\ \A n \in T : Min(T) <= n
BY Least DEF Min

-----------------------------------------------------------------------------
(* Rules. *)

Above(file) == {p \in (DOMAIN file) \X (DOMAIN file) : Precedes(file, p[1], p[2])}

LEMMA PrecedesOrders ==
    ASSUME NEW file, RuleFile(file)
    PROVE  /\ Orders(Above(file), DOMAIN file)
           /\ \A i, j \in DOMAIN file : <<i, j>> \in Above(file) <=> Precedes(file, i, j)
           /\ DOMAIN file = 1 .. Len(file) /\ Len(file) \in Nat
<1>1. DOMAIN file = 1 .. Len(file) /\ Len(file) \in Nat
    BY DEF RuleFile
<1>2. \A i, j \in DOMAIN file : <<i, j>> \in Above(file) <=> Precedes(file, i, j)
    BY DEF Above
<1>3. \A i \in DOMAIN file : i \in Int /\ file[i].priority \in Int
    BY <1>1 DEF RuleFile
<1>4. \A i, j \in DOMAIN file :
          ~ Precedes(file, i, i) /\ (i # j => Precedes(file, i, j) \/ Precedes(file, j, i))
    BY <1>3 DEF Precedes
<1>5. \A i, j, k \in DOMAIN file : Precedes(file, i, j) /\ Precedes(file, j, k)
          => Precedes(file, i, k)
    BY <1>3 DEF Precedes
<1>6. Orders(Above(file), DOMAIN file)
    BY <1>2, <1>4, <1>5 DEF Orders
<1> QED BY <1>1, <1>2, <1>6

LEMMA OrdersPart ==
    ASSUME NEW R, NEW S, NEW T, Orders(R, S), T \subseteq S
    PROVE  Orders(R, T)
BY DEF Orders

\* The rules in the order of evaluation: the file, rearranged.
LEMMA RankedFacts ==
    ASSUME NEW file, RuleFile(file)
    PROVE  /\ Ranked(file) \in Seq(ToSet(file))
           /\ \E place : Rearranges(Ranked(file), file, Len(file), place, Above(file))
<1>1. Orders(Above(file), DOMAIN file) /\ file \in Seq(ToSet(file))
    BY PrecedesOrders DEF RuleFile
<1>2. Ranked(file) = [k \in DOMAIN file |-> file[Sorted(DOMAIN file, Above(file))[k]]]
    BY DEF Ranked, Above, Precedes
<1> QED BY <1>1, <1>2, SortedList

\* Evaluating the rules of a right file, sorted, is what its author is
\* promised: the eligible rules in order, the first of them the winner.
LEMMA RankedInOrder ==
    ASSUME NEW file, RuleFile(file), NEW facts
    PROVE  EvaluatedInOrder(Ranked(file), file, facts)
<1>1. PICK n \in Nat : n = Len(file) /\ DOMAIN file = 1 .. n
    BY PrecedesOrders
<1>2. PICK r \in Seq(ToSet(file)) : r = Ranked(file)
    BY RankedFacts
<1>23. PICK place : Rearranges(r, file, n, place, Above(file))
    BY <1>1, <1>2, RankedFacts
<1>25. \A i, j \in 1 .. n : <<i, j>> \in Above(file) <=> Precedes(file, i, j)
    BY <1>1, PrecedesOrders
<1>3. /\ \A k \in 1 .. n : place[k] \in 1 .. n
      /\ Len(r) = n
      /\ \A k \in 1 .. n : r[k] = file[place[k]]
      /\ \A i \in 1 .. n : \E k \in 1 .. n : place[k] = i
      /\ \A j, k \in 1 .. n : j < k <=> Precedes(file, place[j], place[k])
    BY <1>23, <1>25 DEF Rearranges
<1>4. DOMAIN r = 1 .. n
    BY <1>3
<1>24. PICK A : A = {rule \in ToSet(r) : Accepts(rule, facts)}
    OBVIOUS
<1>5. PICK hits \in Seq(ToSet(file)) : hits = Only(r, A)
    BY OnlyPicks
<1>6. PICK m \in Nat : \E L : Picks(hits, r, A, m, L)
    BY <1>5, OnlyPicks
<1>7. PICK L : Picks(hits, r, A, m, L)
    BY <1>6
<1>8. /\ \A k \in 1 .. m : L[k] \in 1 .. n /\ hits[k] = r[L[k]]
      /\ \A j, k \in 1 .. m : j < k => L[j] < L[k]
      /\ \A i \in 1 .. n : Accepts(r[i], facts) <=> \E k \in 1 .. m : L[k] = i
      /\ Len(hits) = m /\ DOMAIN hits = 1 .. m
    <2>1. /\ DOMAIN r = 1 .. n /\ Len(hits) = m /\ DOMAIN hits = 1 .. m
          /\ \A i \in 1 .. n : r[i] \in A <=> \E k \in 1 .. m : L[k] = i
        <3>1. Len(hits) = m /\ DOMAIN hits = 1 .. m
            BY <1>7 DEF Picks
        <3> QED BY <1>4, <1>7, <3>1 DEF Picks
    <2>3. \A k \in 1 .. m : L[k] \in 1 .. n /\ hits[k] = r[L[k]]
        BY <1>4, <1>7 DEF Picks
    <2>4. \A j, k \in 1 .. m : j < k => L[j] < L[k]
        BY <1>7 DEF Picks
    <2>2. \A i \in 1 .. n : r[i] \in A <=> Accepts(r[i], facts)
        BY <1>4, <1>24 DEF ToSet
    <2> QED BY <2>1, <2>2, <2>3, <2>4
<1>9. PICK P : P = [k \in 1 .. m |-> place[L[k]]]
    OBVIOUS
<1>10. /\ \A k \in 1 .. m : P[k] \in 1 .. n /\ hits[k] = file[P[k]] /\ Accepts(file[P[k]], facts)
       /\ \A j, k \in 1 .. m : j < k => Precedes(file, P[j], P[k])
       /\ \A i \in 1 .. n : Accepts(file[i], facts) => \E k \in 1 .. m : P[k] = i
    <2>1. ASSUME NEW k \in 1 .. m
          PROVE  P[k] \in 1 .. n /\ hits[k] = file[P[k]] /\ Accepts(file[P[k]], facts)
        <3>1. P[k] = place[L[k]] /\ L[k] \in 1 .. n /\ Accepts(r[L[k]], facts)
            BY <1>8, <1>9
        <3>2. place[L[k]] \in 1 .. n /\ r[L[k]] = file[place[L[k]]] /\ hits[k] = r[L[k]]
            BY <3>1, <1>3, <1>8
        <3> QED BY <3>1, <3>2
    <2>2. ASSUME NEW j \in 1 .. m, NEW k \in 1 .. m, j < k PROVE Precedes(file, P[j], P[k])
        <3>1. L[j] \in 1 .. n /\ L[k] \in 1 .. n /\ L[j] < L[k]
            BY <1>8, <2>2
        <3> QED BY <3>1, <1>3, <1>9
    <2>3. ASSUME NEW i \in 1 .. n, Accepts(file[i], facts) PROVE \E k \in 1 .. m : P[k] = i
        <3>1. PICK j \in 1 .. n : place[j] = i
            BY <1>3
        <3>2. PICK k \in 1 .. m : L[k] = j
            BY <1>3, <1>8, <2>3, <3>1
        <3> QED BY <1>9, <3>1, <3>2
    <2> QED BY <2>1, <2>2, <2>3
<1>11. PICK stops : stops = {i \in DOMAIN hits : hits[i].stop}
    OBVIOUS
<1>12. PICK q \in 0 .. m : q = IF stops = {} THEN m ELSE Min(stops)
    <2>1. stops \subseteq Nat /\ stops \subseteq 1 .. m
        BY <1>8, <1>11
    <2>2. stops # {} => Min(stops) \in 0 .. m
        <3> SUFFICES ASSUME stops # {} PROVE Min(stops) \in 0 .. m
            OBVIOUS
        <3>1. Min(stops) \in stops
            BY <2>1, MinFacts
        <3>2. Min(stops) \in 1 .. m
            BY <2>1, <3>1
        <3> QED BY <3>2
    <2>3. m \in 0 .. m
        OBVIOUS
    <2> QED BY <2>2, <2>3
<1>13. /\ \A k \in 1 .. q : k \in 1 .. m
       /\ \A j, k \in 1 .. q : j < k => ~ hits[j].stop
       /\ q < m => q \in 1 .. m /\ hits[q].stop
    <2>1. stops \subseteq Nat /\ stops \subseteq 1 .. m
        BY <1>8, <1>11
    <2>2. CASE stops = {}
        <3>1. q = m
            BY <1>12, <2>2
        <3>2. \A j \in 1 .. m : ~ hits[j].stop
            BY <1>8, <1>11, <2>2
        <3> QED BY <3>1, <3>2
    <2>3. CASE stops # {}
        <3>1. q \in stops /\ \A k \in stops : q <= k
            BY <1>12, <2>1, <2>3, MinFacts
        <3>2. ASSUME NEW j \in 1 .. q, NEW k \in 1 .. q, j < k PROVE ~ hits[j].stop
            <4>1. j \notin stops /\ j \in 1 .. m
                BY <3>1, <3>2
            <4> QED BY <4>1, <1>8, <1>11
        <3> QED BY <3>1, <3>2, <1>11, <1>8
    <2> QED BY <2>2, <2>3
<1>14. /\ Len(Matches(r, facts)) = q
       /\ \A k \in 1 .. q : Matches(r, facts)[k] = hits[k]
    <2>1. Matches(r, facts) = IF stops = {} THEN hits ELSE SubSeq(hits, 1, Min(stops))
        BY <1>5, <1>11, <1>24 DEF Matches
    <2>2. CASE stops = {}
        BY <2>1, <2>2, <1>8, <1>12
    <2>3. CASE stops # {}
        <3>1. Matches(r, facts) = SubSeq(hits, 1, q)
            BY <2>1, <2>3, <1>12
        <3>2. Len(SubSeq(hits, 1, q)) = q /\ \A k \in 1 .. q : SubSeq(hits, 1, q)[k] = hits[k]
            BY <1>8
        <3> QED BY <3>1, <3>2
    <2> QED BY <2>2, <2>3
<1>15. PICK E : E = Eligible(file, facts)
    OBVIOUS
<1>16. \A i : i \in E <=> /\ i \in 1 .. n /\ Accepts(file[i], facts)
                          /\ ~\E j \in 1 .. n : Accepts(file[j], facts) /\ file[j].stop
                                                 /\ Precedes(file, j, i)
    BY <1>1, <1>15 DEF Eligible
<1>17. /\ \A i \in 1 .. n : ~ Precedes(file, i, i)
       /\ \A i, j, k \in 1 .. n : Precedes(file, i, j) /\ Precedes(file, j, k)
              => Precedes(file, i, k)
       /\ Orders(Above(file), 1 .. n)
       /\ \A i, j \in 1 .. n : <<i, j>> \in Above(file) <=> Precedes(file, i, j)
    <2>1. /\ Orders(Above(file), DOMAIN file)
          /\ \A i, j \in DOMAIN file : <<i, j>> \in Above(file) <=> Precedes(file, i, j)
        BY PrecedesOrders
    <2>2. /\ \A i \in DOMAIN file : <<i, i>> \notin Above(file)
          /\ \A i, j, k \in DOMAIN file : <<i, j>> \in Above(file) /\ <<j, k>> \in Above(file)
                                         => <<i, k>> \in Above(file)
        BY <2>1 DEF Orders
    <2>3. \A i, j \in 1 .. n : <<i, j>> \in Above(file) <=> Precedes(file, i, j)
        BY <1>1, <2>1
    <2>4. Orders(Above(file), 1 .. n)
        BY <1>1, <2>1
    <2>5. \A i \in 1 .. n : ~ Precedes(file, i, i)
        BY <1>1, <2>2, <2>3
    <2>6. \A i, j, k \in 1 .. n : Precedes(file, i, j) /\ Precedes(file, j, k)
              => Precedes(file, i, k)
        BY <1>1, <2>2, <2>3
    <2> QED BY <2>3, <2>4, <2>5, <2>6
<1>18. PICK K : K = [k \in 1 .. q |-> P[k]]
    OBVIOUS
<1>19. InOrder(K, q, E, Above(file))
    <2>1. ASSUME NEW k \in 1 .. q PROVE K[k] \in E
        <3>1. k \in 1 .. m /\ K[k] = P[k]
            BY <1>13, <1>18
        <3>2. ASSUME NEW j \in 1 .. n, Accepts(file[j], facts), file[j].stop,
                     Precedes(file, j, P[k])
              PROVE  FALSE
            <4>1. PICK i \in 1 .. m : P[i] = j
                BY <1>10, <3>2
            <4>2. i < k
                <5>1. CASE i = k
                    BY <5>1, <4>1, <3>2, <1>17
                <5>2. CASE k < i
                    <6>1. Precedes(file, P[k], P[i]) /\ P[k] \in 1 .. n /\ P[i] \in 1 .. n
                        BY <1>10, <3>1, <5>2
                    <6> QED BY <6>1, <4>1, <3>2, <1>17
                <5> QED BY <5>1, <5>2
            <4>3. i \in 1 .. q
                BY <4>2
            <4>4. hits[i].stop
                BY <4>1, <3>2, <1>10
            <4> QED BY <4>2, <4>3, <4>4, <1>13
        <3> QED BY <3>1, <3>2, <1>10, <1>16
    <2>2. ASSUME NEW j \in 1 .. q, NEW k \in 1 .. q, j < k PROVE <<K[j], K[k]>> \in Above(file)
        <3>1. /\ j \in 1 .. m /\ k \in 1 .. m /\ K[j] = P[j] /\ K[k] = P[k]
              /\ P[j] \in 1 .. n /\ P[k] \in 1 .. n
            BY <1>10, <1>13, <1>18
        <3> QED BY <2>2, <3>1, <1>10, <1>17
    <2>3. ASSUME NEW i \in E PROVE \E k \in 1 .. q : K[k] = i
        <3>1. PICK k \in 1 .. m : P[k] = i
            BY <1>10, <1>16
        <3>2. k \in 1 .. q
            <4> SUFFICES ASSUME q < k PROVE FALSE
                OBVIOUS
            <4>1. q \in 1 .. m /\ hits[q].stop
                BY <1>13
            <4>2. /\ Precedes(file, P[q], P[k]) /\ P[q] \in 1 .. n /\ file[P[q]].stop
                  /\ Accepts(file[P[q]], facts)
                BY <4>1, <1>10
            <4> QED BY <4>2, <3>1, <1>16
        <3> QED BY <3>1, <3>2, <1>18
    <2>4. K \in [1 .. q -> E]
        BY <1>18, <2>1
    <2> QED BY <2>2, <2>3, <2>4 DEF InOrder
<1>20. Orders(Above(file), E)
    BY <1>16, <1>17, OrdersPart
<1>21. Cardinality(E) = q /\ \A k \in 1 .. q : Rank(E, Above(file), K[k]) = k - 1
    BY <1>19, <1>20, SortedUnique
<1>22. ASSUME NEW i \in E
       PROVE  Matches(r, facts)[Cardinality({j \in E : Precedes(file, j, i)}) + 1] = file[i]
    <2>1. PICK k \in 1 .. q : K[k] = i
        BY <1>19 DEF InOrder
    <2>2. {j \in E : Precedes(file, j, i)} = Before(E, Above(file), i)
        BY <1>16, <1>17 DEF Before
    <2>5. Rank(E, Above(file), K[k]) = k - 1
        BY <1>21
    <2>6. Cardinality({j \in E : Precedes(file, j, i)}) = Rank(E, Above(file), K[k])
        BY <2>1, <2>2 DEF Rank
    <2>3. Cardinality({j \in E : Precedes(file, j, i)}) + 1 = k
        BY <2>5, <2>6
    <2>4. Matches(r, facts)[k] = hits[k] /\ hits[k] = file[P[k]] /\ P[k] = i
        BY <1>10, <1>13, <1>14, <1>18, <2>1
    <2> QED BY <2>3, <2>4
<1> QED BY <1>2, <1>14, <1>15, <1>21, <1>22 DEF EvaluatedInOrder

\* Loading a configuration and a file of rules, whatever is in them: the new
\* rules in their promised order, or nothing changes.
THEOREM ReloadsWhole ==
    ASSUME NEW loaded, NEW config, NEW file, NEW windows, file # Unset => RuleFile(file)
    PROVE  ReloadedWhole(loaded, config, file, windows)
<1>1. CASE file = Unset
    <2>1. Load(file) = [ok |-> TRUE, rules |-> <<>>]
        BY <1>1 DEF Load
    <2>2. Reload(loaded, config, file) =
             IF config.valid THEN [config |-> config, rules |-> <<>>] ELSE loaded
        BY <2>1 DEF Reload
    <2>3. ASSUME NEW facts PROVE Matches(<<>>, facts) = <<>>
        <3>1. ASSUME NEW A PROVE Only(<<>>, A) = <<>>
            <4>1. <<>> \in Seq({}) /\ \A i \in DOMAIN <<>> : FALSE
                OBVIOUS
            <4> QED BY <4>1, OnlyType
        <3>2. \A i \in DOMAIN <<>> : FALSE
            OBVIOUS
        <3> QED BY <3>1, <3>2 DEF Matches
    <2> QED BY <1>1, <2>2, <2>3 DEF ReloadedWhole
<1>2. CASE file # Unset /\ AllProblems(file) = {}
    <2>1. Load(file) = [ok |-> TRUE, rules |-> Ranked(file)]
        BY <1>2 DEF Load
    <2>2. Reload(loaded, config, file) =
             IF config.valid THEN [config |-> config, rules |-> Ranked(file)] ELSE loaded
        BY <2>1 DEF Reload
    <2>3. \A facts : EvaluatedInOrder(Ranked(file), file, facts)
        BY <1>2, RankedInOrder
    <2> QED BY <1>2, <2>2, <2>3 DEF ReloadedWhole
<1>3. CASE file # Unset /\ AllProblems(file) # {}
    <2>1. Load(file).ok = FALSE
        BY <1>3 DEF Load
    <2>2. Reload(loaded, config, file) = loaded
        BY <2>1 DEF Reload
    <2> QED BY <1>3, <2>2 DEF ReloadedWhole
<1> QED BY <1>1, <1>2, <1>3

-----------------------------------------------------------------------------
(* Queries. *)

LEMMA BestFacts ==
    ASSUME NEW p, Scores(p)
    PROVE  /\ ScoresOf(p) \subseteq Nat
           /\ ScoresOf(p) # {} => Best(p) \in Nat
<1>1. ScoresOf(p) \subseteq Nat
    BY DEF ScoresOf, Scores
<1>2. ASSUME ScoresOf(p) # {} PROVE \E b \in ScoresOf(p) : \A s \in ScoresOf(p) : b >= s
    <2>1. CASE p.slug \notin ScoresOf(p) \/ p.name \notin ScoresOf(p)
        BY <1>1, <1>2, <2>1 DEF ScoresOf
    <2>2. CASE p.slug \in ScoresOf(p) /\ p.name \in ScoresOf(p)
        <3>1. p.slug \in Nat /\ p.name \in Nat /\ ScoresOf(p) = {p.slug, p.name}
            BY <1>1, <2>2 DEF ScoresOf
        <3>2. p.slug >= p.name \/ p.name >= p.slug
            BY <3>1
        <3> QED BY <3>1, <3>2
    <2> QED BY <2>1, <2>2
<1>3. ASSUME ScoresOf(p) # {} PROVE Best(p) \in ScoresOf(p)
    BY <1>2, <1>3 DEF Best, Max
<1> QED BY <1>1, <1>3

\* The projects of a list that have a score, in the order of their scores.
LEMMA ScoredFacts ==
    ASSUME NEW ps, Projects(ps), NEW s, s = BestFirst(Scored(ps))
    PROVE  /\ s \in Seq(ToSet(ps)) /\ ToSet(s) = {p \in ToSet(ps) : ScoresOf(p) # {}}
           /\ ToSet(s) = ToSet(Scored(ps))
           /\ \A i, j \in 1 .. Len(s) : s[i] = s[j] => i = j
           /\ \A i, j \in 1 .. Len(s) : i < j => Best(s[i]) >= Best(s[j])
           /\ \A i \in 1 .. Len(s) : Best(s[i]) \in Nat
<1>1. PICK A : A = {p \in ToSet(ps) : ScoresOf(p) # {}}
    OBVIOUS
<1>2. ps \in Seq(ToSet(ps)) /\ DOMAIN ps = 1 .. Len(ps)
    BY DEF Projects
<1>3. PICK t \in Seq(ToSet(ps)) : t = Scored(ps)
    BY <1>1, <1>2, OnlyPicks DEF Scored
<1>4. ToSet(t) = A
    <2>1. ToSet(t) = ToSet(ps) \cap A
        BY <1>1, <1>2, <1>3, OnlyType DEF Scored
    <2> QED BY <1>1, <2>1
<1>5. PICK m \in Nat : \E L : Picks(t, ps, A, m, L)
    BY <1>1, <1>2, <1>3, OnlyPicks DEF Scored
<1>6. PICK L : Picks(t, ps, A, m, L)
    BY <1>5
<1>7. DOMAIN t = 1 .. m /\ Len(t) = m
    BY <1>6 DEF Picks
<1>8. \A j, k \in 1 .. m : t[j] = t[k] => j = k
    <2>1. \A k \in 1 .. m : L[k] \in DOMAIN ps /\ t[k] = ps[L[k]]
        BY <1>6 DEF Picks
    <2>2. \A j, k \in 1 .. m : j < k => L[j] < L[k]
        BY <1>6 DEF Picks
    <2>3. \A j, k \in 1 .. m : t[j] = t[k] => L[j] = L[k]
        BY <2>1 DEF Projects
    <2>4. ASSUME NEW j \in 1 .. m, NEW k \in 1 .. m, L[j] = L[k] PROVE j = k
        <3>1. L[j] \in Int
            BY <1>2, <2>1
        <3>2. ~ (j < k) /\ ~ (k < j)
            BY <2>2, <2>4, <3>1
        <3> QED BY <3>2
    <2> QED BY <2>3, <2>4
<1>9. \A k \in 1 .. m : Best(t[k]) \in Nat
    <2>1. \A k \in 1 .. m : t[k] \in A
        BY <1>4, <1>7 DEF ToSet
    <2> QED BY <2>1, <1>1, BestFacts DEF Projects
<1>10. PICK R : R = {p \in (DOMAIN t) \X (DOMAIN t) :
                        \/ Best(t[p[1]]) > Best(t[p[2]])
                        \/ Best(t[p[1]]) = Best(t[p[2]]) /\ p[1] < p[2]}
    OBVIOUS
<1>11. \A i, j \in 1 .. m :
          <<i, j>> \in R <=> (Best(t[i]) > Best(t[j]) \/ (Best(t[i]) = Best(t[j]) /\ i < j))
    BY <1>7, <1>10
<1>12. Orders(R, DOMAIN t)
    <2>1. \A i \in 1 .. m : i \in Int /\ Best(t[i]) \in Int
        BY <1>9
    <2>2. \A i \in 1 .. m : <<i, i>> \notin R
        BY <1>11, <2>1
    <2>3. \A i, j \in 1 .. m : i # j => <<i, j>> \in R \/ <<j, i>> \in R
        BY <1>11, <2>1
    <2>4. \A i, j, k \in 1 .. m : <<i, j>> \in R /\ <<j, k>> \in R => <<i, k>> \in R
        BY <1>11, <2>1
    <2> QED BY <1>7, <2>2, <2>3, <2>4 DEF Orders
<1>13. s = [k \in DOMAIN t |-> t[Sorted(DOMAIN t, R)[k]]]
    BY <1>3, <1>10 DEF BestFirst
<1>14. s \in Seq(ToSet(ps)) /\ \E place : Rearranges(s, t, Len(t), place, R)
    BY <1>12, <1>13, SortedList
<1>15. PICK place : Rearranges(s, t, m, place, R)
    BY <1>7, <1>14
<1>16. /\ \A k \in 1 .. m : place[k] \in 1 .. m /\ s[k] = t[place[k]]
       /\ \A i \in 1 .. m : \E k \in 1 .. m : place[k] = i
       /\ \A j, k \in 1 .. m : j < k <=> <<place[j], place[k]>> \in R
       /\ Len(s) = m
    BY <1>15 DEF Rearranges
<1>17. DOMAIN s = 1 .. m
    BY <1>14, <1>16
<1>18. ToSet(s) = ToSet(t)
    <2>1. \A k \in 1 .. m : s[k] \in ToSet(t)
        BY <1>7, <1>16 DEF ToSet
    <2>2. \A i \in 1 .. m : t[i] \in ToSet(s)
        <3> SUFFICES ASSUME NEW i \in 1 .. m PROVE t[i] \in ToSet(s)
            OBVIOUS
        <3>1. PICK k \in 1 .. m : place[k] = i
            BY <1>16
        <3>2. s[k] = t[i] /\ k \in DOMAIN s
            BY <3>1, <1>16, <1>17
        <3> QED BY <3>2 DEF ToSet
    <2> QED BY <1>7, <1>17, <2>1, <2>2 DEF ToSet
<1>19. \A i, j \in 1 .. m : i < j => Best(s[i]) >= Best(s[j])
    <2> SUFFICES ASSUME NEW i \in 1 .. m, NEW j \in 1 .. m, i < j PROVE Best(s[i]) >= Best(s[j])
        OBVIOUS
    <2>1. /\ place[i] \in 1 .. m /\ place[j] \in 1 .. m /\ <<place[i], place[j]>> \in R
          /\ s[i] = t[place[i]] /\ s[j] = t[place[j]]
        BY <1>16
    <2>2. Best(t[place[i]]) \in Nat /\ Best(t[place[j]]) \in Nat
        BY <1>9, <2>1
    <2>3. Best(t[place[i]]) > Best(t[place[j]]) \/ Best(t[place[i]]) = Best(t[place[j]])
        BY <1>11, <2>1
    <2> QED BY <2>1, <2>2, <2>3
<1>20. \A i, j \in 1 .. m : s[i] = s[j] => i = j
    <2> SUFFICES ASSUME NEW i \in 1 .. m, NEW j \in 1 .. m, s[i] = s[j] PROVE i = j
        OBVIOUS
    <2>4. place[i] \in 1 .. m /\ place[j] \in 1 .. m /\ t[place[i]] = t[place[j]]
        BY <1>16
    <2>1. place[i] \in 1 .. m /\ place[j] \in 1 .. m /\ place[i] = place[j]
        BY <1>8, <2>4
    <2>2. <<place[i], place[i]>> \notin R
        BY <1>7, <1>12, <2>1 DEF Orders
    <2>3. ~ (i < j) /\ ~ (j < i)
        BY <1>16, <2>1, <2>2
    <2> QED BY <2>3
<1>21. \A i \in 1 .. m : Best(s[i]) \in Nat
    <2> SUFFICES ASSUME NEW i \in 1 .. m PROVE Best(s[i]) \in Nat
        OBVIOUS
    <2>1. place[i] \in 1 .. m /\ s[i] = t[place[i]]
        BY <1>16
    <2> QED BY <2>1, <1>9
<1> QED BY <1>1, <1>3, <1>4, <1>14, <1>16, <1>18, <1>19, <1>20, <1>21

\* What a query may be told, by the set of the projects alone.
Exact(ps) == {p \in ToSet(ps) : p.exact}
Prefixed(ps) == {p \in ToSet(ps) : p.prefix}

LEMMA PrefixedOnce ==
    ASSUME NEW ps, Projects(ps), NEW c, c = Only(ps, Prefixed(ps))
    PROVE  /\ c \in Seq(ToSet(ps)) /\ ToSet(c) = Prefixed(ps)
           /\ c = <<>> <=> Prefixed(ps) = {}
           /\ Len(c) = 1 => Prefixed(ps) = {c[1]}
           /\ Len(c) > 1 => Cardinality(Prefixed(ps)) # 1
<1>1. ps \in Seq(ToSet(ps))
    BY DEF Projects
<1>2. c \in Seq(ToSet(ps)) /\ ToSet(c) = ToSet(ps) \cap Prefixed(ps)
    BY <1>1, OnlyType
<1>3. ToSet(c) = Prefixed(ps)
    BY <1>2 DEF Prefixed
<1>4. c = <<>> <=> Prefixed(ps) = {}
    <2>1. c = <<>> => ToSet(c) = {}
        BY DEF ToSet
    <2>2. c # <<>> => c[1] \in ToSet(c)
        BY <1>2 DEF ToSet
    <2> QED BY <1>3, <2>1, <2>2
<1>5. Len(c) = 1 => Prefixed(ps) = {c[1]}
    BY <1>2, <1>3 DEF ToSet
<1>6. ASSUME Len(c) > 1 PROVE Cardinality(Prefixed(ps)) # 1
    <2>1. PICK m \in Nat : \E L : Picks(c, ps, Prefixed(ps), m, L)
        BY <1>1, OnlyPicks
    <2>2. PICK L : Picks(c, ps, Prefixed(ps), m, L)
        BY <2>1
    <2>3. m = Len(c) /\ 1 \in 1 .. m /\ 2 \in 1 .. m
        BY <1>2, <1>6, <2>2 DEF Picks
    <2>4. /\ L[1] \in DOMAIN ps /\ L[2] \in DOMAIN ps
          /\ c[1] = ps[L[1]] /\ c[2] = ps[L[2]]
        BY <2>2, <2>3 DEF Picks
    <2>5. L[1] # L[2]
        <3>1. L[1] < L[2]
            BY <2>2, <2>3 DEF Picks
        <3>2. L[1] \in Int /\ L[2] \in Int
            BY <1>1, <2>4
        <3> QED BY <3>1, <3>2
    <2>6. c[1] # c[2]
        BY <2>4, <2>5 DEF Projects
    <2>7. c[1] \in Prefixed(ps) /\ c[2] \in Prefixed(ps)
        BY <1>2, <1>3, <2>3 DEF ToSet
    <2> SUFFICES ASSUME Cardinality(Prefixed(ps)) = 1 PROVE FALSE
        OBVIOUS
    <2>8. IsFiniteSet(Prefixed(ps))
        <3>1. PICK n \in Nat : n = Len(ps)
            BY <1>1
        <3>2. IsFiniteSet(1 .. n)
            BY FS_Interval
        <3>3. DOMAIN ps = 1 .. n
            BY <1>1, <3>1
        <3>4. ps \in Surjection(1 .. n, ToSet(ps))
            BY <3>3, <1>1 DEF Surjection, ToSet
        <3>5. IsFiniteSet(ToSet(ps))
            BY <3>2, <3>4, FS_Surjection
        <3> QED BY <3>5, FS_Subset DEF Prefixed
    <2>9. \E x : Prefixed(ps) = {x}
        BY <2>8, FS_Singleton
    <2> QED BY <2>6, <2>7, <2>9
<1> QED BY <1>2, <1>3, <1>4, <1>5, <1>6

LEMMA ByScoreFacts ==
    ASSUME NEW ps, Projects(ps)
    PROVE  \/ \E p \in ToSet(ps) : /\ ByScore(ps) = Match(p)
                                   /\ ClearlyAhead(ps, p) \/ NothingScores(ps)
           \/ ByScore(ps) = NotFound /\ ToSet(Scored(ps)) = {}
           \/ /\ \A p \in ToSet(ps) : ~ ClearlyAhead(ps, p)
              /\ \E c : ByScore(ps) = Ambiguous(c) /\ ToSet(c) = ToSet(Scored(ps))
<1>1. PICK s : s = BestFirst(Scored(ps))
    OBVIOUS
<1>2. /\ s \in Seq(ToSet(ps)) /\ ToSet(s) = {p \in ToSet(ps) : ScoresOf(p) # {}}
      /\ ToSet(s) = ToSet(Scored(ps))
      /\ \A i, j \in 1 .. Len(s) : s[i] = s[j] => i = j
      /\ \A i, j \in 1 .. Len(s) : i < j => Best(s[i]) >= Best(s[j])
      /\ \A i \in 1 .. Len(s) : Best(s[i]) \in Nat
    BY <1>1, ScoredFacts
<1>3. PICK n \in Nat : n = Len(s) /\ DOMAIN s = 1 .. n
    BY <1>2
<1>4. \A p : p \in ToSet(s) <=> \E i \in 1 .. n : s[i] = p
    BY <1>3 DEF ToSet
<1>5. ByScore(ps) = IF n = 0 THEN NotFound
                    ELSE IF n = 1 THEN Match(s[1])
                    ELSE IF Decisive(Best(s[1]), Best(s[2])) THEN Match(s[1])
                    ELSE Ambiguous(s)
    <2>1. s = <<>> <=> n = 0
        BY <1>2, <1>3
    <2> QED BY <1>1, <1>3, <2>1 DEF ByScore
<1>6. CASE n = 0
    BY <1>2, <1>4, <1>5, <1>6
<1>7. CASE n = 1
    <2>1. s[1] \in ToSet(ps) /\ ScoresOf(s[1]) # {} /\ 1 \in 1 .. n
        BY <1>2, <1>4, <1>7
    <2>2. \A q \in ToSet(ps) \ {s[1]} : ScoresOf(q) = {}
        BY <1>2, <1>4, <1>7
    <2>3. ClearlyAhead(ps, s[1])
        BY <2>1, <2>2 DEF ClearlyAhead
    <2> QED BY <1>5, <1>7, <2>1, <2>3
<1>8. CASE n > 1
    <2>1. 1 \in 1 .. n /\ 2 \in 1 .. n
        BY <1>8
    <2>2. s[1] \in ToSet(ps) /\ ScoresOf(s[1]) # {} /\ Best(s[1]) \in Nat /\ Best(s[2]) \in Nat
        BY <1>2, <1>3, <1>4, <2>1
    <2>3. CASE Decisive(Best(s[1]), Best(s[2]))
        <3>1. ASSUME Best(s[1]) # 0 PROVE ClearlyAhead(ps, s[1])
            <4>1. ASSUME NEW q \in ToSet(ps) \ {s[1]}, ScoresOf(q) # {}
                  PROVE  Best(s[1]) > Best(q) /\ Decisive(Best(s[1]), Best(q))
                <5>1. PICK k \in 1 .. n : s[k] = q
                    BY <1>2, <1>4, <4>1
                <5>2. k = 2 \/ 2 < k
                    BY <4>1, <5>1
                <5>3. Best(q) \in Nat /\ Best(s[2]) >= Best(q)
                    BY <1>2, <1>3, <2>1, <2>2, <5>1, <5>2
                <5>4. 2 * Best(s[1]) >= 3 * Best(s[2])
                    BY <2>3 DEF Decisive
                <5>5. 2 * Best(s[1]) >= 3 * Best(q)
                    BY <2>2, <5>3, <5>4
                <5>6. Best(s[1]) > Best(q)
                    BY <2>2, <3>1, <5>3, <5>5
                <5> QED BY <5>5, <5>6 DEF Decisive
            <4> QED BY <2>2, <4>1 DEF ClearlyAhead
        <3>2. ASSUME Best(s[1]) = 0 PROVE NothingScores(ps)
            <4>1. ASSUME NEW k \in 1 .. n PROVE Best(s[k]) = 0
                <5>1. k = 1 \/ 1 < k
                    OBVIOUS
                <5>2. Best(s[k]) \in Nat /\ Best(s[1]) >= Best(s[k])
                    BY <1>2, <1>3, <2>1, <2>2, <5>1
                <5> QED BY <3>2, <5>2
            <4> QED BY <1>2, <1>4, <4>1 DEF NothingScores
        <3>3. ByScore(ps) = Match(s[1])
            BY <1>5, <1>8, <2>3
        <3> QED BY <2>2, <3>1, <3>2, <3>3
    <2>4. CASE ~ Decisive(Best(s[1]), Best(s[2]))
        <3>1. ByScore(ps) = Ambiguous(s)
            BY <1>5, <1>8, <2>4
        <3>2. ASSUME NEW p \in ToSet(ps), ClearlyAhead(ps, p) PROVE FALSE
            <4>1. PICK k \in 1 .. n : s[k] = p
                BY <1>2, <1>4, <3>2 DEF ClearlyAhead
            <4>2. CASE k = 1
                <5>1. s[2] \in ToSet(ps) \ {p} /\ ScoresOf(s[2]) # {}
                    BY <1>2, <1>3, <1>4, <2>1, <4>1, <4>2
                <5> QED BY <2>4, <3>2, <4>1, <4>2, <5>1 DEF ClearlyAhead
            <4>3. CASE k # 1
                <5>1. s[1] \in ToSet(ps) \ {p} /\ ScoresOf(s[1]) # {}
                    BY <1>2, <1>3, <1>4, <2>1, <4>1, <4>3
                <5>2. Best(p) > Best(s[1])
                    BY <3>2, <5>1 DEF ClearlyAhead
                <5>3. 1 < k
                    BY <4>3
                <5>4. Best(s[1]) >= Best(p) /\ Best(p) \in Nat
                    BY <1>2, <1>3, <2>1, <4>1, <5>3
                <5> QED BY <2>2, <5>2, <5>4
            <4> QED BY <4>2, <4>3
        <3> QED BY <1>2, <3>1, <3>2
    <2> QED BY <2>3, <2>4
<1> QED BY <1>6, <1>7, <1>8

\* The six answers of resolve.
Answered(ps) ==
    LET r == Resolve(ps)
    IN \/ \E p \in ToSet(ps) : r = Match(p) /\ p.exact
       \/ /\ Exact(ps) = {}
          /\ \E p \in ToSet(ps) : r = Match(p) /\ Prefixed(ps) = {p}
       \/ /\ Exact(ps) = {} /\ Prefixed(ps) = {}
          /\ \E p \in ToSet(ps) : r = Match(p) /\ (ClearlyAhead(ps, p) \/ NothingScores(ps))
       \/ Exact(ps) = {} /\ Prefixed(ps) = {} /\ ToSet(Scored(ps)) = {} /\ r = NotFound
       \/ /\ Exact(ps) = {} /\ Prefixed(ps) # {} /\ Cardinality(Prefixed(ps)) # 1
          /\ \E c : r = Ambiguous(c) /\ ToSet(c) = Prefixed(ps)
       \/ /\ Exact(ps) = {} /\ Prefixed(ps) = {}
          /\ \A p \in ToSet(ps) : ~ ClearlyAhead(ps, p)
          /\ \E c : r = Ambiguous(c) /\ ToSet(c) = ToSet(Scored(ps))

LEMMA ResolveAnswers ==
    ASSUME NEW ps, Projects(ps)
    PROVE  Answered(ps)
<1>1. ps \in Seq(ToSet(ps))
    BY DEF Projects
<1>2. PICK e \in Seq(ToSet(ps)) : e = Only(ps, Exact(ps))
    BY <1>1, OnlyPicks
<1>3. PICK c \in Seq(ToSet(ps)) : c = Only(ps, Prefixed(ps))
    BY <1>1, OnlyPicks
<1>4. Resolve(ps) = IF e # <<>> THEN Match(e[1])
                    ELSE IF Len(c) = 1 THEN Match(c[1])
                    ELSE IF c # <<>> THEN Ambiguous(c)
                    ELSE ByScore(ps)
    BY <1>2, <1>3 DEF Resolve, Exact, Prefixed
<1>5. ToSet(e) = Exact(ps)
    <2>1. ToSet(e) = ToSet(ps) \cap Exact(ps)
        BY <1>1, <1>2, OnlyType
    <2> QED BY <2>1 DEF Exact
<1>6. e = <<>> => Exact(ps) = {}
    BY <1>5 DEF ToSet
<1>7. /\ ToSet(c) = Prefixed(ps)
      /\ c = <<>> <=> Prefixed(ps) = {}
      /\ Len(c) = 1 => Prefixed(ps) = {c[1]}
      /\ Len(c) > 1 => Cardinality(Prefixed(ps)) # 1
    BY <1>3, PrefixedOnce
<1>8. CASE e # <<>>
    <2>1. e[1] \in Exact(ps)
        BY <1>5, <1>8 DEF ToSet
    <2> QED BY <1>4, <1>8, <2>1 DEF Answered, Exact
<1>9. CASE e = <<>> /\ Len(c) = 1
    <2>1. c[1] \in ToSet(ps)
        BY <1>9
    <2> QED BY <1>4, <1>6, <1>7, <1>9, <2>1 DEF Answered
<1>10. CASE e = <<>> /\ Len(c) # 1 /\ c # <<>>
    <2>2. PICK n \in Nat : n = Len(c)
        OBVIOUS
    <2>3. n # 0 /\ n # 1
        BY <1>10, <2>2
    <2>4. n > 1
        BY <2>3
    <2>1. Len(c) > 1
        BY <2>2, <2>4
    <2> QED BY <1>4, <1>6, <1>7, <1>10, <2>1 DEF Answered
<1>11. CASE e = <<>> /\ c = <<>>
    <2>1. Resolve(ps) = ByScore(ps)
        BY <1>4, <1>11
    <2> QED BY <1>6, <1>7, <1>11, <2>1, ByScoreFacts DEF Answered
<1> QED BY <1>8, <1>9, <1>10, <1>11

\* A query is answered with a project or with every project it may mean.
LEMMA GuessesNothing ==
    ASSUME NEW ps, Projects(ps)
    PROVE  NotGuessed(ps)
<1> DEFINE r == Resolve(ps)
<1>1. Answered(ps)
    BY ResolveAnswers
<1>2. ASSUME NEW p \in ToSet(ps), r = Match(p)
      PROVE  r.verdict = "match" /\ r.of[1] = p
    BY <1>2 DEF Match
<1>3. ASSUME NEW c, r = Ambiguous(c)
      PROVE  r.verdict = "ambiguous" /\ Reply(ps).candidates = c
    BY <1>3 DEF Ambiguous, Reply
<1>4. ASSUME r = NotFound
      PROVE  r.verdict = "not found"
    <2>1. NotFound.verdict = "not found"
        BY DEF NotFound
    <2> QED BY <1>4, <2>1
<1>5. {q \in ToSet(ps) : q.prefix} = Prefixed(ps)
    BY DEF Prefixed
<1>6. Exact(ps) = {} => \A q \in ToSet(ps) : ~ q.exact
    BY DEF Exact
<1>7. Cardinality({}) # 1
    BY FS_EmptySet
<1>8. CASE \E p \in ToSet(ps) : r = Match(p) /\ p.exact
    BY <1>2, <1>8 DEF NotGuessed
<1>9. CASE \E p \in ToSet(ps) : r = Match(p) /\ Prefixed(ps) = {p}
    BY <1>2, <1>5, <1>9 DEF NotGuessed
<1>10. CASE /\ Prefixed(ps) = {}
            /\ \E p \in ToSet(ps) : r = Match(p) /\ (ClearlyAhead(ps, p) \/ NothingScores(ps))
    <2>1. PICK p \in ToSet(ps) : r = Match(p) /\ (ClearlyAhead(ps, p) \/ NothingScores(ps))
        BY <1>10
    <2>2. r.verdict = "match" /\ r.of[1] = p
        BY <1>2, <2>1
    <2> HIDE DEF r
    <2>3. {q \in ToSet(ps) : q.prefix} = {} /\ (ClearlyAhead(ps, r.of[1]) \/ NothingScores(ps))
        BY <1>5, <1>10, <2>1, <2>2
    <2> QED BY <2>2, <2>3 DEF NotGuessed, r
<1>11. CASE Exact(ps) = {} /\ Prefixed(ps) = {} /\ ToSet(Scored(ps)) = {} /\ r = NotFound
    BY <1>4, <1>5, <1>6, <1>7, <1>11 DEF NotGuessed
<1>12. CASE /\ Exact(ps) = {} /\ Prefixed(ps) # {} /\ Cardinality(Prefixed(ps)) # 1
            /\ \E c : r = Ambiguous(c) /\ ToSet(c) = Prefixed(ps)
    BY <1>3, <1>5, <1>6, <1>12 DEF NotGuessed
<1>13. CASE /\ Exact(ps) = {} /\ Prefixed(ps) = {}
            /\ \E c : r = Ambiguous(c) /\ ToSet(c) = ToSet(Scored(ps))
    BY <1>3, <1>5, <1>6, <1>7, <1>13 DEF NotGuessed
<1> QED BY <1>1, <1>8, <1>9, <1>10, <1>11, <1>12, <1>13 DEF Answered

\* The list's order is no part of its meaning.
LEMMA AnyOrder ==
    ASSUME NEW ps, Projects(ps), NEW qs \in SetToSeqs(ToSet(ps))
    PROVE  Projects(qs) /\ ToSet(qs) = ToSet(ps)
<1>1. PICK n \in Nat : n = Len(ps) /\ DOMAIN ps = 1 .. n
    BY DEF Projects
<1>2. PICK S : S = ToSet(ps)
    OBVIOUS
<1>3. IsFiniteSet(1 .. n) /\ Cardinality(1 .. n) = n
    BY FS_Interval
<1>4. ps \in Bijection(1 .. n, S)
    <2>1. ps \in [1 .. n -> S]
        BY <1>1, <1>2 DEF Projects
    <2>2. \A i, j \in 1 .. n : ps[i] = ps[j] => i = j
        BY <1>1 DEF Projects
    <2>3. \A p \in S : \E i \in 1 .. n : ps[i] = p
        BY <1>1, <1>2 DEF ToSet
    <2> QED BY <2>1, <2>2, <2>3 DEF Bijection, Injection, IsInjective, Surjection
<1>5. IsFiniteSet(S) /\ Cardinality(S) = n
    BY <1>3, <1>4, FS_Bijection DEF ExistsBijection
<1>6. qs \in [1 .. n -> S] /\ \A i, j \in 1 .. n : i # j => qs[i] # qs[j]
    BY <1>2, <1>5 DEF SetToSeqs
<1>7. qs \in Injection(1 .. n, S)
    BY <1>6 DEF Injection, IsInjective
<1>8. qs \in Surjection(1 .. n, S)
    BY <1>3, <1>5, <1>7, FS_Injection
<1>9. ToSet(qs) = S
    <2>1. DOMAIN qs = 1 .. n /\ \A i \in 1 .. n : qs[i] \in S
        BY <1>6
    <2>2. \A p \in S : \E i \in 1 .. n : qs[i] = p
        BY <1>8 DEF Surjection
    <2> QED BY <2>1, <2>2 DEF ToSet
<1>10. qs \in Seq(S) /\ DOMAIN qs = 1 .. n
    BY <1>6
<1>11. OneExact(qs)
    <2> SUFFICES ASSUME NEW i \in 1 .. n, NEW j \in 1 .. n, qs[i].exact, qs[j].exact
                 PROVE  i = j
        BY <1>10 DEF OneExact
    <2>1. PICK a \in 1 .. n : ps[a] = qs[i]
        BY <1>4, <1>6 DEF Bijection, Surjection
    <2>2. PICK b \in 1 .. n : ps[b] = qs[j]
        BY <1>4, <1>6 DEF Bijection, Surjection
    <2>3. a = b
        BY <1>1, <2>1, <2>2 DEF Projects, OneExact
    <2> QED BY <1>6, <2>1, <2>2, <2>3
<1>12. \A i, j \in DOMAIN qs : qs[i] = qs[j] => i = j
    BY <1>6, <1>10
<1>13. \A p \in S : Scores(p) /\ p.exact \in BOOLEAN /\ p.prefix \in BOOLEAN
    BY <1>2 DEF Projects
<1>14. Projects(qs)
    BY <1>9, <1>10, <1>11, <1>12, <1>13 DEF Projects
<1> QED BY <1>2, <1>9, <1>14

\* p is what the query means among the projects of the list.
Means(ps, p) ==
    /\ p \in ToSet(ps)
    /\ \/ p.exact
       \/ Exact(ps) = {} /\ Prefixed(ps) = {p}
       \/ Exact(ps) = {} /\ Prefixed(ps) = {} /\ ClearlyAhead(ps, p)

LEMMA MeansOne ==
    ASSUME NEW ps, Projects(ps), NEW p, NEW q, Means(ps, p), Means(ps, q)
    PROVE  p = q
<1>1. p \in ToSet(ps) /\ q \in ToSet(ps)
    BY DEF Means
<1>2. CASE p.exact \/ q.exact
    <2>1. p \in Exact(ps) \/ q \in Exact(ps)
        BY <1>1, <1>2 DEF Exact
    <2>2. p.exact /\ q.exact
        BY <2>1, <1>2 DEF Means
    <2>3. PICK i \in DOMAIN ps : ps[i] = p
        BY <1>1 DEF ToSet
    <2>4. PICK j \in DOMAIN ps : ps[j] = q
        BY <1>1 DEF ToSet
    <2> QED BY <2>2, <2>3, <2>4 DEF Projects, OneExact
<1>3. CASE ~ p.exact /\ ~ q.exact /\ Prefixed(ps) # {}
    BY <1>3 DEF Means
<1>4. CASE ~ p.exact /\ ~ q.exact /\ Prefixed(ps) = {}
    <2>1. ClearlyAhead(ps, p) /\ ClearlyAhead(ps, q)
        BY <1>4 DEF Means
    <2> SUFFICES ASSUME p # q PROVE FALSE
        OBVIOUS
    <2>2. Best(p) > Best(q) /\ Best(q) > Best(p)
        BY <1>1, <2>1 DEF ClearlyAhead
    <2>3. Best(p) \in Nat /\ Best(q) \in Nat
        BY <1>1, <2>1, BestFacts DEF ClearlyAhead, Projects
    <2> QED BY <2>2, <2>3
<1> QED BY <1>2, <1>3, <1>4

\* A query that means a project is answered with it, one that means none is
\* ambiguous.
LEMMA AnsweredByMeaning ==
    ASSUME NEW ps, Projects(ps), ~ NothingScores(ps)
    PROVE  \/ \E p : Means(ps, p) /\ Resolve(ps) = Match(p)
           \/ /\ \A p : ~ Means(ps, p)
              /\ Resolve(ps).verdict = "ambiguous"
<1>1. Answered(ps)
    BY ResolveAnswers
<1>2. ToSet(Scored(ps)) # {}
    BY DEF NothingScores
<1>3. \A c : Ambiguous(c).verdict = "ambiguous"
    BY DEF Ambiguous
<1>4. CASE \E p \in ToSet(ps) : Resolve(ps) = Match(p) /\ p.exact
    BY <1>4 DEF Means
<1>5. CASE Exact(ps) = {} /\ \E p \in ToSet(ps) : Resolve(ps) = Match(p) /\ Prefixed(ps) = {p}
    BY <1>5 DEF Means
<1>6. CASE /\ Exact(ps) = {} /\ Prefixed(ps) = {}
           /\ \E p \in ToSet(ps) : Resolve(ps) = Match(p) /\ ClearlyAhead(ps, p)
    BY <1>6 DEF Means
<1>7. CASE /\ Exact(ps) = {} /\ Prefixed(ps) # {} /\ Cardinality(Prefixed(ps)) # 1
           /\ \E c : Resolve(ps) = Ambiguous(c) /\ ToSet(c) = Prefixed(ps)
    <2>1. \A p : Prefixed(ps) # {p}
        BY <1>7, FS_Singleton
    <2>2. \A p \in ToSet(ps) : ~ p.exact
        BY <1>7 DEF Exact
    <2>3. \A p : ~ Means(ps, p)
        BY <1>7, <2>1, <2>2 DEF Means
    <2> QED BY <1>3, <1>7, <2>3
<1>8. CASE /\ Exact(ps) = {} /\ Prefixed(ps) = {}
           /\ \A p \in ToSet(ps) : ~ ClearlyAhead(ps, p)
           /\ \E c : Resolve(ps) = Ambiguous(c) /\ ToSet(c) = ToSet(Scored(ps))
    <2>1. \A p \in ToSet(ps) : ~ p.exact
        BY <1>8 DEF Exact
    <2>2. \A p : ~ Means(ps, p)
        BY <1>8, <2>1 DEF Means
    <2> QED BY <1>3, <1>8, <2>2
<1> QED BY <1>1, <1>2, <1>4, <1>5, <1>6, <1>7, <1>8 DEF Answered

LEMMA OrderIsFree ==
    ASSUME NEW ps, Projects(ps)
    PROVE  OrderFree(ps)
<1> SUFFICES ASSUME ~ NothingScores(ps), NEW qs \in SetToSeqs(ToSet(ps))
             PROVE  /\ Resolve(ps).verdict = Resolve(qs).verdict
                    /\ Resolve(ps).verdict = "match" => Resolve(ps).of = Resolve(qs).of
    BY DEF OrderFree
<1>1. Projects(qs) /\ ToSet(qs) = ToSet(ps)
    BY AnyOrder
<1>2. ToSet(Scored(qs)) = ToSet(Scored(ps))
    <2>1. ToSet(Scored(ps)) = {p \in ToSet(ps) : ScoresOf(p) # {}}
        BY ScoredFacts
    <2>2. ToSet(Scored(qs)) = {p \in ToSet(qs) : ScoresOf(p) # {}}
        BY <1>1, ScoredFacts
    <2> QED BY <1>1, <2>1, <2>2
<1>3. ~ NothingScores(qs)
    BY <1>2 DEF NothingScores
<1>4. \A p : Means(ps, p) <=> Means(qs, p)
    <2>1. Exact(ps) = Exact(qs) /\ Prefixed(ps) = Prefixed(qs)
        BY <1>1 DEF Exact, Prefixed
    <2>2. \A p : ClearlyAhead(ps, p) <=> ClearlyAhead(qs, p)
        BY <1>1 DEF ClearlyAhead
    <2> QED BY <1>1, <2>1, <2>2 DEF Means
<1>5. CASE \E p : Means(ps, p) /\ Resolve(ps) = Match(p)
    <2>1. PICK p : Means(ps, p) /\ Resolve(ps) = Match(p)
        BY <1>5
    <2>2. PICK q : Means(qs, q) /\ Resolve(qs) = Match(q)
        BY <1>1, <1>3, <1>4, <2>1, AnsweredByMeaning
    <2>3. p = q
        BY <1>4, <2>1, <2>2, MeansOne
    <2> QED BY <2>1, <2>2, <2>3
<1>6. CASE (\A p : ~ Means(ps, p)) /\ Resolve(ps).verdict = "ambiguous"
    <2>1. Resolve(qs).verdict = "ambiguous"
        BY <1>1, <1>3, <1>4, <1>6, AnsweredByMeaning
    <2> QED BY <1>6, <2>1
<1> QED BY <1>5, <1>6, AnsweredByMeaning

-----------------------------------------------------------------------------
(* What a shell makes of a line. *)

RanBy(f, line) ==
    f = [n \in 0 .. Len(line) |-> IF n = 0 THEN <<>> ELSE f[n - 1] \o RunsItem(line[n])]

LEMMA RanFacts ==
    ASSUME NEW line \in Seq(Item)
    PROVE  \E f : RanBy(f, line) /\ Runs(line) = f[Len(line)]
<1>1. \E f : RanBy(f, line)
    <2>1. PICK l \in Nat : l = Len(line)
        OBVIOUS
    <2> DEFINE Ran(f, m) == f = [n \in 0 .. m |-> IF n = 0 THEN <<>> ELSE f[n - 1] \o RunsItem(line[n])]
               T == {m \in 0 .. l : ~ \E f : Ran(f, m)}
    <2>2. T = {}
        <3> SUFFICES ASSUME T # {} PROVE FALSE
            OBVIOUS
        <3> HIDE DEF Ran
        <3>4. T \subseteq Nat
            OBVIOUS
        <3>1. PICK m \in T : \A n \in T : m <= n
            <4> HIDE DEF T
            <4> QED BY <3>4, Least
        <3>2. CASE m = 0
            <4>1. PICK g : g = [n \in 0 .. 0 |-> <<>>]
                OBVIOUS
            <4>2. Ran(g, 0)
                BY <4>1 DEF Ran
            <4> QED BY <3>2, <4>2
        <3>3. CASE m # 0
            <4>9. m \in 0 .. l /\ m - 1 \in 0 .. l /\ ~ (m <= m - 1)
                BY <3>3
            <4>1. m \in Nat /\ m - 1 \in Nat /\ m - 1 \in 0 .. l /\ m - 1 \notin T
                <5> HIDE DEF T
                <5> QED BY <3>1, <4>9
            <4>2. PICK f : Ran(f, m - 1)
                BY <4>1
            <4>3. PICK g : g = [n \in 0 .. m |-> IF n = 0 THEN <<>> ELSE f[n - 1] \o RunsItem(line[n])]
                OBVIOUS
            <4>4. \A n \in 0 .. (m - 1) :
                      f[n] = IF n = 0 THEN <<>> ELSE f[n - 1] \o RunsItem(line[n])
                BY <4>2 DEF Ran
            <4>5. \A n \in 0 .. m : n # 0 => n - 1 \in 0 .. (m - 1)
                BY <4>1
            <4>6. \A n \in 0 .. (m - 1) : n \in 0 .. m /\ g[n] = f[n]
                BY <4>1, <4>3, <4>4
            <4>7. \A n \in 0 .. m : g[n] = IF n = 0 THEN <<>> ELSE g[n - 1] \o RunsItem(line[n])
                BY <4>3, <4>5, <4>6
            <4>8. Ran(g, m)
                BY <4>3, <4>7 DEF Ran
            <4> QED BY <4>8
        <3> QED BY <3>2, <3>3
    <2>3. \E f : Ran(f, l)
        <3>1. l \in 0 .. l
            OBVIOUS
        <3> HIDE DEF Ran
        <3> QED BY <2>2, <3>1
    <2> QED BY <2>1, <2>3 DEF RanBy
<1>2. Runs(line) = (CHOOSE f : RanBy(f, line))[Len(line)]
    BY DEF Runs, RanBy
<1> QED BY <1>1, <1>2

LEMMA RunsItemType ==
    ASSUME NEW item \in Item
    PROVE  RunsItem(item) \in Seq(Word)
<1>1. item.word \in Seq(Piece) /\ DOMAIN item.word = 1 .. Len(item.word)
    BY DEF Item, Word
<1>2. CASE item.quoted
    <2>1. PICK x \in Word : x = item.word
        BY <1>1 DEF Word
    <2>2. RunsItem(item) = <<x>>
        BY <1>2, <2>1 DEF RunsItem
    <2>3. <<x>> \in Seq(Word)
        OBVIOUS
    <2> QED BY <2>2, <2>3
<1>3. CASE ~ item.quoted
    <2>1. \A i \in DOMAIN item.word : Expanded(item.word[i]) \in Piece
        <3>1. PICK w \in Seq(Piece) : w = item.word
            BY <1>1
        <3>2. ASSUME NEW x \in Piece PROVE Expanded(x) \in Piece
            <4>1. Expanded(x) = "expanded" \/ Expanded(x) = x
                BY DEF Expanded
            <4>2. "expanded" \in Piece
                BY PieceAssumption
            <4> QED BY <4>1, <4>2
        <3>3. \A i \in DOMAIN w : w[i] \in Piece
            OBVIOUS
        <3>4. \A i \in DOMAIN w : Expanded(w[i]) \in Piece
            BY <3>2, <3>3
        <3> QED BY <3>1, <3>4
    <2>2. \A i \in DOMAIN item.word : <<Expanded(item.word[i])>> \in Word
        BY <2>1 DEF Word
    <2>3. RunsItem(item) = [i \in 1 .. Len(item.word) |-> <<Expanded(item.word[i])>>]
        BY <1>1, <1>3 DEF RunsItem
    <2>4. PICK l \in Nat : l = Len(item.word)
        BY <1>1
    <2>5. PICK g : g = [i \in 1 .. l |-> <<Expanded(item.word[i])>>]
        OBVIOUS
    <2>6. \A i \in 1 .. l : g[i] \in Word
        BY <1>1, <2>2, <2>4, <2>5
    <2>7. g \in [1 .. l -> Word]
        BY <2>5, <2>6
    <2>8. g \in Seq(Word)
        BY <2>7
    <2> QED BY <2>3, <2>4, <2>5, <2>8
<1> QED BY <1>2, <1>3

\* What the n-th step has run.
LEMMA RanStep ==
    ASSUME NEW line \in Seq(Item), NEW f, RanBy(f, line)
    PROVE  /\ f[0] = <<>>
           /\ \A n \in 1 .. Len(line) : f[n] = f[n - 1] \o RunsItem(line[n])
<1>1. PICK l \in Nat : l = Len(line)
    OBVIOUS
<1>2. \A n \in 0 .. l : f[n] = IF n = 0 THEN <<>> ELSE f[n - 1] \o RunsItem(line[n])
    BY <1>1 DEF RanBy
<1>3. 0 \in 0 .. l /\ \A n \in 1 .. l : n \in 0 .. l /\ n # 0
    OBVIOUS
<1> QED BY <1>1, <1>2, <1>3

LEMMA RanType ==
    ASSUME NEW line \in Seq(Item), NEW f, RanBy(f, line)
    PROVE  \A n \in 0 .. Len(line) : f[n] \in Seq(Word)
<1>1. PICK l \in Nat : l = Len(line) /\ DOMAIN line = 1 .. l
    OBVIOUS
<1> DEFINE T == {n \in 0 .. l : f[n] \notin Seq(Word)}
<1>2. T = {}
    <2> SUFFICES ASSUME T # {} PROVE FALSE
        OBVIOUS
    <2>1. T \subseteq Nat
        OBVIOUS
    <2>2. PICK m \in T : \A n \in T : m <= n
        <3> HIDE DEF T
        <3> QED BY <2>1, Least
    <2>3. m # 0
        <3>1. f[0] = <<>>
            BY RanStep
        <3>2. f[0] \in Seq(Word)
            BY <3>1
        <3> QED BY <3>2
    <2>4. m \in 1 .. l /\ m - 1 \in 0 .. l /\ ~ (m <= m - 1)
        BY <2>3
    <2>5. f[m - 1] \in Seq(Word)
        BY <2>2, <2>4
    <2>6. RunsItem(line[m]) \in Seq(Word)
        BY <1>1, <2>4, RunsItemType
    <2>7. f[m] = f[m - 1] \o RunsItem(line[m])
        BY <1>1, <2>4, RanStep
    <2>8. f[m] \in Seq(Word)
        BY <2>5, <2>6, <2>7
    <2> QED BY <2>8
<1> QED BY <1>1, <1>2

LEMMA RunsType ==
    ASSUME NEW line \in Seq(Item)
    PROVE  Runs(line) \in Seq(Word)
<1>1. PICK f : RanBy(f, line) /\ Runs(line) = f[Len(line)]
    BY RanFacts
<1>2. PICK l \in Nat : l = Len(line)
    OBVIOUS
<1>3. l \in 0 .. l
    OBVIOUS
<1> QED BY <1>1, <1>2, <1>3, RanType

\* ConcatFacts and IsConcat, where the lengths and the result have names.
Joins(u, s, t, m, n) == u = s \o t /\ Len(s) = m /\ Len(t) = n
LEMMA JoinFacts ==
    ASSUME NEW X, NEW s \in Seq(X), NEW t \in Seq(X), NEW u,
           NEW m \in Nat, NEW n \in Nat, Joins(u, s, t, m, n)
    PROVE  /\ u \in Seq(X) /\ Len(u) = m + n
           /\ DOMAIN s = 1 .. m /\ DOMAIN t = 1 .. n
           /\ \A i \in 1 .. m : u[i] = s[i]
           /\ \A i \in 1 .. n : u[m + i] = t[i]
<1>0. PICK v : v = s \o t
    OBVIOUS
<1>1. /\ v \in Seq(X) /\ Len(v) = Len(s) + Len(t)
      /\ DOMAIN s = 1 .. Len(s) /\ DOMAIN t = 1 .. Len(t)
    BY <1>0, ConcatFacts
<1>2. \A i \in 1 .. Len(s) : v[i] = s[i]
    BY <1>0, ConcatFacts
<1>3. \A i \in 1 .. Len(t) : v[Len(s) + i] = t[i]
    BY <1>0, ConcatFacts
<1> QED BY <1>0, <1>1, <1>2, <1>3 DEF Joins

LEMMA IsJoin ==
    ASSUME NEW X, NEW s \in Seq(X), NEW t \in Seq(X), NEW u \in Seq(X),
           NEW m \in Nat, NEW n \in Nat, Len(s) = m, Len(t) = n, Len(u) = m + n,
           \A i \in 1 .. m : u[i] = s[i],
           \A i \in 1 .. n : u[m + i] = t[i]
    PROVE  s \o t = u
<1>1. \A i \in 1 .. Len(s) : u[i] = s[i]
    OBVIOUS
<1>2. \A i \in 1 .. Len(t) : u[Len(s) + i] = t[i]
    OBVIOUS
<1>3. Len(u) = Len(s) + Len(t)
    OBVIOUS
<1> QED BY <1>1, <1>2, <1>3, IsConcat

\* Concatenation of three lists.
Regroups(a, b, c) == (a \o b) \o c = a \o (b \o c)

LEMMA Regroup ==
    ASSUME NEW X, NEW a \in Seq(X), NEW b \in Seq(X), NEW c \in Seq(X)
    PROVE  Regroups(a, b, c)
<1>1. PICK ab \in Seq(X) : ab = a \o b
    BY ConcatFacts
<1>2. PICK bc \in Seq(X) : bc = b \o c
    BY ConcatFacts
<1>3. PICK u \in Seq(X) : u = ab \o c
    BY ConcatFacts
<1>4. PICK i \in Nat : i = Len(a)
    OBVIOUS
<1>5. PICK j \in Nat : j = Len(b)
    OBVIOUS
<1>6. PICK k \in Nat : k = Len(c)
    OBVIOUS
<1>7. /\ Len(ab) = i + j /\ \A n \in 1 .. i : ab[n] = a[n]
      /\ \A n \in 1 .. j : ab[i + n] = b[n]
    <2>1. Joins(ab, a, b, i, j)
        BY <1>1, <1>4, <1>5 DEF Joins
    <2> QED BY <2>1, JoinFacts
<1>8. /\ Len(bc) = j + k /\ \A n \in 1 .. j : bc[n] = b[n]
      /\ \A n \in 1 .. k : bc[j + n] = c[n]
    <2>1. Joins(bc, b, c, j, k)
        BY <1>2, <1>5, <1>6 DEF Joins
    <2> QED BY <2>1, JoinFacts
<1>9. /\ Len(u) = (i + j) + k /\ \A n \in 1 .. (i + j) : u[n] = ab[n]
      /\ \A n \in 1 .. k : u[(i + j) + n] = c[n]
    <2>1. PICK ij \in Nat : ij = i + j
        OBVIOUS
    <2>2. Len(ab) = ij /\ Len(c) = k
        BY <1>6, <1>7, <2>1
    <2>3. /\ Len(u) = ij + k /\ \A n \in 1 .. ij : u[n] = ab[n]
          /\ \A n \in 1 .. k : u[ij + n] = c[n]
        <3>1. Joins(u, ab, c, ij, k)
            BY <1>3, <2>2 DEF Joins
        <3>2. Len(u) = ij + k
            BY <3>1, JoinFacts
        <3>3. \A n \in 1 .. ij : u[n] = ab[n]
            BY <3>1, JoinFacts
        <3>4. \A n \in 1 .. k : u[ij + n] = c[n]
            BY <3>1, JoinFacts
        <3> QED BY <3>2, <3>3, <3>4
    <2> QED BY <2>1, <2>3
<1>10. ASSUME NEW n \in 1 .. i PROVE u[n] = a[n]
    <2>1. n \in 1 .. (i + j)
        OBVIOUS
    <2> QED BY <1>7, <1>9, <2>1
<1>11. ASSUME NEW n \in 1 .. (j + k) PROVE u[i + n] = bc[n]
    <2>1. CASE n \in 1 .. j
        <3>1. i + n \in 1 .. (i + j)
            BY <2>1
        <3> QED BY <1>7, <1>8, <1>9, <2>1, <3>1
    <2>2. CASE n \notin 1 .. j
        <3>1. n - j \in 1 .. k /\ (i + j) + (n - j) = i + n /\ j + (n - j) = n
            BY <2>2
        <3>2. u[(i + j) + (n - j)] = c[n - j] /\ bc[j + (n - j)] = c[n - j]
            BY <1>8, <1>9, <3>1
        <3> QED BY <3>1, <3>2
    <2> QED BY <2>1, <2>2
<1>12. Len(u) = Len(a) + Len(bc)
    BY <1>4, <1>8, <1>9
<1>13. a \o bc = u
    <2>1. PICK jk \in Nat : jk = j + k
        OBVIOUS
    <2>2. Len(a) = i /\ Len(bc) = jk /\ Len(u) = i + jk
        BY <1>4, <1>8, <1>9, <2>1
    <2>3. \A n \in 1 .. jk : u[i + n] = bc[n]
        BY <1>11, <2>1
    <2> QED BY <1>10, <2>2, <2>3, IsJoin
<1> QED BY <1>1, <1>2, <1>3, <1>13 DEF Regroups

LEMMA NoConcat ==
    ASSUME NEW X, NEW s \in Seq(X)
    PROVE  s \o <<>> = s /\ <<>> \o s = s
<1>1. <<>> \in Seq(X) /\ Len(<<>>) = 0
    OBVIOUS
<1>2. PICK l \in Nat : l = Len(s)
    OBVIOUS
<1>3. l = l + 0 /\ l = 0 + l /\ \A i \in 1 .. 0 : FALSE
    OBVIOUS
<1>4. s \o <<>> = s
    BY <1>1, <1>2, <1>3, IsConcat
<1>5. \A i \in 1 .. l : 0 + i = i
    OBVIOUS
<1>6. <<>> \o s = s
    BY <1>1, <1>2, <1>3, <1>5, IsConcat
<1> QED BY <1>4, <1>6

\* A line runs what its parts run.
LEMMA RunsConcat ==
    ASSUME NEW s \in Seq(Item), NEW t \in Seq(Item)
    PROVE  Runs(s \o t) = Runs(s) \o Runs(t)
<1>1. PICK u \in Seq(Item) : u = s \o t
    BY ConcatFacts
<1>2. PICK f : RanBy(f, s) /\ Runs(s) = f[Len(s)]
    BY RanFacts
<1>3. PICK g : RanBy(g, t) /\ Runs(t) = g[Len(t)]
    BY RanFacts
<1>4. PICK h : RanBy(h, u) /\ Runs(u) = h[Len(u)]
    BY RanFacts
<1>5. PICK l \in Nat : l = Len(s)
    OBVIOUS
<1>6. PICK r \in Nat : r = Len(t)
    OBVIOUS
<1>7. /\ Len(u) = l + r /\ DOMAIN s = 1 .. l /\ DOMAIN t = 1 .. r
      /\ \A n \in 1 .. l : u[n] = s[n]
      /\ \A n \in 1 .. r : u[l + n] = t[n]
    <2>1. Joins(u, s, t, l, r)
        BY <1>1, <1>5, <1>6 DEF Joins
    <2> QED BY <2>1, JoinFacts
<1>8. /\ f[0] = <<>> /\ \A n \in 1 .. l : f[n] = f[n - 1] \o RunsItem(s[n])
      /\ g[0] = <<>> /\ \A n \in 1 .. r : g[n] = g[n - 1] \o RunsItem(t[n])
      /\ h[0] = <<>> /\ \A n \in 1 .. (l + r) : h[n] = h[n - 1] \o RunsItem(u[n])
    <2>1. f[0] = <<>> /\ \A n \in 1 .. l : f[n] = f[n - 1] \o RunsItem(s[n])
        BY <1>2, <1>5, RanStep
    <2>2. g[0] = <<>> /\ \A n \in 1 .. r : g[n] = g[n - 1] \o RunsItem(t[n])
        BY <1>3, <1>6, RanStep
    <2>3. h[0] = <<>> /\ \A n \in 1 .. (l + r) : h[n] = h[n - 1] \o RunsItem(u[n])
        <3>1. PICK d \in Nat : d = l + r
            OBVIOUS
        <3>2. RanBy(h, u) /\ Len(u) = d
            BY <1>4, <1>7, <3>1
        <3>3. h[0] = <<>> /\ \A n \in 1 .. d : h[n] = h[n - 1] \o RunsItem(u[n])
            BY <3>2, RanStep
        <3> QED BY <3>1, <3>3
    <2> QED BY <2>1, <2>2, <2>3
<1>9. /\ \A n \in 0 .. l : f[n] \in Seq(Word)
      /\ \A n \in 0 .. r : g[n] \in Seq(Word)
    BY <1>2, <1>3, <1>5, <1>6, RanType
<1> DEFINE T == {n \in 0 .. l : h[n] # f[n]}
<1>10. T = {}
    <2> SUFFICES ASSUME T # {} PROVE FALSE
        OBVIOUS
    <2>1. T \subseteq Nat
        OBVIOUS
    <2>2. PICK m \in T : \A n \in T : m <= n
        <3> HIDE DEF T
        <3> QED BY <2>1, Least
    <2>3. m # 0
        BY <1>8
    <2>4. m \in 1 .. l /\ m \in 1 .. (l + r) /\ m - 1 \in 0 .. l /\ ~ (m <= m - 1)
        BY <2>3
    <2>5. h[m - 1] = f[m - 1]
        BY <2>2, <2>4
    <2>6. h[m] = h[m - 1] \o RunsItem(u[m]) /\ f[m] = f[m - 1] \o RunsItem(s[m]) /\ u[m] = s[m]
        BY <1>7, <1>8, <2>4
    <2>7. h[m] = f[m]
        BY <2>5, <2>6
    <2> QED BY <2>7
<1> DEFINE Differs(n) == h[l + n] # f[l] \o g[n]
           V == {n \in 0 .. r : Differs(n)}
<1>11. V = {}
    <2> SUFFICES ASSUME V # {} PROVE FALSE
        OBVIOUS
    <2>1. V \subseteq Nat
        <3> HIDE DEF Differs
        <3> QED OBVIOUS
    <2>2. PICK m \in V : \A n \in V : m <= n
        <3> HIDE DEF V
        <3> QED BY <2>1, Least
    <2>8. l \in 0 .. l /\ 0 \in 0 .. r /\ l + 0 = l
        OBVIOUS
    <2>9. f[l] \in Seq(Word)
        BY <1>9, <2>8
    <2>3. m # 0
        <3>1. h[l] = f[l]
            BY <1>10, <2>8
        <3>2. f[l] \o <<>> = f[l]
            BY <2>9, NoConcat
        <3>3. h[l + 0] = f[l] \o g[0]
            BY <3>1, <3>2, <2>8, <1>8
        <3> QED BY <3>3
    <2>4. /\ m \in 1 .. r /\ l + m \in 1 .. (l + r) /\ m - 1 \in 0 .. r /\ ~ (m <= m - 1)
          /\ (l + m) - 1 = l + (m - 1)
        BY <2>3
    <2>5. h[l + (m - 1)] = f[l] \o g[m - 1]
        BY <2>2, <2>4
    <2>6. /\ h[l + m] = h[(l + m) - 1] \o RunsItem(u[l + m])
          /\ g[m] = g[m - 1] \o RunsItem(t[m]) /\ u[l + m] = t[m]
        BY <1>7, <1>8, <2>4
    <2>7. RunsItem(t[m]) \in Seq(Word) /\ g[m - 1] \in Seq(Word)
        <3>1. t[m] \in Item
            BY <1>7, <2>4
        <3>2. RunsItem(t[m]) \in Seq(Word)
            BY <3>1, RunsItemType
        <3>3. g[m - 1] \in Seq(Word)
            BY <1>9, <2>4
        <3> QED BY <3>2, <3>3
    <2>10. (f[l] \o g[m - 1]) \o RunsItem(t[m]) = f[l] \o (g[m - 1] \o RunsItem(t[m]))
        <3>1. PICK x \in Seq(Word) : x = f[l]
            BY <2>9
        <3>2. PICK y \in Seq(Word) : y = g[m - 1]
            BY <2>7
        <3>3. PICK z \in Seq(Word) : z = RunsItem(t[m])
            BY <2>7
        <3>4. (x \o y) \o z = x \o (y \o z)
            <4>1. Regroups(x, y, z)
                BY Regroup
            <4> QED BY <4>1 DEF Regroups
        <3> QED BY <3>1, <3>2, <3>3, <3>4
    <2>11. h[l + m] = f[l] \o g[m]
        BY <2>4, <2>5, <2>6, <2>10
    <2> QED BY <2>11
<1>12. h[l + r] = f[l] \o g[r]
    <2>1. r \in 0 .. r
        OBVIOUS
    <2> QED BY <1>11, <2>1
<1> QED BY <1>1, <1>2, <1>3, <1>4, <1>5, <1>6, <1>7, <1>12

\* A line whose items each run one word runs those words.
LEMMA RunsEach ==
    ASSUME NEW ws \in Seq(Word), NEW line \in Seq(Item), Len(line) = Len(ws),
           \A i \in 1 .. Len(ws) : RunsItem(line[i]) = <<ws[i]>>
    PROVE  Runs(line) = ws
<1>1. PICK l \in Nat : l = Len(ws) /\ Len(line) = l
    OBVIOUS
<1>2. PICK f : RanBy(f, line) /\ Runs(line) = f[Len(line)]
    BY RanFacts
<1>3. f[0] = <<>> /\ \A n \in 1 .. l : f[n] = f[n - 1] \o RunsItem(line[n])
    BY <1>1, <1>2, RanStep
<1>4. \A n \in 0 .. l : f[n] \in Seq(Word)
    BY <1>1, <1>2, RanType
<1> DEFINE Right(n) == Len(f[n]) = n /\ \A i \in 1 .. n : f[n][i] = ws[i]
           T == {n \in 0 .. l : ~ Right(n)}
<1>5. T = {}
    <2> SUFFICES ASSUME T # {} PROVE FALSE
        OBVIOUS
    <2>9. Right(0)
        BY <1>3
    <2> HIDE DEF Right
    <2>1. T \subseteq Nat
        OBVIOUS
    <2>2. PICK m \in T : \A n \in T : m <= n
        <3> HIDE DEF T
        <3> QED BY <2>1, Least
    <2>3. m # 0
        BY <2>9
    <2>4. m \in 1 .. l /\ m - 1 \in 0 .. l /\ ~ (m <= m - 1)
        BY <2>3
    <2>5. Right(m - 1)
        BY <2>2, <2>4
    <2>6. PICK a \in Seq(Word) : a = f[m - 1]
        BY <1>4, <2>4
    <2>16. ws[m] \in Word
        BY <1>1, <2>4
    <2>10. PICK b \in Seq(Word) : b = <<ws[m]>>
        <3>1. PICK x \in Word : x = ws[m]
            BY <2>16
        <3>2. <<x>> \in Seq(Word)
            OBVIOUS
        <3> QED BY <3>1, <3>2
    <2>17. f[m] = a \o b
        BY <1>1, <1>3, <2>4, <2>6, <2>10
    <2>7. PICK c : c = a \o b /\ c = f[m]
        BY <2>17
    <2>11. Len(a) = m - 1 /\ \A i \in 1 .. (m - 1) : a[i] = ws[i]
        BY <2>5, <2>6 DEF Right
    <2>12. Len(b) = 1 /\ b[1] = ws[m]
        BY <2>10
    <2>13. /\ Len(c) = (m - 1) + 1 /\ \A i \in 1 .. (m - 1) : c[i] = a[i]
           /\ c[(m - 1) + 1] = b[1]
        <3>1. 1 \in 1 .. 1
            OBVIOUS
        <3>2. PICK k \in Nat : k = m - 1
            BY <2>4
        <3>3. Len(a) = k /\ Len(b) = 1 /\ 1 \in Nat
            BY <2>11, <2>12, <3>2
        <3>4. /\ Len(c) = k + 1 /\ \A i \in 1 .. k : c[i] = a[i]
              /\ \A i \in 1 .. 1 : c[k + i] = b[i]
            <4>1. Joins(c, a, b, k, 1)
                BY <2>7, <3>3 DEF Joins
            <4> QED BY <3>3, <4>1, JoinFacts
        <3> QED BY <3>1, <3>2, <3>4
    <2>14. (m - 1) + 1 = m /\ \A i \in 1 .. m : i = m \/ i \in 1 .. (m - 1)
        BY <2>4
    <2>15. Right(m)
        BY <2>7, <2>11, <2>12, <2>13, <2>14 DEF Right
    <2> QED BY <2>15
<1>6. l \in 0 .. l
    OBVIOUS
<1>7. Right(l)
    BY <1>5, <1>6
<1>8. f[l] = ws
    BY <1>1, <1>4, <1>6, <1>7
<1> QED BY <1>1, <1>2, <1>8

-----------------------------------------------------------------------------
(* The words and the profile of a list of arguments. *)

\* A part of a part of a list.
LEMMA OnlyOnly ==
    ASSUME NEW X, NEW s \in Seq(X), NEW A, NEW B, B \subseteq A
    PROVE  Only(Only(s, A), B) = Only(s, B)
<1>1. PICK o \in Seq(X) : o = Only(s, A)
    BY OnlyPicks
<1>20. PICK n \in Nat : \E L : Picks(o, s, A, n, L)
    BY <1>1, OnlyPicks
<1>2. PICK L : Picks(o, s, A, n, L)
    BY <1>20
<1>3. PICK p \in Seq(X) : p = Only(o, B)
    BY OnlyPicks
<1>40. PICK m \in Nat : \E K : Picks(p, o, B, m, K)
    BY <1>3, OnlyPicks
<1>4. PICK K : Picks(p, o, B, m, K)
    BY <1>40
<1>5. DOMAIN o = 1 .. n
    BY <1>2 DEF Picks
<1>6. PICK M : M = [k \in 1 .. m |-> L[K[k]]]
    OBVIOUS
<1>7. /\ \A k \in 1 .. m : K[k] \in 1 .. n /\ M[k] = L[K[k]]
      /\ \A k \in 1 .. n : L[k] \in DOMAIN s
    BY <1>2, <1>4, <1>5, <1>6 DEF Picks
<1>8. M \in [1 .. m -> DOMAIN s]
    BY <1>6, <1>7
<1>9. ASSUME NEW j \in 1 .. m, NEW k \in 1 .. m, j < k PROVE M[j] < M[k]
    <2>1. K[j] < K[k]
        BY <1>4, <1>9 DEF Picks
    <2> QED BY <1>2, <1>7, <2>1 DEF Picks
<1>10. ASSUME NEW i \in DOMAIN s PROVE s[i] \in B <=> \E k \in 1 .. m : M[k] = i
    <2>1. CASE s[i] \in B
        <3>1. PICK j \in 1 .. n : L[j] = i
            BY <1>2, <2>1 DEF Picks
        <3>2. o[j] = s[i] /\ j \in DOMAIN o
            BY <1>2, <1>5, <3>1 DEF Picks
        <3>3. PICK k \in 1 .. m : K[k] = j
            BY <1>4, <2>1, <3>2 DEF Picks
        <3>4. M[k] = i
            BY <1>7, <3>1, <3>3
        <3> QED BY <2>1, <3>4
    <2>2. ASSUME NEW k \in 1 .. m, M[k] = i PROVE s[i] \in B
        <3>1. K[k] \in 1 .. n /\ L[K[k]] = i
            BY <1>7, <2>2
        <3>2. o[K[k]] = s[i]
            BY <1>2, <3>1 DEF Picks
        <3>3. p[k] = o[K[k]] /\ o[K[k]] \in B
            BY <1>4, <1>5, <3>1 DEF Picks
        <3> QED BY <3>2, <3>3
    <2> QED BY <2>1, <2>2
<1>11. Len(p) = m
    BY <1>4 DEF Picks
<1>12. ASSUME NEW k \in 1 .. m PROVE p[k] = s[M[k]]
    <2>1. p[k] = o[K[k]]
        BY <1>4 DEF Picks
    <2>2. o[K[k]] = s[L[K[k]]]
        BY <1>2, <1>7 DEF Picks
    <2> QED BY <1>7, <2>1, <2>2
<1>13. Picks(p, s, B, m, M)
    BY <1>8, <1>9, <1>10, <1>11, <1>12 DEF Picks
<1>14. Only(s, B) = p
    BY <1>13, OnlyUnique
<1> QED BY <1>1, <1>3, <1>14

\* Nothing of a list that has nothing of it.
LEMMA OnlyNone ==
    ASSUME NEW X, NEW s \in Seq(X), NEW A, \A i \in DOMAIN s : s[i] \notin A
    PROVE  Only(s, A) = <<>>
BY OnlyType

LEMMA WordsConcat ==
    ASSUME NEW s \in Seq(Word), NEW t \in Seq(Word)
    PROVE  /\ Words(s \o t) = Words(s) \o Words(t)
           /\ Given(s \o t) = Given(s) \o Given(t)
<1>1. Words(s \o t) = Words(s) \o Words(t)
    BY OnlyConcat DEF Words
<1>2. Given(s \o t) = Given(s) \o Given(t)
    BY OnlyConcat DEF Given
<1> QED BY <1>1, <1>2

LEMMA WordsFacts ==
    ASSUME NEW s \in Seq(Word)
    PROVE  /\ Words(s) \in Seq(Word) /\ Given(s) \in Seq(Word)
           /\ Words(Words(s)) = Words(s) /\ Given(Words(s)) = <<>>
           /\ \A i \in DOMAIN Given(s) : NamesProfile(Given(s)[i])
<1>1. PICK w \in Seq(Word) : w = Words(s) /\ ToSet(w) = ToSet(s) \cap (Word \ Profiles)
    BY OnlyType DEF Words
<1>2. PICK g \in Seq(Word) :
               g = Given(s) /\ ToSet(g) = ToSet(s) \cap {word \in Word : NamesProfile(word)}
    BY OnlyType DEF Given
<1>3. \A i \in DOMAIN w : w[i] \in Word \ Profiles
    BY <1>1 DEF ToSet
<1>4. \A i \in DOMAIN g : NamesProfile(g[i])
    BY <1>2 DEF ToSet
<1>5. Words(w) = w
    BY <1>3, OnlyAll DEF Words
<1>6. \A i \in DOMAIN w : w[i] \notin {word \in Word : NamesProfile(word)}
    BY <1>3 DEF Profiles, IsProfile
<1>7. Given(w) = <<>>
    BY <1>6, OnlyNone DEF Given
<1> QED BY <1>1, <1>2, <1>4, <1>5, <1>7

\* A profile's argument gives back its name.
LEMMA ProfileRound ==
    ASSUME NEW word \in Word, NamesProfile(word)
    PROVE  /\ ProfileOf(word) \in Word /\ Profile(ProfileOf(word)) = word
           /\ Len(ProfileOf(word)) = Len(word) /\ ProfileOf(word)[1] \in DOMAIN FlagOf
<1>1. PICK w \in Seq(Piece) : w = word
    BY DEF Word
<1>2. PICK l \in Nat : l = Len(w) /\ DOMAIN w = 1 .. l
    OBVIOUS
<1>3. 1 \in 1 .. l
    BY <1>1, <1>2 DEF NamesProfile
<1>4. \E p \in DOMAIN FlagOf : FlagOf[p] = w[1]
    BY <1>1 DEF NamesProfile, Flags
<1>5. PICK p : p = CHOOSE x \in DOMAIN FlagOf : FlagOf[x] = w[1]
    OBVIOUS
<1>6. p \in DOMAIN FlagOf /\ FlagOf[p] = w[1] /\ p \in Piece
    BY <1>4, <1>5, PieceAssumption
<1>7. PICK n : n = [w EXCEPT ![1] = p]
    OBVIOUS
<1>8. n \in Seq(Piece) /\ Len(n) = l /\ n[1] = p
    BY <1>2, <1>3, <1>6, <1>7
<1>9. ProfileOf(word) = n
    BY <1>1, <1>2, <1>3, <1>5, <1>7 DEF ProfileOf
<1>10. [n EXCEPT ![1] = FlagOf[p]] = w
    <2>1. PICK v : v = [n EXCEPT ![1] = FlagOf[p]]
        OBVIOUS
    <2>2. DOMAIN n = 1 .. l /\ \A i \in 1 .. l : i # 1 => n[i] = w[i]
        BY <1>2, <1>7
    <2>3. v = [i \in 1 .. l |-> IF i = 1 THEN FlagOf[p] ELSE n[i]]
        BY <2>1, <2>2
    <2>4. \A i \in 1 .. l : v[i] = w[i]
        BY <1>6, <2>2, <2>3
    <2>5. w = [i \in 1 .. l |-> w[i]] /\ v = [i \in 1 .. l |-> v[i]]
        BY <1>2, <2>3
    <2> QED BY <2>1, <2>4, <2>5
<1>11. Profile(n) = w
    BY <1>8, <1>10 DEF Profile
<1> QED BY <1>1, <1>2, <1>6, <1>8, <1>9, <1>11 DEF Word

-----------------------------------------------------------------------------
(* The lines of the settings window. *)

LEMMA ShellRuns ==
    ASSUME NEW l \in Launch
    PROVE  /\ ShellCommand(l) = [cd |-> l.workdir, argv |-> Runs(l.command) \o l.args]
           /\ Runs(l.command) \in Seq(Word)
<1>1. PICK args \in Seq(Word) : args = l.args
    BY DEF Launch
<1>2. PICK command \in Seq(Item) : command = l.command
    BY DEF Launch
<1>3. PICK n \in Nat : n = Len(args) /\ DOMAIN args = 1 .. n
    OBVIOUS
<1>4. PICK q : q = [i \in DOMAIN args |-> Quoted(args[i])]
    OBVIOUS
<1>5. \A i \in 1 .. n : q[i] = Quoted(args[i]) /\ args[i] \in Word
    BY <1>3, <1>4
<1>6. \A w \in Word : Quoted(w) \in Item /\ RunsItem(Quoted(w)) = <<w>>
    BY DEF Quoted, Item, RunsItem
<1>7. q \in [1 .. n -> Item]
    BY <1>3, <1>4, <1>5, <1>6
<1>8. q \in Seq(Item) /\ Len(q) = n
    BY <1>7
<1>9. \A i \in 1 .. Len(args) : RunsItem(q[i]) = <<args[i]>>
    BY <1>3, <1>5, <1>6
<1>10. Runs(q) = args
    BY <1>3, <1>8, <1>9, RunsEach
<1>11. Runs(command \o q) = Runs(command) \o args
    BY <1>8, <1>10, RunsConcat
<1>12. ShellCommand(l) = [cd |-> l.workdir, argv |-> Runs(command \o q)]
    BY <1>1, <1>2, <1>4 DEF ShellCommand
<1>13. Runs(command) \in Seq(Word)
    BY RunsType
<1> QED BY <1>1, <1>2, <1>11, <1>12, <1>13

LEMMA PanelQuoted ==
    ASSUME NEW word \in Word
    PROVE  PanelQuote(word) \in Item /\ RunsItem(PanelQuote(word)) = <<word>>
<1>1. PICK q : q = PanelQuote(word)
    OBVIOUS
<1>2. CASE Len(word) = 1 /\ word[1] \notin Special
    <2>1. q = [word |-> word, quoted |-> FALSE]
        BY <1>1, <1>2 DEF PanelQuote, Raw
    <2>2. q \in Item
        BY <2>1 DEF Item
    <2>3. PICK r \in Seq(Word) : r = RunsItem(q)
        BY <2>2, RunsItemType
    <2>4. word \in Seq(Piece) /\ DOMAIN word = 1 .. 1
        BY <1>2 DEF Word
    <2>5. r = [i \in 1 .. 1 |-> <<Expanded(word[i])>>]
        BY <2>1, <2>3, <2>4 DEF RunsItem
    <2>6. Expanded(word[1]) = word[1]
        BY <1>2 DEF Expanded
    <2>7. 1 \in 1 .. 1
        OBVIOUS
    <2>8. r[1] = <<word[1]>> /\ Len(r) = 1
        BY <2>5, <2>6, <2>7
    <2>9. <<word[1]>> = word
        BY <1>2, <2>4
    <2>10. r = <<word>>
        BY <2>8, <2>9
    <2> QED BY <1>1, <2>2, <2>3, <2>10
<1>3. CASE ~ (Len(word) = 1 /\ word[1] \notin Special)
    <2>1. q = [word |-> word, quoted |-> TRUE]
        BY <1>1, <1>3 DEF PanelQuote, Quoted
    <2> QED BY <1>1, <2>1 DEF Item, RunsItem
<1> QED BY <1>2, <1>3

\* The line that the settings window shows runs what the launch runs, but for
\* the profile's argument.
LEMMA ShownRuns ==
    ASSUME NEW l \in Launch
    PROVE  /\ CommandLine(l) \in Seq(Item)
           /\ Runs(CommandLine(l)) = Runs(l.command) \o Words(l.args)
           /\ l.command # <<>> => CommandLine(l) # <<>>
<1>1. PICK words \in Seq(Word) : words = Words(l.args)
    BY WordsFacts DEF Launch
<1>2. PICK command \in Seq(Item) : command = l.command
    BY DEF Launch
<1>3. PICK n \in Nat : n = Len(words) /\ DOMAIN words = 1 .. n
    OBVIOUS
<1>4. PICK q : q = [i \in DOMAIN words |-> PanelQuote(words[i])]
    OBVIOUS
<1>5. \A i \in 1 .. n : q[i] = PanelQuote(words[i]) /\ words[i] \in Word
    BY <1>3, <1>4
<1>6. \A i \in 1 .. n : q[i] \in Item /\ RunsItem(q[i]) = <<words[i]>>
    BY <1>5, PanelQuoted
<1>7. q \in [1 .. n -> Item]
    BY <1>3, <1>4, <1>6
<1>8. q \in Seq(Item) /\ Len(q) = n
    BY <1>7
<1>9. Runs(q) = words
    BY <1>3, <1>6, <1>8, RunsEach
<1>10. Runs(command \o q) = Runs(command) \o words
    BY <1>8, <1>9, RunsConcat
<1>11. CommandLine(l) = command \o q
    BY <1>1, <1>2, <1>4 DEF CommandLine
<1>12. PICK line \in Seq(Item) : line = command \o q /\ Len(line) = Len(command) + Len(q)
    BY <1>8, ConcatFacts
<1>13. command # <<>> => line # <<>>
    <2>1. PICK a \in Nat : a = Len(command)
        OBVIOUS
    <2>2. Len(line) = a + n
        BY <1>8, <1>12, <2>1
    <2> QED BY <2>1, <2>2
<1> QED BY <1>1, <1>2, <1>10, <1>11, <1>12, <1>13

\* Where a concatenation begins.
IsCat(u, g, x) == u = g \o x

LEMMA Heads ==
    ASSUME NEW X, NEW g \in Seq(X), NEW x \in Seq(X), NEW u, IsCat(u, g, x)
    PROVE  /\ u = <<>> <=> (g = <<>> /\ x = <<>>)
           /\ g = <<>> => u = x
           /\ g # <<>> => u[1] = g[1]
<1>1. PICK i \in Nat : i = Len(g)
    OBVIOUS
<1>2. PICK k \in Nat : k = Len(x)
    OBVIOUS
<1>3. Joins(u, g, x, i, k)
    BY <1>1, <1>2 DEF Joins, IsCat
<1>4. u \in Seq(X)
    BY <1>3, JoinFacts
<1>9. Len(u) = i + k
    BY <1>3, JoinFacts
<1>5. \A n \in 1 .. i : u[n] = g[n]
    BY <1>3, JoinFacts
<1>6. u = <<>> <=> (g = <<>> /\ x = <<>>)
    BY <1>1, <1>2, <1>4, <1>9
<1>7. g = <<>> => u = x
    BY NoConcat DEF IsCat
<1>8. g # <<>> => u[1] = g[1]
    <2>1. i # 0 => 1 \in 1 .. i
        OBVIOUS
    <2> QED BY <1>1, <1>5, <2>1
<1> QED BY <1>6, <1>7, <1>8

\* What a line runs, with the profile's argument moved to its end.
LEMMA ProfileMoved ==
    ASSUME NEW cd, NEW ran \in Seq(Word), NEW args \in Seq(Word), NEW new \in Seq(Word),
           Words(new) = <<>>,
           Given(args) = <<>> => Given(new) = <<>>,
           Given(args) # <<>> => Given(new) # <<>> /\ Given(new)[1] = Given(args)[1]
    PROVE  SameLaunch([cd |-> cd, argv |-> (ran \o Words(args)) \o new],
                      [cd |-> cd, argv |-> ran \o args])
<1>1. PICK w \in Seq(Word) : w = Words(args) /\ Words(w) = w /\ Given(w) = <<>>
    BY WordsFacts
<1>2. PICK r \in Seq(Word) : r = Words(ran)
    BY WordsFacts
<1>3. PICK g \in Seq(Word) : g = Given(ran)
    BY WordsFacts
<1>4. PICK x \in Seq(Word) : x = Given(args)
    BY WordsFacts
<1>5. PICK y \in Seq(Word) : y = Given(new)
    BY WordsFacts
<1>6. PICK u \in Seq(Word) : u = ran \o w
    BY ConcatFacts
<1>7. PICK a \in Seq(Word) : a = u \o new
    BY ConcatFacts
<1>8. PICK b \in Seq(Word) : b = ran \o args
    BY ConcatFacts
<1>9. Words(u) = r \o w /\ Given(u) = g \o <<>>
    <2>1. Words(ran \o w) = Words(ran) \o Words(w) /\ Given(ran \o w) = Given(ran) \o Given(w)
        BY WordsConcat
    <2> QED BY <1>1, <1>2, <1>3, <1>6, <2>1
<1>10. Given(u) = g
    BY <1>9, NoConcat
<1>11. Words(a) = (r \o w) \o <<>> /\ Given(a) = g \o y
    <2>1. Words(u \o new) = Words(u) \o Words(new) /\ Given(u \o new) = Given(u) \o Given(new)
        BY WordsConcat
    <2> QED BY <1>5, <1>7, <1>9, <1>10, <2>1
<1>12. Words(a) = r \o w
    <2>1. PICK z \in Seq(Word) : z = r \o w
        BY ConcatFacts
    <2> QED BY <1>11, <2>1, NoConcat
<1>13. Words(b) = r \o w /\ Given(b) = g \o x
    <2>1. Words(ran \o args) = Words(ran) \o Words(args)
              /\ Given(ran \o args) = Given(ran) \o Given(args)
        BY WordsConcat
    <2> QED BY <1>1, <1>2, <1>3, <1>4, <1>8, <2>1
<1>14. ProfileArg(a) = ProfileArg(b)
    <2>1. PICK ga \in Seq(Word) : ga = g \o y /\ Given(a) = ga
        BY <1>11, ConcatFacts
    <2>2. PICK gb \in Seq(Word) : gb = g \o x /\ Given(b) = gb
        BY <1>13, ConcatFacts
    <2>3. /\ ga = <<>> <=> (g = <<>> /\ y = <<>>)
          /\ g = <<>> => ga = y
          /\ g # <<>> => ga[1] = g[1]
        <3>1. IsCat(ga, g, y)
            BY <2>1 DEF IsCat
        <3> QED BY <3>1, Heads
    <2>4. /\ gb = <<>> <=> (g = <<>> /\ x = <<>>)
          /\ g = <<>> => gb = x
          /\ g # <<>> => gb[1] = g[1]
        <3>1. IsCat(gb, g, x)
            BY <2>2 DEF IsCat
        <3> QED BY <3>1, Heads
    <2>5. (x = <<>> => y = <<>>) /\ (x # <<>> => y # <<>> /\ y[1] = x[1])
        BY <1>4, <1>5
    <2>11. ga = <<>> <=> gb = <<>>
        BY <2>3, <2>4, <2>5
    <2>12. ga # <<>> => ga[1] = gb[1]
        BY <2>3, <2>4, <2>5
    <2>13. ProfileArg(a) = IF ga = <<>> THEN None ELSE ProfileOf(ga[1])
        BY <2>1 DEF ProfileArg
    <2>14. ProfileArg(b) = IF gb = <<>> THEN None ELSE ProfileOf(gb[1])
        BY <2>2 DEF ProfileArg
    <2> QED BY <2>11, <2>12, <2>13, <2>14
<1> QED BY <1>1, <1>6, <1>7, <1>8, <1>12, <1>13, <1>14 DEF SameLaunch

\* The profile's arguments that saving a row puts beside its line.
LEMMA ProfileStays ==
    ASSUME NEW args \in Seq(Word), NEW profile,
           profile = Absent \/ profile = ProfileArg(args)
    PROVE  /\ ProfileArgs(args, profile) \in Seq(Word)
           /\ Words(ProfileArgs(args, profile)) = <<>>
           /\ Given(args) = <<>> => Given(ProfileArgs(args, profile)) = <<>>
           /\ Given(args) # <<>> => /\ Given(ProfileArgs(args, profile)) # <<>>
                                    /\ Given(ProfileArgs(args, profile))[1] = Given(args)[1]
<1>1. PICK new : new = ProfileArgs(args, profile)
    OBVIOUS
<1>2. PICK given \in Seq(Word) : given = Given(args) /\ \A i \in DOMAIN given :
               NamesProfile(given[i])
    BY WordsFacts
<1>3. CASE profile = Absent
    <2>1. PICK o \in Seq(Word) : o = Only(args, Profiles) /\ ToSet(o) = ToSet(args) \cap Profiles
        BY OnlyType
    <2>2. new = o
        BY <1>1, <1>3, <2>1 DEF ProfileArgs
    <2>3. \A i \in DOMAIN o : o[i] \in Profiles
        BY <2>1 DEF ToSet
    <2>4. Words(o) = <<>>
        <3>1. \A i \in DOMAIN o : o[i] \notin Word \ Profiles
            BY <2>3
        <3> QED BY <3>1, OnlyNone DEF Words
    <2>5. {word \in Word : NamesProfile(word)} \subseteq Profiles
        BY DEF Profiles, IsProfile
    <2>6. Given(o) = given
        BY <1>2, <2>1, <2>5, OnlyOnly DEF Given
    <2> QED BY <1>1, <1>2, <2>2, <2>4, <2>6
<1>4. CASE profile # Absent /\ given = <<>>
    <2>1. profile = None
        BY <1>2, <1>4 DEF ProfileArg
    <2>2. new = <<>>
        BY <1>1, <1>4, <2>1 DEF ProfileArgs
    <2>3. <<>> \in Seq(Word) /\ \A i \in DOMAIN <<>> : FALSE
        OBVIOUS
    <2>4. Words(<<>>) = <<>> /\ Given(<<>>) = <<>>
        BY <2>3, OnlyNone DEF Words, Given
    <2> QED BY <1>1, <1>2, <1>4, <2>2, <2>3, <2>4
<1>5. CASE profile # Absent /\ given # <<>>
    <2>1. PICK word \in Word : word = given[1] /\ NamesProfile(word)
        <3>1. PICK l \in Nat : l = Len(given) /\ DOMAIN given = 1 .. l
            OBVIOUS
        <3>2. 1 \in 1 .. l
            BY <1>5, <3>1
        <3> QED BY <1>2, <3>1, <3>2
    <2>2. profile = ProfileOf(word)
        BY <1>2, <1>5, <2>1 DEF ProfileArg
    <2>3. ProfileOf(word) \in Word /\ Profile(ProfileOf(word)) = word
        BY <2>1, ProfileRound
    <2>4. profile # None
        BY <2>2, <2>3, NoneAssumption
    <2>5. new = <<word>>
        BY <1>1, <1>5, <2>2, <2>3, <2>4 DEF ProfileArgs
    <2>6. PICK o : o = <<word>>
        OBVIOUS
    <2>12. o \in Seq(Word)
        BY <2>6
    <2>13. DOMAIN o = 1 .. 1 /\ o[1] = word /\ \A i \in 1 .. 1 : i = 1
        BY <2>6
    <2>7. \A i \in DOMAIN o : o[i] \notin Word \ Profiles
        BY <2>1, <2>13 DEF Profiles, IsProfile
    <2>8. Words(o) = <<>>
        BY <2>7, <2>12, OnlyNone DEF Words
    <2>9. \A i \in DOMAIN o : o[i] \in {w \in Word : NamesProfile(w)}
        BY <2>1, <2>13
    <2>10. Given(o) = o
        BY <2>9, <2>12, OnlyAll DEF Given
    <2>11. o # <<>>
        BY <2>6
    <2> QED BY <1>1, <1>2, <1>5, <2>1, <2>5, <2>6, <2>8, <2>10, <2>11, <2>12, <2>13
<1> QED BY <1>3, <1>4, <1>5

\* A row whose line runs the launch's, saved over the launch.
LEMMA SavedSame ==
    ASSUME NEW l \in Launch, l.command # <<>>, NEW executable, NEW class,
           NEW row, row.command = CommandLine(l), row.workdir = l.workdir,
           row.profile = Absent \/ row.profile = ProfileArg(l.args)
    PROVE  LET slot == [launch |-> l, executable |-> executable, class |-> class]
           IN  SameLaunch(Effective(SlotUpdate(slot, row)), Effective(slot))
<1> DEFINE slot == [launch |-> l, executable |-> executable, class |-> class]
<1>1. PICK line \in Seq(Item) : /\ line = CommandLine(l) /\ line # <<>>
                               /\ Runs(line) = Runs(l.command) \o Words(l.args)
    BY ShownRuns
<1>2. PICK args \in Seq(Word) : args = l.args
    BY DEF Launch
<1>3. PICK new \in Seq(Word) : new = ProfileArgs(args, row.profile)
    BY <1>2, ProfileStays
<1>4. PICK saved : saved = [command |-> line, args |-> new, workdir |-> l.workdir]
    OBVIOUS
<1>6. saved \in Launch
    BY <1>1, <1>3, <1>4 DEF Launch
<1>7. PICK ran \in Seq(Word) : ran = Runs(l.command)
    BY ShellRuns
<1>8. ShellCommand(saved) = [cd |-> l.workdir, argv |-> (ran \o Words(args)) \o new]
    <2>1. ShellCommand(saved) = [cd |-> saved.workdir, argv |-> Runs(saved.command) \o saved.args]
        BY <1>6, ShellRuns
    <2>2. saved.workdir = l.workdir /\ saved.command = line /\ saved.args = new
        BY <1>4
    <2> QED BY <1>1, <1>2, <1>7, <2>1, <2>2
<1>9. ShellCommand(l) = [cd |-> l.workdir, argv |-> ran \o args]
    BY <1>2, <1>7, ShellRuns
<1>10. saved # None /\ l # None
    BY <1>6, NoneAssumption
<1>5. SlotUpdate(slot, row) = [launch |-> saved, executable |-> executable, class |-> class]
    <2>1. slot.launch = l
        OBVIOUS
    <2>2. SlotUpdate(slot, row) = [slot EXCEPT !.launch = saved]
        BY <1>1, <1>2, <1>3, <1>4, <1>10, <2>1 DEF SlotUpdate
    <2> QED BY <2>2
<1>11. Effective(slot) = ShellCommand(l)
    BY <1>10 DEF Effective
<1>12. Effective(SlotUpdate(slot, row)) = ShellCommand(saved)
    BY <1>5, <1>10 DEF Effective
<1>13. /\ Words(new) = <<>> /\ (Given(args) = <<>> => Given(new) = <<>>)
       /\ (Given(args) # <<>> => Given(new) # <<>> /\ Given(new)[1] = Given(args)[1])
    BY <1>2, <1>3, ProfileStays
<1>14. SameLaunch(ShellCommand(saved), ShellCommand(l))
    BY <1>8, <1>9, <1>13, ProfileMoved
<1> QED BY <1>11, <1>12, <1>14

\* Saving what is shown is harmless for every slot.
THEOREM ShownIsHarmless ==
    ASSUME NEW slot, Slot(slot)
    PROVE  SavedAsShown(slot)
<1> SUFFICES ASSUME slot.launch # None, slot.launch.command # <<>>
             PROVE  SameLaunch(Effective(SlotUpdate(slot, Shown(slot))), Effective(slot))
    BY DEF SavedAsShown
<1>1. PICK l \in Launch : l = slot.launch
    BY DEF Slot
<1>2. PICK e : e = slot.executable
    OBVIOUS
<1>3. PICK c : c = slot.class
    OBVIOUS
<1>4. slot = [launch |-> l, executable |-> e, class |-> c]
    BY <1>1, <1>2, <1>3 DEF Slot
<1>5. PICK row : row = Shown(slot)
    OBVIOUS
<1>6. /\ row.command = CommandLine(l) /\ row.workdir = l.workdir
      /\ row.profile = Absent \/ row.profile = ProfileArg(l.args)
    BY <1>1, <1>5 DEF Shown
<1>7. l.command # <<>>
    BY <1>1
<1>8. SameLaunch(Effective(SlotUpdate([launch |-> l, executable |-> e, class |-> c], row)),
                 Effective([launch |-> l, executable |-> e, class |-> c]))
    BY <1>6, <1>7, SavedSame
<1> QED BY <1>4, <1>5, <1>8

-----------------------------------------------------------------------------
(* Captured processes. *)

LEMMA HeadTail ==
    ASSUME NEW X, NEW v \in Seq(X), v # <<>>
    PROVE  Tail(v) \in Seq(X) /\ v = <<v[1]>> \o Tail(v)
<1>1. PICK n \in Nat : n = Len(v) /\ DOMAIN v = 1 .. n
    OBVIOUS
<1>2. n # 0
    BY <1>1
<1>3. PICK m \in Nat : n = m + 1
    <2>1. n - 1 \in Nat /\ n = (n - 1) + 1
        BY <1>2
    <2> QED BY <2>1
<1>4. PICK t : t = Tail(v)
    OBVIOUS
<1>5. t \in Seq(X)
    BY <1>4
<1>6. Len(v) = m + 1
    BY <1>1, <1>3
<1>7. Len(t) = m
    BY <1>4, <1>6
<1>8. \A i \in 1 .. m : t[i] = v[1 + i]
    BY <1>4, <1>6
<1>9. PICK x \in X : x = v[1]
    <2>1. 1 \in 1 .. n
        BY <1>2
    <2> QED BY <1>1, <2>1
<1>10. PICK o : o = <<x>>
    OBVIOUS
<1>11. o \in Seq(X) /\ Len(o) = 1 /\ o[1] = x
    BY <1>10
<1>12. PICK k \in Nat : k = 1
    OBVIOUS
<1>13. \A i \in 1 .. k : v[i] = o[i]
    BY <1>9, <1>11, <1>12
<1>14. \A i \in 1 .. m : v[k + i] = t[i]
    BY <1>8, <1>12
<1>15. Len(v) = k + m /\ Len(o) = k
    BY <1>1, <1>3, <1>11, <1>12
<1>16. o \o t = v
    BY <1>5, <1>7, <1>11, <1>13, <1>14, <1>15, IsJoin
<1> QED BY <1>4, <1>5, <1>9, <1>10, <1>16

\* Several arguments, none of them empty, are what they are.
LEMMA SplitWhole ==
    ASSUME NEW a \in Seq(Word), Len(a) > 1, <<>> \notin ToSet(a)
    PROVE  SplitCmdline(a) = a
<1>1. \A i \in DOMAIN a : a[i] \in Word \ {<<>>}
    BY DEF ToSet
<1>2. Only(a, Word \ {<<>>}) = a
    BY <1>1, OnlyAll
<1>3. PICK n \in Nat : n = Len(a)
    OBVIOUS
<1>4. n > 1
    BY <1>3
<1>5. a # <<>>
    BY <1>3, <1>4
<1>6. n # 1
    BY <1>4
<1> QED BY <1>2, <1>3, <1>5, <1>6 DEF SplitCmdline

\* The arguments of a process that can be read.
LEMMA ArgvType ==
    ASSUME NEW facts, Process(facts), ReadCmdline(facts) # None \/ facts.executable # None
    PROVE  /\ ArgvOf(facts) \in Seq(Word) /\ ArgvOf(facts) # <<>> /\ Program(ArgvOf(facts)[1])
           /\ Tail(ArgvOf(facts)) \in Seq(Word)
           /\ ArgvOf(facts) = <<ArgvOf(facts)[1]>> \o Tail(ArgvOf(facts))
<1>1. PICK v : v = ArgvOf(facts) /\ Program(v[1])
    BY DEF Process
<1>2. v \in Seq(Word) /\ v # <<>>
    <2>1. CASE ReadCmdline(facts) = None
        <3>1. v = <<facts.executable>>
            BY <1>1, <2>1 DEF ArgvOf
        <3>2. PICK x : x = facts.executable /\ v = <<x>>
            BY <3>1
        <3>3. v[1] = x
            BY <3>2
        <3>4. x \in Word
            BY <1>1, <3>3 DEF Program
        <3> QED BY <3>2, <3>4
    <2>2. CASE ReadCmdline(facts) # None
        <3>1. PICK a \in Seq(Word) : a = facts.argv
            BY <2>2 DEF Process, ReadCmdline
        <3>2. v = SplitCmdline(a) /\ v # None
            BY <1>1, <2>2, <3>1 DEF ArgvOf, ReadCmdline
        <3>3. PICK f \in Seq(Word) : f = Only(a, Word \ {<<>>})
            BY OnlyType
        <3>4. f # <<>>
            BY <3>2, <3>3 DEF SplitCmdline
        <3>5. CASE Len(f) = 1 /\ Len(f[1]) > 1
            <4>1. f[1] \in Word
                <5>1. PICK k \in Nat : k = Len(f) /\ \A i \in 1 .. k : f[i] \in Word
                    OBVIOUS
                <5>2. 1 \in 1 .. k
                    BY <3>5, <5>1
                <5> QED BY <5>1, <5>2
            <4>2. PICK w \in Seq(Piece) : w = f[1]
                BY <4>1 DEF Word
            <4>3. PICK n \in Nat : n = Len(w) /\ DOMAIN w = 1 .. n
                OBVIOUS
            <4>4. v = [i \in DOMAIN w |-> <<w[i]>>]
                BY <3>2, <3>3, <3>4, <3>5, <4>2 DEF SplitCmdline
            <4>5. \A i \in 1 .. n : w[i] \in Piece
                BY <4>3
            <4>6. \A i \in 1 .. n : <<w[i]>> \in Word
                BY <4>5 DEF Word
            <4>7. v \in [1 .. n -> Word]
                BY <4>3, <4>4, <4>6
            <4>8. v \in Seq(Word) /\ Len(v) = n
                BY <4>7
            <4>9. n > 1
                BY <3>5, <4>2, <4>3
            <4> QED BY <4>8, <4>9
        <3>6. CASE ~ (Len(f) = 1 /\ Len(f[1]) > 1)
            <4>1. v = f
                BY <3>2, <3>3, <3>4, <3>6 DEF SplitCmdline
            <4> QED BY <3>4, <4>1
        <3> QED BY <3>5, <3>6
    <2> QED BY <2>1, <2>2
<1>3. PICK t \in Seq(Word) : t = Tail(v) /\ v = <<v[1]>> \o t
    BY <1>2, HeadTail
<1> QED BY <1>1, <1>2, <1>3

\* The profile of a window has a name.
LEMMA WindowProfileType ==
    ASSUME NEW facts, Process(facts), NEW args \in Seq(Word)
    PROVE  WindowProfile(args, facts.disk) \in Names \cup {None}
<1>1. OnDisk(facts.disk) \in Names \cup {None}
    <2>1. PICK a \in Seq(Names) : a = facts.disk.active
        BY DEF Process
    <2>2. ASSUME Len(a) = 1 PROVE a[1] \in Names
        <3>1. PICK n \in Nat : n = Len(a)
            OBVIOUS
        <3>2. \A i \in 1 .. n : a[i] \in Names
            BY <3>1
        <3>3. 1 \in 1 .. n
            BY <2>2, <3>1
        <3> QED BY <3>2, <3>3
    <2> QED BY <2>1, <2>2 DEF Process, OnDisk
<1>2. ProfileArg(args) # None => ProfileArg(args) \in Names
    <2>1. PICK g \in Seq(Word) : g = Given(args) /\ \A i \in DOMAIN g : NamesProfile(g[i])
        BY WordsFacts
    <2>2. SUFFICES ASSUME g # <<>> PROVE ProfileOf(g[1]) \in Names
        BY <2>1 DEF ProfileArg
    <2>3. PICK n \in Nat : n = Len(g) /\ DOMAIN g = 1 .. n
        OBVIOUS
    <2>4. 1 \in DOMAIN g
        BY <2>2, <2>3
    <2>5. PICK word \in Word : word = g[1] /\ NamesProfile(word)
        BY <2>1, <2>4
    <2>6. PICK name \in Word : /\ name = ProfileOf(word) /\ Len(name) = Len(word)
                              /\ name[1] \in DOMAIN FlagOf
        BY <2>5, ProfileRound
    <2>7. name # <<>>
        <3>1. word \in Seq(Piece) /\ name \in Seq(Piece) /\ word # <<>>
            BY <2>5, <2>6 DEF Word, NamesProfile
        <3>2. PICK l \in Nat : l = Len(word)
            BY <3>1
        <3>3. Len(name) = l /\ l # 0
            BY <2>6, <3>1, <3>2
        <3> QED BY <3>1, <3>3
    <2> QED BY <2>5, <2>6, <2>7 DEF Names
<1> QED BY <1>1, <1>2 DEF WindowProfile

\* The argument of a profile with a name.
LEMMA ProfileType ==
    ASSUME NEW name \in Names
    PROVE  Profile(name) \in Profiles
<1>1. PICK n \in Seq(Piece) : n = name
    BY DEF Names, Word
<1>2. PICK l \in Nat : l = Len(n) /\ DOMAIN n = 1 .. l
    OBVIOUS
<1>3. l # 0 /\ n[1] \in DOMAIN FlagOf
    BY <1>1, <1>2 DEF Names
<1>4. 1 \in 1 .. l
    BY <1>3
<1>5. PICK p : p = FlagOf[n[1]] /\ p \in Piece /\ p \in Flags
    BY <1>3, FlagAssumption DEF Flags
<1>6. PICK w : w = [n EXCEPT ![1] = p]
    OBVIOUS
<1>7. w \in Seq(Piece) /\ Len(w) = l /\ w[1] = p
    BY <1>2, <1>4, <1>5, <1>6
<1>8. Profile(name) = w
    BY <1>1, <1>2, <1>4, <1>5, <1>6 DEF Profile
<1>9. w # <<>>
    BY <1>3, <1>7
<1> QED BY <1>5, <1>7, <1>8, <1>9 DEF Profiles, IsProfile, NamesProfile, Word

\* The arguments that a captured launch gives its program.
LaunchArgs(facts) ==
    LET args == Tail(ArgvOf(facts))
        profile == WindowProfile(args, facts.disk)
        named == IF \E i \in DOMAIN args : IsProfile(args[i]) THEN args
                 ELSE Append(args, Profile(profile))
    IN  IF facts.class # "browser" \/ profile = None THEN args ELSE WithTabs(named, facts.tabs)

\* What RunsAgain adds to the words of a process.
Opened(facts) ==
    IF facts.class = "browser" /\ WindowProfile(Tail(ArgvOf(facts)), facts.disk) # None
          /\ facts.tabs # <<>>
    THEN <<<<"--new-window">>>> \o facts.tabs ELSE <<>>

LEMMA WordsOfPlain ==
    ASSUME NEW s \in Seq(Word), \A i \in DOMAIN s : s[i] \notin Profiles
    PROVE  Words(s) = s
<1>1. \A i \in DOMAIN s : s[i] \in Word \ Profiles
    OBVIOUS
<1> QED BY <1>1, OnlyAll DEF Words

LEMMA WordsOfProfile ==
    ASSUME NEW word \in Profiles
    PROVE  <<word>> \in Seq(Word) /\ Words(<<word>>) = <<>>
<1>1. PICK o : o = <<word>>
    OBVIOUS
<1>2. o \in Seq(Word)
    BY <1>1 DEF Profiles
<1>3. DOMAIN o = 1 .. 1 /\ o[1] = word /\ \A i \in 1 .. 1 : i = 1
    BY <1>1
<1>4. \A i \in DOMAIN o : o[i] \notin Word \ Profiles
    BY <1>3
<1> QED BY <1>1, <1>2, <1>4, OnlyNone DEF Words

\* A list of some of the words is a list of words.
LEMMA NoOthers ==
    ASSUME NEW tabs \in Seq(Word \ Profiles)
    PROVE  tabs \in Seq(Word)
<1>1. PICK n \in Nat : n = Len(tabs) /\ DOMAIN tabs = 1 .. n
    OBVIOUS
<1>2. tabs = [i \in 1 .. n |-> tabs[i]] /\ \A i \in 1 .. n : tabs[i] \in Word
    BY <1>1
<1>3. tabs \in [1 .. n -> Word]
    BY <1>2
<1> QED BY <1>3

\* The tabs are words of their own.
LEMMA TabWords ==
    ASSUME NEW tabs \in Seq(Word \ Profiles)
    PROVE  LET opened == <<<<"--new-window">>>> \o tabs
           IN  opened \in Seq(Word) /\ Words(opened) = opened
<1>1. PICK flag : flag = <<"--new-window">>
    OBVIOUS
<1>2. flag \in Word
    BY <1>1, PieceAssumption DEF Word
<1>3. flag \notin Profiles
    <2>1. flag # <<"--profile-directory">> /\ flag[1] = "--new-window"
        BY <1>1
    <2>2. "--new-window" \notin Flags
        BY FlagAssumption DEF Flags
    <2> QED BY <2>1, <2>2 DEF Profiles, IsProfile, NamesProfile
<1>4. PICK W : W = Word \ Profiles
    OBVIOUS
<1>5. flag \in W /\ tabs \in Seq(W)
    BY <1>2, <1>3, <1>4
<1>6. PICK o : o = <<flag>>
    OBVIOUS
<1>7. o \in Seq(W)
    BY <1>5, <1>6
<1>8. PICK u \in Seq(W) : u = o \o tabs
    BY <1>5, <1>7, ConcatFacts
<1>9. \A i \in DOMAIN u : u[i] \in W
    OBVIOUS
<1>10. u \in Seq(Word)
    <2>1. PICK n \in Nat : n = Len(u) /\ DOMAIN u = 1 .. n
        OBVIOUS
    <2>2. u = [i \in 1 .. n |-> u[i]] /\ \A i \in 1 .. n : u[i] \in Word
        BY <1>4, <1>9, <2>1
    <2>3. u \in [1 .. n -> Word]
        BY <2>2
    <2> QED BY <2>3
<1>11. \A i \in DOMAIN u : u[i] \notin Profiles
    BY <1>4, <1>9
<1>12. Words(u) = u
    BY <1>10, <1>11, WordsOfPlain
<1> QED BY <1>1, <1>6, <1>8, <1>10, <1>12

\* The words of a captured launch's arguments, and the profile that they name.
LEMMA LaunchArgsFacts ==
    ASSUME NEW facts, Process(facts), ReadCmdline(facts) # None \/ facts.executable # None
    PROVE  /\ LaunchArgs(facts) \in Seq(Word) /\ Opened(facts) \in Seq(Word)
           /\ Words(LaunchArgs(facts)) = Words(Tail(ArgvOf(facts))) \o Opened(facts)
           /\ Given(Tail(ArgvOf(facts))) # <<>> =>
                 /\ Given(LaunchArgs(facts)) # <<>>
                 /\ Given(LaunchArgs(facts))[1] = Given(Tail(ArgvOf(facts)))[1]
<1>1. PICK args \in Seq(Word) : args = Tail(ArgvOf(facts))
    BY ArgvType
<1>2. PICK profile \in Names \cup {None} : profile = WindowProfile(args, facts.disk)
    BY WindowProfileType
<1>3. PICK w \in Seq(Word) : w = Words(args)
    BY WordsFacts
<1>4. PICK g \in Seq(Word) : g = Given(args)
    BY WordsFacts
<1>5. CASE facts.class # "browser" \/ profile = None
    <2>1. LaunchArgs(facts) = args /\ Opened(facts) = <<>>
        BY <1>1, <1>2, <1>5 DEF LaunchArgs, Opened
    <2>2. w \o <<>> = w /\ <<>> \in Seq(Word)
        BY NoConcat
    <2> QED BY <1>1, <1>3, <2>1, <2>2
<1>6. CASE facts.class = "browser" /\ profile # None
    <2>1. PICK named : named = IF \E i \in DOMAIN args : IsProfile(args[i]) THEN args
                               ELSE Append(args, Profile(profile))
        OBVIOUS
    <2>2. LaunchArgs(facts) = WithTabs(named, facts.tabs)
        BY <1>1, <1>2, <1>6, <2>1 DEF LaunchArgs
    <2>3. /\ named \in Seq(Word) /\ Words(named) = w
          /\ g # <<>> => Given(named) # <<>> /\ Given(named)[1] = g[1]
        <3>1. CASE \E i \in DOMAIN args : IsProfile(args[i])
            <4>1. named = args
                BY <2>1, <3>1
            <4> QED BY <1>3, <1>4, <4>1
        <3>2. CASE ~ \E i \in DOMAIN args : IsProfile(args[i])
            <4>1. PICK p \in Profiles : p = Profile(profile)
                BY <1>6, ProfileType
            <4>2. named = Append(args, p)
                BY <2>1, <3>2, <4>1
            <4>3. PICK o \in Seq(Word) : o = <<p>> /\ Words(o) = <<>>
                BY WordsOfProfile
            <4>4. named = args \o o
                BY <4>2, <4>3
            <4>5. named \in Seq(Word)
                BY <4>4, ConcatFacts
            <4>6. Words(args \o o) = Words(args) \o Words(o)
                BY WordsConcat
            <4>7. Words(named) = w
                BY <1>3, <4>3, <4>4, <4>6, NoConcat
            <4>8. \A i \in DOMAIN args : args[i] \notin {word \in Word : NamesProfile(word)}
                BY <3>2 DEF IsProfile
            <4>9. g = <<>>
                BY <1>4, <4>8, OnlyNone DEF Given
            <4> QED BY <4>5, <4>7, <4>9
        <3> QED BY <3>1, <3>2
    <2>4. CASE facts.tabs = <<>>
        <3>1. LaunchArgs(facts) = named /\ Opened(facts) = <<>>
            BY <2>2, <2>4 DEF WithTabs, Opened
        <3>2. w \o <<>> = w /\ <<>> \in Seq(Word)
            BY NoConcat
        <3> QED BY <1>1, <1>3, <1>4, <2>3, <3>1, <3>2
    <2>5. CASE facts.tabs # <<>>
        <3>1. PICK tabs \in Seq(Word \ Profiles) : tabs = facts.tabs
            BY DEF Process
        <3>2. PICK u \in Seq(Word) : u = <<<<"--new-window">>>> \o tabs /\ Words(u) = u
            BY TabWords
        <3>3. Opened(facts) = u
            BY <1>1, <1>2, <1>6, <2>5, <3>1, <3>2 DEF Opened
        <3>4. LaunchArgs(facts) = (named \o <<<<"--new-window">>>>) \o tabs
            BY <2>2, <2>5, <3>1 DEF WithTabs
        <3>6. PICK n \in Seq(Word) : n = named
            BY <2>3
        <3>5. LaunchArgs(facts) = n \o u
            <4>1. PICK o : o = <<<<"--new-window">>>>
                OBVIOUS
            <4>2. o \in Seq(Word)
                <5>1. PICK flag : flag = <<"--new-window">>
                    OBVIOUS
                <5>2. flag \in Word
                    BY <5>1, PieceAssumption DEF Word
                <5> QED BY <4>1, <5>1, <5>2
            <4>3. tabs \in Seq(Word)
                BY NoOthers
            <4>4. PICK x \in Seq(Word) : x = o
                BY <4>2
            <4>5. PICK y \in Seq(Word) : y = tabs
                BY <4>3
            <4>6. (n \o x) \o y = n \o (x \o y)
                <5>1. Regroups(n, x, y)
                    BY Regroup
                <5> QED BY <5>1 DEF Regroups
            <4>7. LaunchArgs(facts) = (n \o x) \o y
                BY <3>4, <3>6, <4>1, <4>4, <4>5
            <4>8. u = x \o y
                BY <3>2, <4>1, <4>4, <4>5
            <4> QED BY <4>6, <4>7, <4>8
        <3>7. PICK v \in Seq(Word) : v = n \o u
            BY ConcatFacts
        <3>8. Words(n \o u) = Words(n) \o Words(u) /\ Given(n \o u) = Given(n) \o Given(u)
            BY WordsConcat
        <3>9. Words(v) = w \o u
            BY <2>3, <3>2, <3>6, <3>7, <3>8
        <3>10. PICK x \in Seq(Word) : x = Given(n)
            BY WordsFacts
        <3>11. PICK y \in Seq(Word) : y = Given(u)
            BY WordsFacts
        <3>12. PICK z : z = Given(v)
            OBVIOUS
        <3>13. IsCat(z, x, y)
            BY <3>7, <3>8, <3>10, <3>11, <3>12 DEF IsCat
        <3>14. x # <<>> => z # <<>> /\ z[1] = x[1]
            BY <3>13, Heads
        <3>15. g # <<>> => z # <<>> /\ z[1] = g[1]
            BY <2>3, <3>6, <3>10, <3>14
        <3> QED BY <1>1, <1>3, <1>4, <3>2, <3>3, <3>5, <3>6, <3>7, <3>9, <3>12, <3>15
    <2> QED BY <2>4, <2>5
<1> QED BY <1>2, <1>5, <1>6

\* A program runs as one word.
LEMMA OneWordRuns ==
    ASSUME NEW word, Program(word)
    PROVE  /\ <<OneWord(word)>> \in Seq(Item) /\ <<OneWord(word)>> # <<>>
           /\ Runs(<<OneWord(word)>>) = <<word>>
<1>1. word \in Word /\ word # <<>> /\ (Len(word) = 1 => word[1] \notin Special)
    BY DEF Program
<1>2. PICK n \in Nat : n = Len(word) /\ n # 0
    BY <1>1 DEF Word
<1>3. PICK item : item = OneWord(word)
    OBVIOUS
<1>4. item \in Item /\ RunsItem(item) = <<word>>
    <2>1. CASE n > 1
        <3>1. item = [word |-> word, quoted |-> TRUE]
            BY <1>2, <1>3, <2>1 DEF OneWord, Quoted
        <3> QED BY <1>1, <3>1 DEF Item, RunsItem
    <2>2. CASE ~ (n > 1)
        <3>1. n = 1
            BY <1>2, <2>2
        <3>2. item = Raw(word) /\ PanelQuote(word) = Raw(word)
            BY <1>1, <1>2, <1>3, <3>1 DEF OneWord, PanelQuote
        <3> QED BY <1>1, <3>2, PanelQuoted
    <2> QED BY <2>1, <2>2
<1>5. PICK line : line = <<item>>
    OBVIOUS
<1>6. line \in Seq(Item) /\ Len(line) = 1 /\ line[1] = item /\ line # <<>>
    BY <1>4, <1>5
<1>7. PICK ws : ws = <<word>>
    OBVIOUS
<1>8. ws \in Seq(Word) /\ Len(ws) = 1 /\ ws[1] = word
    BY <1>1, <1>7
<1>9. \A i \in 1 .. Len(ws) : RunsItem(line[i]) = <<ws[i]>>
    <2>1. \A i \in 1 .. Len(ws) : i = 1
        BY <1>8
    <2> QED BY <1>4, <1>6, <1>8, <2>1
<1>10. Runs(line) = ws
    BY <1>6, <1>8, <1>9, RunsEach
<1> QED BY <1>3, <1>5, <1>6, <1>7, <1>10

LEMMA CapturedType ==
    ASSUME NEW facts, Process(facts), ReadCmdline(facts) # None \/ facts.executable # None
    PROVE  /\ CapturedLaunch(facts) \in Launch
           /\ CapturedLaunch(facts).command = <<OneWord(ArgvOf(facts)[1])>>
           /\ CapturedLaunch(facts).args = LaunchArgs(facts)
<1>1. PICK line \in Seq(Item) : line = <<OneWord(ArgvOf(facts)[1])>>
    BY ArgvType, OneWordRuns
<1>2. PICK args \in Seq(Word) : args = LaunchArgs(facts)
    BY LaunchArgsFacts
<1>3. CapturedLaunch(facts) = [command |-> line, args |-> args, workdir |-> facts.cwd]
    BY <1>1, <1>2 DEF CapturedLaunch, LaunchArgs
<1>4. facts.cwd \in Dirs \cup {None}
    BY DEF Process
<1> QED BY <1>1, <1>2, <1>3, <1>4 DEF Launch

\* A captured process runs again.
THEOREM CapturedRunsAgain ==
    ASSUME NEW facts, Process(facts)
    PROVE  RunsAgain(facts)
<1>1. PICK slot : slot = Captured(facts)
    OBVIOUS
<1>2. CASE slot.launch = None
    BY <1>1, <1>2 DEF RunsAgain
<1>3. CASE slot.launch # None
    <2>1. slot = [launch |-> CapturedLaunch(facts), executable |-> facts.executable, class |-> facts.class]
        BY <1>1 DEF Captured
    <2>2. ReadCmdline(facts) # None \/ facts.executable # None
        BY <1>3, <2>1 DEF CapturedLaunch
    <2>3. PICK l \in Launch : l = CapturedLaunch(facts)
        BY <2>2, CapturedType
    <2>4. PICK argv \in Seq(Word) : argv = ArgvOf(facts)
        BY <2>2, ArgvType
    <2>5. PICK head : head = argv[1] /\ Program(head)
        BY <2>2, <2>4, ArgvType
    <2>6. PICK rest \in Seq(Word) : rest = Tail(argv)
        BY <2>2, <2>4, ArgvType
    <2>7. PICK new \in Seq(Word) : new = LaunchArgs(facts)
        BY <2>2, LaunchArgsFacts
    <2>8. PICK extra \in Seq(Word) : extra = Opened(facts)
        BY <2>2, LaunchArgsFacts
    <2>9. PICK one \in Seq(Word) : one = <<head>>
        <3>1. head \in Word
            BY <2>5 DEF Program
        <3>2. <<head>> \in Seq(Word)
            BY <3>1
        <3> QED BY <3>2
    <2>10. argv = one \o rest
        BY <2>2, <2>4, <2>5, <2>6, <2>9, ArgvType
    <2>11. PICK run : run = Effective(slot) /\ run = ShellCommand(l)
        <3>1. Effective(slot) = ShellCommand(l)
            BY <1>3, <2>1, <2>3 DEF Effective
        <3> QED BY <3>1
    <2>12. l.command = <<OneWord(head)>> /\ l.args = new
        BY <2>2, <2>3, <2>4, <2>5, <2>7, CapturedType
    <2>13. Runs(l.command) = one /\ l.command # <<>>
        BY <2>5, <2>9, <2>12, OneWordRuns
    <2>14. run.argv = one \o new
        <3>1. ShellCommand(l) = [cd |-> l.workdir, argv |-> Runs(l.command) \o l.args]
            BY ShellRuns
        <3> QED BY <2>11, <2>12, <2>13, <3>1
    <2>15. Words(one \o new) = Words(one) \o Words(new)
               /\ Given(one \o new) = Given(one) \o Given(new)
        BY WordsConcat
    <2>16. Words(one \o rest) = Words(one) \o Words(rest)
               /\ Given(one \o rest) = Given(one) \o Given(rest)
        BY WordsConcat
    <2>17. Words(new) = Words(rest) \o extra
        BY <2>2, <2>4, <2>6, <2>7, <2>8, LaunchArgsFacts
    <2>18. Words(run.argv) = Words(argv) \o extra
        <3>1. PICK x \in Seq(Word) : x = Words(one)
            BY WordsFacts
        <3>2. PICK y \in Seq(Word) : y = Words(rest)
            BY WordsFacts
        <3>3. (x \o y) \o extra = x \o (y \o extra)
            <4>1. Regroups(x, y, extra)
                BY Regroup
            <4> QED BY <4>1 DEF Regroups
        <3>4. Words(run.argv) = x \o (y \o extra)
            BY <2>14, <2>15, <2>17, <3>1, <3>2
        <3>5. Words(argv) = x \o y
            BY <2>10, <2>16, <3>1, <3>2
        <3> QED BY <3>3, <3>4, <3>5
    <2>19. ProfileArg(argv) # None => ProfileArg(run.argv) = ProfileArg(argv)
        <3>1. PICK g \in Seq(Word) : g = Given(one)
            BY WordsFacts
        <3>2. PICK x \in Seq(Word) : x = Given(rest)
            BY WordsFacts
        <3>3. PICK y \in Seq(Word) : y = Given(new)
            BY WordsFacts
        <3>4. PICK gx : gx = Given(argv) /\ IsCat(gx, g, x)
            BY <2>10, <2>16, <3>1, <3>2 DEF IsCat
        <3>5. PICK gy : gy = Given(run.argv) /\ IsCat(gy, g, y)
            BY <2>14, <2>15, <3>1, <3>3 DEF IsCat
        <3>6. x # <<>> => y # <<>> /\ y[1] = x[1]
            BY <2>2, <2>4, <2>6, <2>7, <3>2, <3>3, LaunchArgsFacts
        <3>7. /\ gx = <<>> <=> (g = <<>> /\ x = <<>>)
              /\ g = <<>> => gx = x
              /\ g # <<>> => gx[1] = g[1]
            BY <3>4, Heads
        <3>8. /\ gy = <<>> <=> (g = <<>> /\ y = <<>>)
              /\ g = <<>> => gy = y
              /\ g # <<>> => gy[1] = g[1]
            BY <3>5, Heads
        <3>9. gx # <<>> => gy # <<>> /\ gy[1] = gx[1]
            BY <3>6, <3>7, <3>8
        <3>10. ProfileArg(argv) = IF gx = <<>> THEN None ELSE ProfileOf(gx[1])
            BY <3>4 DEF ProfileArg
        <3>11. ProfileArg(run.argv) = IF gy = <<>> THEN None ELSE ProfileOf(gy[1])
            BY <3>5 DEF ProfileArg
        <3> QED BY <3>9, <3>10, <3>11
    <2>20. SameLaunch(Effective(SlotUpdate(slot, Detected(Shown(slot), slot.launch))), Effective(slot))
        <3>1. PICK row : row = Detected(Shown(slot), slot.launch)
            OBVIOUS
        <3>2. slot.launch = l
            BY <2>1, <2>3
        <3>3. PICK shown : shown = Shown(slot)
            OBVIOUS
        <3>4. /\ shown.workdir = l.workdir
              /\ shown.profile = Absent \/ shown.profile = ProfileArg(l.args)
            BY <1>3, <3>2, <3>3 DEF Shown
        <3>5. /\ row.command = CommandLine(l) /\ row.workdir = l.workdir
              /\ row.profile = Absent \/ row.profile = ProfileArg(l.args)
            BY <3>1, <3>2, <3>3, <3>4 DEF Detected
        <3>6. PICK e : e = facts.executable
            OBVIOUS
        <3>7. PICK c : c = facts.class
            OBVIOUS
        <3>8. slot = [launch |-> l, executable |-> e, class |-> c]
            BY <2>1, <2>3, <3>6, <3>7
        <3>9. SameLaunch(Effective(SlotUpdate([launch |-> l, executable |-> e, class |-> c], row)),
                         Effective([launch |-> l, executable |-> e, class |-> c]))
            BY <2>13, <3>5, SavedSame
        <3> QED BY <3>1, <3>8, <3>9
    <2>21. ASSUME facts.argv # None, Len(facts.argv) > 1, <<>> \notin ToSet(facts.argv)
           PROVE  argv = facts.argv
        <3>1. PICK a \in Seq(Word) : a = facts.argv
            BY <2>21 DEF Process
        <3>2. SplitCmdline(a) = a
            BY <2>21, <3>1, SplitWhole
        <3>3. ReadCmdline(facts) = a /\ a # None
            BY <2>21, <3>1, <3>2, NoneAssumption DEF ReadCmdline
        <3> QED BY <2>4, <3>1, <3>3 DEF ArgvOf
    <2> QED BY <1>1, <2>4, <2>6, <2>8, <2>11, <2>18, <2>19, <2>20, <2>21 DEF RunsAgain, Opened
<1> QED BY <1>2, <1>3

-----------------------------------------------------------------------------
(* What a behaviour is asked never changes. *)

Asked ==
    \/ question = [about |-> "browser"]
    \/ \E file \in RuleFiles : question = [about |-> "rules", file |-> file]
    \/ \E ps \in ProjectLists : question = [about |-> "query", ps |-> ps]
    \/ \E facts \in Processes : question = [about |-> "process", facts |-> facts]
    \/ \E slot \in Slots : question = [about |-> "slot", slot |-> slot]

LEMMA AskedAlways == Spec => []Asked
<1>1. Init => Asked
    BY DEF Init, Asked
<1>2. Asked /\ [Next]_vars => Asked'
    <2> SUFFICES ASSUME Asked, [Next]_vars PROVE Asked'
        OBVIOUS
    <2>1. question' = question
        BY DEF Next, vars
    <2> QED BY <2>1 DEF Asked
<1> QED BY <1>1, <1>2, PTL DEF Spec

\* Whatever the rule files, the windows and what was loaded: after a reload
\* the windows are assigned by the whole new file in its author's order, or by
\* what was loaded before.
THEOREM RulesAlwaysInOrder == Spec => []RulesInOrder
<1>1. Asked => RulesInOrder
    <2> SUFFICES ASSUME NEW file \in RuleFiles, NEW config \in Configs
                 PROVE  ReloadedWhole(Loaded, config, file, Facts)
        BY DEF Asked, RulesInOrder
    <2>1. file # Unset => RuleFile(file)
        BY RulesAssumption
    <2> QED BY <2>1, ReloadsWhole
<1> QED BY <1>1, AskedAlways, PTL

\* Whatever the projects and their scores: no query is guessed, and none
\* depends on the order in which the projects are kept.
THEOREM QueriesNeverGuess == Spec => []NeverGuesses
<1>1. Asked => NeverGuesses
    <2> SUFFICES ASSUME NEW ps \in ProjectLists
                 PROVE  NotGuessed(ps) /\ OrderFree(ps)
        BY DEF Asked, NeverGuesses
    <2>1. Projects(ps)
        BY QueriesAssumption
    <2> QED BY <2>1, GuessesNothing, OrderIsFree
<1> QED BY <1>1, AskedAlways, PTL

\* Whatever the process, its arguments, its profile and its tabs: what is
\* captured of it runs again, shown and saved as often as one likes.
THEOREM CapturesRunAgain == Spec => []CaptureRunsAgain
<1>1. Asked => CaptureRunsAgain
    <2> SUFFICES ASSUME NEW facts \in Processes
                 PROVE  RunsAgain(facts)
        BY DEF Asked, CaptureRunsAgain
    <2>1. Process(facts)
        BY ProcessesAssumption
    <2> QED BY <2>1, CapturedRunsAgain
<1> QED BY <1>1, AskedAlways, PTL

\* Whatever a slot's command line and arguments: saving them as they are shown
\* changes nothing of what they run.
THEOREM SavesAreHarmless == Spec => []UneditedSaveHarmless
<1>1. Asked => UneditedSaveHarmless
    <2> SUFFICES ASSUME NEW slot \in Slots
                 PROVE  SavedAsShown(slot)
        BY DEF Asked, UneditedSaveHarmless
    <2>1. Slot(slot)
        BY SlotsAssumption
    <2> QED BY <2>1, ShownIsHarmless
<1> QED BY <1>1, AskedAlways, PTL

-----------------------------------------------------------------------------
(* The browser's journal.  A class is the commands that a map of the replay *)
(* takes for one of its keys; what the map holds is the last of its class.  *)

Command ==
    {TabWindow(w, t) : w \in Wins, t \in Tabs} \cup {TabIndex(t, i) : t \in Tabs, i \in Nat}
    \cup {Navigation(t, i, page) : t \in Tabs, i \in Nat, page \in Pages}
    \cup {SelectedEntry(t, i) : t \in Tabs, i \in Nat}
    \cup {SelectedTab(w, i) : w \in Wins, i \in Nat}
    \cup {TabClosed(t) : t \in Tabs} \cup {WindowClosed(w) : w \in Wins}

Placing(t)    == {c \in Command : c.id = "SET_TAB_WINDOW" /\ c.tab = t}
PlacingIn(w)  == {c \in Command : c.id = "SET_TAB_WINDOW" /\ c.window = w}
Indexing(t)   == {c \in Command : c.id = "SET_TAB_INDEX_IN_WINDOW" /\ c.tab = t}
Recording(t)  == {c \in Command : c.id = "UPDATE_TAB_NAVIGATION" /\ c.tab = t}
RecordingAt(t, i) == {c \in Recording(t) : c.index = i}
Selecting(t)  == {c \in Command : c.id = "SET_SELECTED_NAVIGATION_INDEX" /\ c.tab = t}
Fronting(w)   == {c \in Command : c.id = "SET_SELECTED_TAB_IN_INDEX" /\ c.window = w}
ClosingTab(t) == {c \in Command : c.id = "TAB_CLOSED" /\ c.tab = t}
ClosingWindow(w) == {c \in Command : c.id = "WINDOW_CLOSED" /\ c.window = w}

\* Of the commands of a class, j's last is c; j has none of them.
Says(j, class, c) ==
    \E n \in DOMAIN j : j[n] = c /\ \A k \in DOMAIN j : j[k] \in class => k <= n
Silent(j, class) == \A n \in DOMAIN j : j[n] \notin class

\* Each open tab is at one place.
Distinct(tabs) == \A i, k \in DOMAIN tabs : tabs[i] = tabs[k] => i = k
Apart(s) == \A v, w \in Wins : \A t \in ToSet(s[v]) : t \in ToSet(s[w]) => v = w
OnePlace(s) == (\A w \in Wins : Distinct(s[w])) /\ Apart(s)

\* What was used stays so: a tab and a window are opened once.
NotYet ==
    /\ \A w \in Wins : strip[w] # <<>> => w \in used /\ ToSet(strip[w]) \subseteq used
    /\ \A t \in Tabs \ used : Silent(journal, Placing(t))
    /\ \A w \in Wins \ used : Silent(journal, PlacingIn(w)) /\ Silent(journal, ClosingWindow(w))
    /\ \A t \in Tabs \ used : Silent(journal, ClosingTab(t))

\* The replay has each open tab in its place, and on its page.
TabRead(w, i, t) ==
    /\ Says(journal, Placing(t), TabWindow(w, t))
    /\ Says(journal, Indexing(t), TabIndex(t, i))
    /\ Silent(journal, ClosingTab(t))
PageRead(t) ==
    /\ at[t] \in DOMAIN hist[t]
    /\ Says(journal, Selecting(t), SelectedEntry(t, at[t]))
    /\ \A k \in DOMAIN hist[t] : Says(journal, RecordingAt(t, k), Navigation(t, k, hist[t][k]))
TabsRead == \A w \in Wins : \A i \in DOMAIN strip[w] : TabRead(w, i, strip[w][i])
PagesRead == \A w \in Wins : \A i \in DOMAIN strip[w] : PageRead(strip[w][i])

\* And each open window, with its front tab.
WindowRead(w) ==
    /\ front[w] \in DOMAIN strip[w]
    /\ Says(journal, Fronting(w), SelectedTab(w, front[w]))
    /\ Silent(journal, ClosingWindow(w))
WindowsRead == \A w \in Wins : strip[w] # <<>> => WindowRead(w)

\* A window that is not open was never, or was closed after all else.
WindowsGone ==
    \A w \in Wins : strip[w] = <<>> =>
        \/ Silent(journal, PlacingIn(w))
        \/ Says(journal, PlacingIn(w) \cup ClosingWindow(w), WindowClosed(w))

\* A tab that is not open was never, was closed, or went with its window.
TabsGone ==
    \A t \in Tabs : ~IsOpen(t) =>
        \/ Silent(journal, Placing(t))
        \/ Says(journal, Placing(t) \cup ClosingTab(t), TabClosed(t))
        \/ \E w \in Wins : strip[w] = <<>> /\ Says(journal, Placing(t), TabWindow(w, t))

BrowserTyped ==
    /\ strip \in [Wins -> Seq(Tabs)] /\ hist \in [Tabs -> Seq(Pages)]
    /\ at \in [Tabs -> Nat] /\ front \in [Wins -> Nat]
    /\ journal \in Seq(Command)

Replayed ==
    /\ BrowserTyped /\ OnePlace(strip) /\ NotYet
    /\ TabsRead /\ PagesRead /\ WindowsRead /\ WindowsGone /\ TabsGone

\* Which classes a command belongs to.
LEMMA TabWindowKind ==
    ASSUME NEW w \in Wins, NEW t \in Tabs
    PROVE  /\ TabWindow(w, t) \in Command
           /\ \A s \in Tabs : TabWindow(w, t) \in Placing(s) <=> s = t
           /\ \A s \in Tabs : TabWindow(w, t) \notin Indexing(s)
           /\ \A s \in Tabs : TabWindow(w, t) \notin Recording(s)
           /\ \A s \in Tabs : TabWindow(w, t) \notin Selecting(s)
           /\ \A s \in Tabs : TabWindow(w, t) \notin ClosingTab(s)
           /\ \A s \in Tabs, k \in Nat : TabWindow(w, t) \notin RecordingAt(s, k)
           /\ \A v \in Wins : TabWindow(w, t) \in PlacingIn(v) <=> v = w
           /\ \A v \in Wins : TabWindow(w, t) \notin Fronting(v)
           /\ \A v \in Wins : TabWindow(w, t) \notin ClosingWindow(v)
<1>1. TabWindow(w, t) \in Command
    BY DEF Command
<1>2. TabWindow(w, t).id = "SET_TAB_WINDOW" /\ TabWindow(w, t).window = w /\ TabWindow(w, t).tab = t
    BY DEF TabWindow
<1> QED BY <1>1, <1>2 DEF Placing, PlacingIn, Indexing, Recording, RecordingAt, Selecting,
                          Fronting, ClosingTab, ClosingWindow

LEMMA TabIndexKind ==
    ASSUME NEW t \in Tabs, NEW i \in Nat
    PROVE  /\ TabIndex(t, i) \in Command
           /\ \A s \in Tabs : TabIndex(t, i) \notin Placing(s)
           /\ \A s \in Tabs : TabIndex(t, i) \in Indexing(s) <=> s = t
           /\ \A s \in Tabs : TabIndex(t, i) \notin Recording(s)
           /\ \A s \in Tabs : TabIndex(t, i) \notin Selecting(s)
           /\ \A s \in Tabs : TabIndex(t, i) \notin ClosingTab(s)
           /\ \A s \in Tabs, k \in Nat : TabIndex(t, i) \notin RecordingAt(s, k)
           /\ \A v \in Wins : TabIndex(t, i) \notin PlacingIn(v)
           /\ \A v \in Wins : TabIndex(t, i) \notin Fronting(v)
           /\ \A v \in Wins : TabIndex(t, i) \notin ClosingWindow(v)
<1>1. TabIndex(t, i) \in Command
    BY DEF Command
<1>2. TabIndex(t, i).id = "SET_TAB_INDEX_IN_WINDOW" /\ TabIndex(t, i).tab = t
          /\ TabIndex(t, i).index = i
    BY DEF TabIndex
<1> QED BY <1>1, <1>2 DEF Placing, PlacingIn, Indexing, Recording, RecordingAt, Selecting,
                          Fronting, ClosingTab, ClosingWindow

LEMMA NavigationKind ==
    ASSUME NEW t \in Tabs, NEW i \in Nat, NEW page \in Pages
    PROVE  /\ Navigation(t, i, page) \in Command
           /\ \A s \in Tabs : Navigation(t, i, page) \notin Placing(s)
           /\ \A s \in Tabs : Navigation(t, i, page) \notin Indexing(s)
           /\ \A s \in Tabs : Navigation(t, i, page) \in Recording(s) <=> s = t
           /\ \A s \in Tabs : Navigation(t, i, page) \notin Selecting(s)
           /\ \A s \in Tabs : Navigation(t, i, page) \notin ClosingTab(s)
           /\ \A s \in Tabs, k \in Nat : Navigation(t, i, page) \in RecordingAt(s, k)
                  <=> s = t /\ k = i
           /\ \A v \in Wins : Navigation(t, i, page) \notin PlacingIn(v)
           /\ \A v \in Wins : Navigation(t, i, page) \notin Fronting(v)
           /\ \A v \in Wins : Navigation(t, i, page) \notin ClosingWindow(v)
<1>1. Navigation(t, i, page) \in Command
    BY DEF Command
<1>2. Navigation(t, i, page).id = "UPDATE_TAB_NAVIGATION" /\ Navigation(t, i, page).tab = t
          /\ Navigation(t, i, page).index = i /\ Navigation(t, i, page).page = page
    BY DEF Navigation
<1> QED BY <1>1, <1>2 DEF Placing, PlacingIn, Indexing, Recording, RecordingAt, Selecting,
                          Fronting, ClosingTab, ClosingWindow

LEMMA SelectedEntryKind ==
    ASSUME NEW t \in Tabs, NEW i \in Nat
    PROVE  /\ SelectedEntry(t, i) \in Command
           /\ \A s \in Tabs : SelectedEntry(t, i) \notin Placing(s)
           /\ \A s \in Tabs : SelectedEntry(t, i) \notin Indexing(s)
           /\ \A s \in Tabs : SelectedEntry(t, i) \notin Recording(s)
           /\ \A s \in Tabs : SelectedEntry(t, i) \in Selecting(s) <=> s = t
           /\ \A s \in Tabs : SelectedEntry(t, i) \notin ClosingTab(s)
           /\ \A s \in Tabs, k \in Nat : SelectedEntry(t, i) \notin RecordingAt(s, k)
           /\ \A v \in Wins : SelectedEntry(t, i) \notin PlacingIn(v)
           /\ \A v \in Wins : SelectedEntry(t, i) \notin Fronting(v)
           /\ \A v \in Wins : SelectedEntry(t, i) \notin ClosingWindow(v)
<1>1. SelectedEntry(t, i) \in Command
    BY DEF Command
<1>2. SelectedEntry(t, i).id = "SET_SELECTED_NAVIGATION_INDEX"
          /\ SelectedEntry(t, i).tab = t /\ SelectedEntry(t, i).index = i
    BY DEF SelectedEntry
<1> QED BY <1>1, <1>2 DEF Placing, PlacingIn, Indexing, Recording, RecordingAt, Selecting,
                          Fronting, ClosingTab, ClosingWindow

LEMMA SelectedTabKind ==
    ASSUME NEW w \in Wins, NEW i \in Nat
    PROVE  /\ SelectedTab(w, i) \in Command
           /\ \A s \in Tabs : SelectedTab(w, i) \notin Placing(s)
           /\ \A s \in Tabs : SelectedTab(w, i) \notin Indexing(s)
           /\ \A s \in Tabs : SelectedTab(w, i) \notin Recording(s)
           /\ \A s \in Tabs : SelectedTab(w, i) \notin Selecting(s)
           /\ \A s \in Tabs : SelectedTab(w, i) \notin ClosingTab(s)
           /\ \A s \in Tabs, k \in Nat : SelectedTab(w, i) \notin RecordingAt(s, k)
           /\ \A v \in Wins : SelectedTab(w, i) \notin PlacingIn(v)
           /\ \A v \in Wins : SelectedTab(w, i) \in Fronting(v) <=> v = w
           /\ \A v \in Wins : SelectedTab(w, i) \notin ClosingWindow(v)
<1>1. SelectedTab(w, i) \in Command
    BY DEF Command
<1>2. SelectedTab(w, i).id = "SET_SELECTED_TAB_IN_INDEX" /\ SelectedTab(w, i).window = w
          /\ SelectedTab(w, i).index = i
    BY DEF SelectedTab
<1> QED BY <1>1, <1>2 DEF Placing, PlacingIn, Indexing, Recording, RecordingAt, Selecting,
                          Fronting, ClosingTab, ClosingWindow

LEMMA TabClosedKind ==
    ASSUME NEW t \in Tabs
    PROVE  /\ TabClosed(t) \in Command
           /\ \A s \in Tabs : TabClosed(t) \notin Placing(s)
           /\ \A s \in Tabs : TabClosed(t) \notin Indexing(s)
           /\ \A s \in Tabs : TabClosed(t) \notin Recording(s)
           /\ \A s \in Tabs : TabClosed(t) \notin Selecting(s)
           /\ \A s \in Tabs : TabClosed(t) \in ClosingTab(s) <=> s = t
           /\ \A s \in Tabs, k \in Nat : TabClosed(t) \notin RecordingAt(s, k)
           /\ \A v \in Wins : TabClosed(t) \notin PlacingIn(v)
           /\ \A v \in Wins : TabClosed(t) \notin Fronting(v)
           /\ \A v \in Wins : TabClosed(t) \notin ClosingWindow(v)
<1>1. TabClosed(t) \in Command
    BY DEF Command
<1>2. TabClosed(t).id = "TAB_CLOSED" /\ TabClosed(t).tab = t
    BY DEF TabClosed
<1> QED BY <1>1, <1>2 DEF Placing, PlacingIn, Indexing, Recording, RecordingAt, Selecting,
                          Fronting, ClosingTab, ClosingWindow

LEMMA WindowClosedKind ==
    ASSUME NEW w \in Wins
    PROVE  /\ WindowClosed(w) \in Command
           /\ \A s \in Tabs : WindowClosed(w) \notin Placing(s)
           /\ \A s \in Tabs : WindowClosed(w) \notin Indexing(s)
           /\ \A s \in Tabs : WindowClosed(w) \notin Recording(s)
           /\ \A s \in Tabs : WindowClosed(w) \notin Selecting(s)
           /\ \A s \in Tabs : WindowClosed(w) \notin ClosingTab(s)
           /\ \A s \in Tabs, k \in Nat : WindowClosed(w) \notin RecordingAt(s, k)
           /\ \A v \in Wins : WindowClosed(w) \notin PlacingIn(v)
           /\ \A v \in Wins : WindowClosed(w) \notin Fronting(v)
           /\ \A v \in Wins : WindowClosed(w) \in ClosingWindow(v) <=> v = w
<1>1. WindowClosed(w) \in Command
    BY DEF Command
<1>2. WindowClosed(w).id = "WINDOW_CLOSED" /\ WindowClosed(w).window = w
    BY DEF WindowClosed
<1> QED BY <1>1, <1>2 DEF Placing, PlacingIn, Indexing, Recording, RecordingAt, Selecting,
                          Fronting, ClosingTab, ClosingWindow

\* What an append leaves and adds.
LEMMA Appended ==
    ASSUME NEW j \in Seq(Command), NEW c \in Seq(Command)
    PROVE  /\ j \o c \in Seq(Command)
           /\ \A class, x : Says(c, class, x) => Says(j \o c, class, x)
           /\ \A class, x : Says(j, class, x) /\ Silent(c, class) => Says(j \o c, class, x)
           /\ \A class : Silent(j, class) /\ Silent(c, class) => Silent(j \o c, class)
<1>1. /\ j \o c \in Seq(Command)
      /\ DOMAIN j = 1 .. Len(j) /\ DOMAIN c = 1 .. Len(c)
      /\ DOMAIN (j \o c) = 1 .. (Len(j) + Len(c))
      /\ Len(j) \in Nat /\ Len(c) \in Nat
      /\ \A i \in 1 .. Len(j) : (j \o c)[i] = j[i]
      /\ \A i \in 1 .. Len(c) : (j \o c)[Len(j) + i] = c[i]
    BY ConcatFacts
<1> PICK both : both = j \o c
    OBVIOUS
<1> PICK m \in Nat, n \in Nat : m = Len(j) /\ n = Len(c)
    BY <1>1
<1>2. /\ DOMAIN j = 1 .. m /\ DOMAIN c = 1 .. n /\ DOMAIN both = 1 .. (m + n)
      /\ \A i \in 1 .. m : both[i] = j[i]
      /\ \A i \in 1 .. n : both[m + i] = c[i]
    BY <1>1
<1>3. \A k \in 1 .. (m + n) : k \in 1 .. m \/ k - m \in 1 .. n
    OBVIOUS
<1>4. \A k \in 1 .. (m + n) : k \notin 1 .. m => both[k] = c[k - m]
    <2> TAKE k \in 1 .. (m + n)
    <2> HAVE k \notin 1 .. m
    <2>1. PICK i \in 1 .. n : i = k - m
        BY <1>3
    <2>2. m + i = k
        BY <2>1
    <2> QED BY <1>2, <2>1, <2>2
<1>5. ASSUME NEW class, NEW x, Says(c, class, x)
      PROVE  Says(both, class, x)
    <2>1. PICK i \in 1 .. n : c[i] = x /\ \A k \in 1 .. n : c[k] \in class => k <= i
        BY <1>2, <1>5 DEF Says
    <2>2. m + i \in 1 .. (m + n) /\ both[m + i] = x
        BY <1>2, <2>1
    <2>3. ASSUME NEW k \in 1 .. (m + n), both[k] \in class
          PROVE  k <= m + i
        <3>1. CASE k \in 1 .. m
            BY <3>1
        <3>2. CASE k \notin 1 .. m
            <4>1. k - m \in 1 .. n /\ c[k - m] \in class
                BY <1>3, <1>4, <2>3, <3>2
            <4>2. k - m <= i
                BY <2>1, <4>1
            <4> QED BY <4>2
        <3> QED BY <3>1, <3>2
    <2> QED BY <1>2, <2>2, <2>3 DEF Says
<1>6. ASSUME NEW class, NEW x, Says(j, class, x), Silent(c, class)
      PROVE  Says(both, class, x)
    <2>1. PICK i \in 1 .. m : j[i] = x /\ \A k \in 1 .. m : j[k] \in class => k <= i
        BY <1>2, <1>6 DEF Says
    <2>2. i \in 1 .. (m + n) /\ both[i] = x
        BY <1>2, <2>1
    <2>3. ASSUME NEW k \in 1 .. (m + n), both[k] \in class
          PROVE  k <= i
        <3>1. k \in 1 .. m
            BY <1>2, <1>3, <1>4, <1>6, <2>3 DEF Silent
        <3> QED BY <1>2, <2>1, <2>3, <3>1
    <2> QED BY <1>2, <2>2, <2>3 DEF Says
<1>7. ASSUME NEW class, Silent(j, class), Silent(c, class)
      PROVE  Silent(both, class)
    <2>1. ASSUME NEW k \in 1 .. (m + n)
          PROVE  both[k] \notin class
        BY <1>2, <1>3, <1>4, <1>7 DEF Silent
    <2> QED BY <1>2, <2>1 DEF Silent
<1> QED BY <1>1, <1>5, <1>6, <1>7

\* Lists of one, two and five commands.
LEMMA OneCommand ==
    ASSUME NEW a \in Command
    PROVE  /\ <<a>> \in Seq(Command)
           /\ \A class : Silent(<<a>>, class) <=> a \notin class
           /\ \A class : Says(<<a>>, class, a)
    BY DEF Silent, Says

LEMMA TwoCommands ==
    ASSUME NEW a \in Command, NEW b \in Command
    PROVE  /\ <<a, b>> \in Seq(Command)
           /\ \A class : Silent(<<a, b>>, class) <=> a \notin class /\ b \notin class
           /\ \A class : Says(<<a, b>>, class, b)
           /\ \A class : b \notin class => Says(<<a, b>>, class, a)
<1>1. \A k \in DOMAIN <<a, b>> : k = 1 \/ k = 2
    OBVIOUS
<1>2. 1 \in DOMAIN <<a, b>> /\ 2 \in DOMAIN <<a, b>> /\ <<a, b>>[1] = a /\ <<a, b>>[2] = b
    OBVIOUS
<1>3. \A class : Says(<<a, b>>, class, b)
    BY <1>1, <1>2 DEF Says
<1>4. \A class : b \notin class => Says(<<a, b>>, class, a)
    BY <1>1, <1>2 DEF Says
<1>5. \A class : Silent(<<a, b>>, class) <=> a \notin class /\ b \notin class
    BY <1>1, <1>2 DEF Silent
<1> QED BY <1>3, <1>4, <1>5

-----------------------------------------------------------------------------
(* What the reader makes of a journal whose last commands are known. *)

Entries(class) == {n \in DOMAIN journal : journal[n] \in class}

\* The reader's selections are the commands of a class.
LEMMA Selections ==
    ASSUME journal \in Seq(Command)
    PROVE  /\ DOMAIN journal = 1 .. Len(journal) /\ Len(journal) \in Nat
           /\ \A n \in DOMAIN journal : journal[n] \in Command
           /\ \A t \in Tabs :
                /\ {n \in Of("SET_TAB_WINDOW") : journal[n].tab = t} = Entries(Placing(t))
                /\ {n \in Of("SET_TAB_INDEX_IN_WINDOW") : journal[n].tab = t} = Entries(Indexing(t))
                /\ {n \in Of("UPDATE_TAB_NAVIGATION") : journal[n].tab = t} = Entries(Recording(t))
                /\ {n \in Of("SET_SELECTED_NAVIGATION_INDEX") : journal[n].tab = t}
                       = Entries(Selecting(t))
                /\ {n \in Of("TAB_CLOSED") : journal[n].tab = t} = Entries(ClosingTab(t))
           /\ \A w \in Wins :
                /\ {n \in Of("SET_TAB_WINDOW") : journal[n].window = w} = Entries(PlacingIn(w))
                /\ {n \in Of("SET_SELECTED_TAB_IN_INDEX") : journal[n].window = w}
                       = Entries(Fronting(w))
                /\ {n \in Of("WINDOW_CLOSED") : journal[n].window = w} = Entries(ClosingWindow(w))
<1>1. DOMAIN journal = 1 .. Len(journal) /\ Len(journal) \in Nat
    OBVIOUS
<1>2. \A n \in DOMAIN journal : journal[n] \in Command
    OBVIOUS
<1>3. ASSUME NEW t \in Tabs
      PROVE  /\ {n \in Of("SET_TAB_WINDOW") : journal[n].tab = t} = Entries(Placing(t))
             /\ {n \in Of("SET_TAB_INDEX_IN_WINDOW") : journal[n].tab = t} = Entries(Indexing(t))
             /\ {n \in Of("UPDATE_TAB_NAVIGATION") : journal[n].tab = t} = Entries(Recording(t))
             /\ {n \in Of("SET_SELECTED_NAVIGATION_INDEX") : journal[n].tab = t}
                    = Entries(Selecting(t))
             /\ {n \in Of("TAB_CLOSED") : journal[n].tab = t} = Entries(ClosingTab(t))
    BY <1>2 DEF Of, Entries, Placing, Indexing, Recording, Selecting, ClosingTab
<1>4. ASSUME NEW w \in Wins
      PROVE  /\ {n \in Of("SET_TAB_WINDOW") : journal[n].window = w} = Entries(PlacingIn(w))
             /\ {n \in Of("SET_SELECTED_TAB_IN_INDEX") : journal[n].window = w}
                    = Entries(Fronting(w))
             /\ {n \in Of("WINDOW_CLOSED") : journal[n].window = w} = Entries(ClosingWindow(w))
    BY <1>2 DEF Of, Entries, PlacingIn, Fronting, ClosingWindow
<1> QED BY <1>1, <1>2, <1>3, <1>4

\* The latest of a class is what the journal says of it.
LEMMA LatestSaid ==
    ASSUME journal \in Seq(Command), NEW class, NEW x \in class, Says(journal, class, x)
    PROVE  LET n == Latest(Entries(class), 0)
           IN  n \in DOMAIN journal /\ n # 0 /\ journal[n] = x /\ \A k \in Entries(class) : k <= n
<1>1. DOMAIN journal = 1 .. Len(journal) /\ Len(journal) \in Nat
    BY Selections
<1>2. PICK n \in DOMAIN journal : journal[n] = x /\ \A k \in DOMAIN journal :
               journal[k] \in class => k <= n
    BY DEF Says
<1>3. n \in Entries(class) /\ \A k \in Entries(class) : k <= n /\ k \in Nat /\ k # 0
    BY <1>1, <1>2 DEF Entries
<1>4. \A k \in Entries(class) : (\A i \in Entries(class) : k >= i) => k = n
    BY <1>3
<1>5. \A i \in Entries(class) : n >= i
    BY <1>3
<1>6. Max(Entries(class)) = n
    <2>1. \E k \in Entries(class) : \A i \in Entries(class) : k >= i
        BY <1>3, <1>5
    <2>2. /\ Max(Entries(class)) \in Entries(class)
          /\ \A i \in Entries(class) : Max(Entries(class)) >= i
        BY <2>1, Zenon DEF Max
    <2> QED BY <1>4, <2>2
<1>7. Latest(Entries(class), 0) = n
    BY <1>3, <1>6 DEF Latest
<1> QED BY <1>2, <1>3, <1>7

\* What is never said is not among the entries.
LEMMA NoneSaid ==
    ASSUME NEW class, Silent(journal, class)
    PROVE  Entries(class) = {} /\ Latest(Entries(class), 0) = 0
BY DEF Silent, Entries, Latest

\* An open tab is read as it is.
LEMMA OpenTabRead ==
    ASSUME Replayed, NEW w \in Wins, NEW i \in DOMAIN strip[w], NEW t, t = strip[w][i]
    PROVE  /\ t \in Tabs /\ Placed(t) # 0 /\ WindowOf(t) = w /\ IndexOf(t) = i
           /\ ~TabGone(t) /\ ~WindowGone(w)
<1>1. journal \in Seq(Command) /\ strip[w] \in Seq(Tabs)
    BY DEF Replayed, BrowserTyped
<1>2. t \in Tabs /\ i \in Nat
    BY <1>1
<1>3. TabRead(w, i, t) /\ WindowRead(w)
    <2>1. strip[w] # <<>>
        BY <1>1
    <2> QED BY <2>1 DEF Replayed, TabsRead, WindowsRead
<1>4. /\ TabWindow(w, t) \in Placing(t) /\ TabIndex(t, i) \in Indexing(t)
      /\ TabWindow(w, t).window = w /\ TabIndex(t, i).index = i
    <2>1. TabWindow(w, t) \in Placing(t)
        BY <1>2, TabWindowKind
    <2>2. TabIndex(t, i) \in Indexing(t)
        BY <1>2, TabIndexKind
    <2>3. TabWindow(w, t).window = w /\ TabIndex(t, i).index = i
        BY DEF TabWindow, TabIndex
    <2> QED BY <2>1, <2>2, <2>3
<1>5. Placed(t) = Latest(Entries(Placing(t)), 0)
    BY <1>1, <1>2, Selections DEF Placed
<1>6. Placed(t) # 0 /\ journal[Placed(t)] = TabWindow(w, t)
    BY <1>1, <1>3, <1>4, <1>5, LatestSaid DEF TabRead
<1>7. WindowOf(t) = w
    BY <1>4, <1>6 DEF WindowOf
<1>8. IndexOf(t) = i
    <2>1. PICK n : n = Latest(Entries(Indexing(t)), 0)
        OBVIOUS
    <2>2. n # 0 /\ journal[n] = TabIndex(t, i)
        BY <1>1, <1>3, <1>4, <2>1, LatestSaid DEF TabRead
    <2>3. n = Latest({k \in Of("SET_TAB_INDEX_IN_WINDOW") : journal[k].tab = t}, 0)
        BY <1>1, <1>2, <2>1, Selections
    <2> QED BY <1>4, <2>2, <2>3 DEF IndexOf
<1>9. ~TabGone(t)
    <2>1. Entries(ClosingTab(t)) = {}
        BY <1>3, NoneSaid DEF TabRead
    <2>2. {n \in Of("TAB_CLOSED") : journal[n].tab = t} = {}
        BY <1>1, <1>2, <2>1, Selections
    <2> QED BY <2>2 DEF TabGone
<1>10. ~WindowGone(w)
    <2>1. Entries(ClosingWindow(w)) = {}
        BY <1>3, NoneSaid DEF WindowRead
    <2>2. {n \in Of("WINDOW_CLOSED") : journal[n].window = w} = {}
        BY <1>1, <2>1, Selections
    <2> QED BY <2>2 DEF WindowGone
<1> QED BY <1>2, <1>6, <1>7, <1>8, <1>9, <1>10

\* And its page is the one it is at, though those it once went on to are
\* recorded too.
LEMMA OpenPageRead ==
    ASSUME Replayed, NEW w \in Wins, NEW i \in DOMAIN strip[w], NEW t, t = strip[w][i]
    PROVE  Entry(t) = {hist[t][at[t]]} /\ hist[t][at[t]] \in Pages
<1>1. journal \in Seq(Command) /\ strip[w] \in Seq(Tabs) /\ hist \in [Tabs -> Seq(Pages)]
    BY DEF Replayed, BrowserTyped
<1>2. t \in Tabs /\ PageRead(t)
    BY <1>1 DEF Replayed, PagesRead
<1> PICK a, page : a = at[t] /\ page = hist[t][a]
    OBVIOUS
<1>3. a \in Nat /\ a \in DOMAIN hist[t] /\ page \in Pages
    <2>1. hist[t] \in Seq(Pages) /\ a \in DOMAIN hist[t]
        BY <1>1, <1>2 DEF PageRead
    <2> QED BY <2>1
<1>4. /\ SelectedEntry(t, a) \in Selecting(t) /\ SelectedEntry(t, a).index = a
      /\ Navigation(t, a, page) \in RecordingAt(t, a) /\ Navigation(t, a, page).page = page
    <2>1. SelectedEntry(t, a) \in Selecting(t)
        BY <1>2, <1>3, SelectedEntryKind
    <2>2. Navigation(t, a, page) \in RecordingAt(t, a)
        BY <1>2, <1>3, NavigationKind
    <2>3. SelectedEntry(t, a).index = a /\ Navigation(t, a, page).page = page
        BY DEF SelectedEntry, Navigation
    <2> QED BY <2>1, <2>2, <2>3
<1> PICK recorded : recorded = {n \in Of("UPDATE_TAB_NAVIGATION") : journal[n].tab = t}
    OBVIOUS
<1> PICK selected :
        selected = Latest({n \in Of("SET_SELECTED_NAVIGATION_INDEX") : journal[n].tab = t}, 0)
    OBVIOUS
<1> PICK sought :
        sought = {n \in recorded : selected # 0 /\ journal[n].index = journal[selected].index}
    OBVIOUS
<1>5. selected # 0 /\ journal[selected].index = a
    <2>1. selected = Latest(Entries(Selecting(t)), 0)
        BY <1>1, <1>2, Selections
    <2>2. Says(journal, Selecting(t), SelectedEntry(t, a))
        BY <1>2 DEF PageRead
    <2>3. selected # 0 /\ journal[selected] = SelectedEntry(t, a)
        BY <1>1, <1>4, <2>1, <2>2, LatestSaid
    <2> QED BY <1>4, <2>3
<1>6. recorded = Entries(Recording(t))
    BY <1>1, <1>2, Selections
<1>7. sought = Entries(RecordingAt(t, a))
    BY <1>5, <1>6 DEF Entries, RecordingAt
<1>8. PICK n : n = Latest(Entries(RecordingAt(t, a)), 0)
    OBVIOUS
<1>9. n \in DOMAIN journal /\ journal[n] = Navigation(t, a, page)
    <2>1. Says(journal, RecordingAt(t, a), Navigation(t, a, page))
        BY <1>2, <1>3 DEF PageRead
    <2> QED BY <1>1, <1>4, <1>8, <2>1, LatestSaid
<1>10. n \in sought /\ n \in recorded
    <2>1. n \in sought
        BY <1>4, <1>7, <1>9 DEF Entries
    <2> QED BY <2>1
<1>11. Max(sought) = n
    <2>1. sought # {}
        BY <1>10
    <2> QED BY <1>7, <1>8, <2>1 DEF Latest
<1>12. sought # {} /\ recorded # {}
    BY <1>10
<1>13. Entry(t) = {journal[Max(sought)].page}
    BY <1>12 DEF Entry
<1> QED BY <1>3, <1>4, <1>9, <1>11, <1>13

\* A finite set of numbers has a largest.
LEMMA LargestIn ==
    ASSUME NEW n \in Nat, NEW S, S \subseteq 1 .. n, S # {}
    PROVE  Max(S) \in S /\ \A k \in S : k <= Max(S)
<1> DEFINE P(m) == n - m \in S
<1>1. \E m \in Nat : P(m)
    <2>1. PICK k \in S : TRUE
        OBVIOUS
    <2>2. n - k \in Nat /\ n - (n - k) = k
        BY <2>1
    <2> QED BY <2>2
<1>2. PICK m \in Nat : P(m) /\ \A k \in Nat : P(k) => m <= k
    <2> DEFINE Q == {k \in Nat : P(k)}
    <2>1. Q \subseteq Nat /\ Q # {}
        BY <1>1
    <2>2. PICK m \in Q : \A k \in Q : m <= k
        <3> HIDE DEF Q
        <3> QED BY <2>1, Least
    <2> QED BY <2>2
<1>3. \A k \in S : k <= n - m
    <2> TAKE k \in S
    <2>1. n - k \in Nat /\ n - (n - k) = k
        OBVIOUS
    <2>2. m <= n - k
        BY <1>2, <2>1
    <2> QED BY <2>2
<1>4. \E x \in S : \A y \in S : x >= y
    BY <1>2, <1>3
<1>5. Max(S) \in S /\ \A y \in S : Max(S) >= y
    BY <1>4, Zenon DEF Max
<1> QED BY <1>5

\* A tab that is not open is listed nowhere.
LEMMA ClosedUnlisted ==
    ASSUME Replayed, NEW t \in Tabs, ~IsOpen(t), NEW v \in Wins
    PROVE  t \notin Listed(v)
<1>1. journal \in Seq(Command) /\ DOMAIN journal = 1 .. Len(journal) /\ Len(journal) \in Nat
    BY Selections DEF Replayed, BrowserTyped
<1>2. Placed(t) = Latest(Entries(Placing(t)), 0)
    BY <1>1, Selections DEF Placed
<1>3. \/ Silent(journal, Placing(t))
      \/ Says(journal, Placing(t) \cup ClosingTab(t), TabClosed(t))
      \/ \E w \in Wins : strip[w] = <<>> /\ Says(journal, Placing(t), TabWindow(w, t))
    BY DEF Replayed, TabsGone
<1>4. CASE Silent(journal, Placing(t))
    BY <1>2, <1>4, NoneSaid DEF Listed
<1>5. CASE Says(journal, Placing(t) \cup ClosingTab(t), TabClosed(t))
    <2>1. TabClosed(t) \in ClosingTab(t) /\ TabClosed(t) \notin Placing(t)
        BY TabClosedKind
    <2>2. PICK n \in DOMAIN journal :
              /\ journal[n] = TabClosed(t)
              /\ \A k \in DOMAIN journal : journal[k] \in Placing(t) \cup ClosingTab(t) => k <= n
        BY <1>5 DEF Says
    <2>3. \A k \in Entries(Placing(t)) : k < n /\ k \in DOMAIN journal
        <3> TAKE k \in Entries(Placing(t))
        <3>1. k \in DOMAIN journal /\ journal[k] \in Placing(t) /\ k <= n
            BY <2>2 DEF Entries
        <3>2. k # n
            BY <2>1, <2>2, <3>1
        <3> QED BY <1>1, <3>1, <3>2
    <2>4. CASE Entries(Placing(t)) = {}
        BY <1>2, <2>4 DEF Latest, Listed
    <2>5. CASE Entries(Placing(t)) # {}
        <3>1. Placed(t) \in Entries(Placing(t))
            <4>1. Entries(Placing(t)) \subseteq 1 .. Len(journal)
                BY <1>1, <2>3
            <4>2. Placed(t) = Max(Entries(Placing(t)))
                BY <1>2, <2>5 DEF Latest
            <4> QED BY <1>1, <2>5, <4>1, <4>2, LargestIn
        <3>2. n > Placed(t)
            BY <1>1, <2>3, <3>1
        <3>3. n \in {k \in Of("TAB_CLOSED") : journal[k].tab = t}
            <4>1. n \in Entries(ClosingTab(t))
                BY <2>1, <2>2 DEF Entries
            <4> QED BY <1>1, <4>1, Selections
        <3>4. TabGone(t)
            BY <3>2, <3>3 DEF TabGone
        <3> QED BY <3>4 DEF Listed
    <2> QED BY <2>4, <2>5
<1>6. CASE \E w \in Wins : strip[w] = <<>> /\ Says(journal, Placing(t), TabWindow(w, t))
    <2>1. PICK w \in Wins : strip[w] = <<>> /\ Says(journal, Placing(t), TabWindow(w, t))
        BY <1>6
    <2>2. TabWindow(w, t) \in Placing(t) /\ TabWindow(w, t) \in PlacingIn(w)
        BY TabWindowKind
    <2>3. Placed(t) \in DOMAIN journal /\ journal[Placed(t)] = TabWindow(w, t)
        BY <1>1, <1>2, <2>1, <2>2, LatestSaid
    <2>4. WindowOf(t) = w
        BY <2>3 DEF WindowOf, TabWindow
    <2>5. ~Silent(journal, PlacingIn(w))
        BY <2>2, <2>3 DEF Silent
    <2>6. Says(journal, PlacingIn(w) \cup ClosingWindow(w), WindowClosed(w))
        BY <2>1, <2>5 DEF Replayed, WindowsGone
    <2>7. PICK n \in DOMAIN journal :
              /\ journal[n] = WindowClosed(w)
              /\ \A k \in DOMAIN journal :
                     journal[k] \in PlacingIn(w) \cup ClosingWindow(w) => k <= n
        BY <2>6 DEF Says
    <2>8. WindowClosed(w) \in ClosingWindow(w)
        BY WindowClosedKind
    <2>9. n \in Of("WINDOW_CLOSED") /\ journal[n].window = w
        <3>1. n \in Entries(ClosingWindow(w))
            BY <2>7, <2>8 DEF Entries
        <3>2. n \in {k \in Of("WINDOW_CLOSED") : journal[k].window = w}
            BY <1>1, <3>1, Selections
        <3> QED BY <3>2
    <2>10. ~\E k \in Of("SET_TAB_WINDOW") : journal[k].window = w /\ k > n
        <3>1. \A k \in Entries(PlacingIn(w)) : k <= n /\ k \in Nat
            BY <1>1, <2>7 DEF Entries
        <3>2. \A k \in {i \in Of("SET_TAB_WINDOW") : journal[i].window = w} : k <= n /\ k \in Nat
            BY <1>1, <3>1, Selections
        <3>3. n \in Nat
            BY <1>1
        <3> QED BY <3>2, <3>3
    <2>11. WindowGone(w)
        BY <2>9, <2>10 DEF WindowGone
    <2> QED BY <2>4, <2>11 DEF Listed
<1> QED BY <1>3, <1>4, <1>5, <1>6

\* The tabs listed of a window are those open in it.
LEMMA ListedOpen ==
    ASSUME Replayed, NEW w \in Wins
    PROVE  Listed(w) = ToSet(strip[w]) /\ (Listed(w) # {} <=> strip[w] # <<>>)
<1>1. strip \in [Wins -> Seq(Tabs)]
    BY DEF Replayed, BrowserTyped
<1>2. ASSUME NEW t \in ToSet(strip[w])
      PROVE  t \in Listed(w)
    <2>1. PICK i \in DOMAIN strip[w] : t = strip[w][i]
        BY DEF ToSet
    <2>2. /\ t \in Tabs /\ Placed(t) # 0 /\ WindowOf(t) = w
          /\ ~TabGone(t) /\ ~WindowGone(w)
        BY <2>1, OpenTabRead
    <2>3. Entry(t) # {}
        BY <2>1, OpenPageRead
    <2> QED BY <2>2, <2>3 DEF Listed
<1>3. ASSUME NEW t \in Listed(w)
      PROVE  t \in ToSet(strip[w])
    <2>1. t \in Tabs /\ WindowOf(t) = w
        BY DEF Listed
    <2>2. IsOpen(t)
        BY <1>3, <2>1, ClosedUnlisted
    <2>3. PICK v \in Wins : t \in ToSet(strip[v])
        BY <2>2 DEF IsOpen
    <2>4. PICK i \in DOMAIN strip[v] : t = strip[v][i]
        BY <2>3 DEF ToSet
    <2>5. WindowOf(t) = v
        BY <2>4, OpenTabRead
    <2> QED BY <2>1, <2>3, <2>5
<1>4. ToSet(strip[w]) # {} <=> strip[w] # <<>>
    <2>1. strip[w] \in Seq(Tabs) /\ DOMAIN strip[w] = 1 .. Len(strip[w])
        BY <1>1
    <2>2. strip[w] = <<>> => ToSet(strip[w]) = {}
        BY DEF ToSet
    <2>3. strip[w] # <<>> => 1 \in DOMAIN strip[w]
        BY <2>1
    <2>4. strip[w] # <<>> => strip[w][1] \in ToSet(strip[w])
        BY <2>3 DEF ToSet
    <2> QED BY <2>2, <2>4
<1> QED BY <1>2, <1>3, <1>4

PagesOf(tabs) == [i \in DOMAIN tabs |-> CHOOSE page \in Pages : page \in Entry(tabs[i])]

\* The reader's strip is the browser's.
LEMMA StripRead ==
    ASSUME Replayed, NEW w \in Wins
    PROVE  ReadStrip(w) = ShownPages(w)
<1> PICK s \in Seq(Tabs) : s = strip[w]
    BY DEF Replayed, BrowserTyped
<1> PICK n \in Nat : n = Len(s)
    OBVIOUS
<1>1. DOMAIN s = 1 .. n /\ \A k \in 1 .. n : s[k] \in Tabs
    OBVIOUS
<1> PICK S : S = Listed(w)
    OBVIOUS
<1> PICK R : R = {p \in S \X S : IndexOf(p[1]) < IndexOf(p[2])}
    OBVIOUS
<1>2. S = ToSet(s)
    BY ListedOpen
<1>3. \A k \in 1 .. n : IndexOf(s[k]) = k /\ s[k] \in S
    <2>1. \A k \in 1 .. n : IndexOf(s[k]) = k
        BY <1>1, OpenTabRead
    <2> QED BY <1>1, <1>2, <2>1 DEF ToSet
<1>4. \A t \in S : \E k \in 1 .. n : s[k] = t
    BY <1>1, <1>2 DEF ToSet
<1>5. \A j, k \in 1 .. n : <<s[j], s[k]>> \in R <=> j < k
    BY <1>3
<1>6. Orders(R, S)
    <2>1. \A x \in S : <<x, x>> \notin R
        BY <1>4, <1>5
    <2>2. \A x, y \in S : x # y => <<x, y>> \in R \/ <<y, x>> \in R
        <3> TAKE x, y \in S
        <3>1. PICK j \in 1 .. n, k \in 1 .. n : s[j] = x /\ s[k] = y
            BY <1>4
        <3>2. x # y => j < k \/ k < j
            BY <3>1
        <3> QED BY <1>5, <3>1, <3>2
    <2>3. \A x, y, z \in S : <<x, y>> \in R /\ <<y, z>> \in R => <<x, z>> \in R
        <3> TAKE x, y, z \in S
        <3>1. PICK i \in 1 .. n, j \in 1 .. n, k \in 1 .. n : s[i] = x /\ s[j] = y /\ s[k] = z
            BY <1>4
        <3> QED BY <1>5, <3>1
    <2> QED BY <2>1, <2>2, <2>3 DEF Orders
<1>7. InOrder(s, n, S, R)
    <2>1. s \in [1 .. n -> S]
        BY <1>1, <1>3
    <2> QED BY <1>4, <1>5, <2>1 DEF InOrder
<1>8. Sorted(S, R) = s
    BY <1>6, <1>7, SortedUnique
<1>9. ReadStrip(w) = [i \in DOMAIN s |-> CHOOSE page \in Pages : page \in Entry(s[i])]
    <2>1. Sorted(Listed(w), {p \in Listed(w) \X Listed(w) : IndexOf(p[1]) < IndexOf(p[2])}) = s
        BY <1>8
    <2>2. ReadStrip(w)
              = PagesOf(Sorted(Listed(w), {p \in Listed(w) \X Listed(w) : IndexOf(p[1]) < IndexOf(p[2])}))
        BY DEF ReadStrip, PagesOf
    <2>3. ReadStrip(w) = PagesOf(s)
        BY <2>1, <2>2
    <2> QED BY <2>3 DEF PagesOf
<1>10. ASSUME NEW i \in DOMAIN s
       PROVE  (CHOOSE page \in Pages : page \in Entry(s[i])) = hist[s[i]][at[s[i]]]
    <2>1. Entry(s[i]) = {hist[s[i]][at[s[i]]]} /\ hist[s[i]][at[s[i]]] \in Pages
        BY OpenPageRead
    <2> QED BY <2>1
<1>11. ShownPages(w) = [i \in DOMAIN s |-> hist[s[i]][at[s[i]]]]
    BY DEF ShownPages
<1> QED BY <1>9, <1>10, <1>11

\* And its front tab.
LEMMA FrontRead ==
    ASSUME Replayed, NEW w \in Wins, strip[w] # <<>>
    PROVE  ReadFront(w) = front[w] /\ SelectedTitle(w) = {Title(w)}
<1>1. journal \in Seq(Command) /\ strip[w] \in Seq(Tabs) /\ front[w] \in Nat
    BY DEF Replayed, BrowserTyped
<1>2. WindowRead(w)
    BY DEF Replayed, WindowsRead
<1> PICK f \in Nat : f = front[w]
    BY <1>1
<1>3. f \in DOMAIN strip[w]
    BY <1>2 DEF WindowRead
<1>4. ReadFront(w) = f
    <2>1. SelectedTab(w, f) \in Fronting(w) /\ SelectedTab(w, f).index = f
        BY SelectedTabKind DEF SelectedTab
    <2>2. PICK n : n = Latest(Entries(Fronting(w)), 0)
        OBVIOUS
    <2>3. n # 0 /\ journal[n] = SelectedTab(w, f)
        BY <1>1, <1>2, <2>1, <2>2, LatestSaid DEF WindowRead
    <2>4. n = Latest({k \in Of("SET_SELECTED_TAB_IN_INDEX") : journal[k].window = w}, 0)
        BY <1>1, <2>2, Selections
    <2> QED BY <2>1, <2>3, <2>4 DEF ReadFront
<1> PICK t : t = strip[w][f]
    OBVIOUS
<1>5. Title(w) = hist[t][at[t]]
    BY <1>3 DEF Title, ShownPages
<1>6. Entry(t) = {Title(w)} /\ Title(w) \in Pages
    BY <1>3, <1>5, OpenPageRead
<1>7. t \in Listed(w) /\ IndexOf(t) = f
    <2>1. t \in ToSet(strip[w])
        BY <1>3 DEF ToSet
    <2> QED BY <1>3, <2>1, ListedOpen, OpenTabRead
<1>8. \A s \in Listed(w) : IndexOf(s) = f => s = t
    <2> TAKE s \in Listed(w)
    <2>1. PICK i \in DOMAIN strip[w] : s = strip[w][i]
        BY ListedOpen DEF ToSet
    <2>2. IndexOf(s) = i
        BY <2>1, OpenTabRead
    <2> QED BY <2>1, <2>2
<1>9. SelectedTitle(w) = {Title(w)}
    BY <1>4, <1>6, <1>7, <1>8 DEF SelectedTitle
<1> QED BY <1>4, <1>9

\* So a capture finds the window by its title, and takes its pages.
LEMMA CapturesTabs == Replayed => TakesOwnTabs
<1> SUFFICES ASSUME Replayed, NEW w \in Wins, strip[w] # <<>>,
                    \A v \in Wins \ {w} : strip[v] # <<>> => Title(v) # Title(w)
             PROVE  WindowTabs(Title(w)) = {Only(ShownPages(w), Launchable)}
    BY DEF TakesOwnTabs
<1>1. OpenWindows = {v \in Wins : strip[v] # <<>>}
    BY ListedOpen DEF OpenWindows
<1>2. \A v \in OpenWindows : SelectedTitle(v) = {Title(v)}
    BY <1>1, FrontRead
<1>3. {v \in OpenWindows : Title(w) \in SelectedTitle(v)} = {w}
    BY <1>1, <1>2
<1>4. MatchWindow(Title(w)) = {w}
    BY <1>3 DEF MatchWindow
<1> QED BY <1>4, StripRead DEF WindowTabs

-----------------------------------------------------------------------------
(* What the changes of a strip are, and what is written with them. *)

FiveSay(s, a, b, c, d, e) ==
    /\ s \in Seq(Command)
    /\ \A class : Silent(s, class) <=> a \notin class /\ b \notin class /\ c \notin class
                                         /\ d \notin class /\ e \notin class
    /\ \A class : Says(s, class, e)
    /\ \A class : e \notin class => Says(s, class, d)
    /\ \A class : d \notin class /\ e \notin class => Says(s, class, c)
    /\ \A class : c \notin class /\ d \notin class /\ e \notin class => Says(s, class, b)
    /\ \A class : b \notin class /\ c \notin class /\ d \notin class /\ e \notin class
                     => Says(s, class, a)

LEMMA FiveCommands ==
    ASSUME NEW a \in Command, NEW b \in Command, NEW c \in Command, NEW d \in Command,
           NEW e \in Command, NEW s, s = <<a, b, c, d, e>>
    PROVE  FiveSay(s, a, b, c, d, e)
<1>0. s \in Seq(Command) /\ s[1] = a /\ s[2] = b /\ s[3] = c /\ s[4] = d /\ s[5] = e
    OBVIOUS
<1>1. /\ \A k \in DOMAIN s : k = 1 \/ k = 2 \/ k = 3 \/ k = 4 \/ k = 5
      /\ 1 \in DOMAIN s /\ 2 \in DOMAIN s /\ 3 \in DOMAIN s /\ 4 \in DOMAIN s /\ 5 \in DOMAIN s
      /\ s[1] = a /\ s[2] = b /\ s[3] = c /\ s[4] = d /\ s[5] = e
    <2>1. DOMAIN s = 1 .. 5
        OBVIOUS
    <2>2. \A k \in 1 .. 5 : k = 1 \/ k = 2 \/ k = 3 \/ k = 4 \/ k = 5
        OBVIOUS
    <2> QED BY <1>0, <2>1, <2>2
<1>2. \A class : Silent(s, class) <=> a \notin class /\ b \notin class /\ c \notin class
                                        /\ d \notin class /\ e \notin class
    BY <1>1 DEF Silent
<1>3. \A class : Says(s, class, e)
    BY <1>1 DEF Says
<1>4. \A class : e \notin class => Says(s, class, d)
    BY <1>1 DEF Says
<1>5. \A class : d \notin class /\ e \notin class => Says(s, class, c)
    BY <1>1 DEF Says
<1>6. \A class : c \notin class /\ d \notin class /\ e \notin class => Says(s, class, b)
    BY <1>1 DEF Says
<1>7. \A class : b \notin class /\ c \notin class /\ d \notin class /\ e \notin class
                     => Says(s, class, a)
    BY <1>1 DEF Says
<1> QED BY <1>0, <1>2, <1>3, <1>4, <1>5, <1>6, <1>7 DEF FiveSay

LEMMA SilentParts ==
    ASSUME NEW c, NEW A, NEW B
    PROVE  Silent(c, A \cup B) <=> Silent(c, A) /\ Silent(c, B)
BY DEF Silent

LEMMA RecordingParts ==
    ASSUME NEW c, NEW t, NEW k, Silent(c, Recording(t))
    PROVE  Silent(c, RecordingAt(t, k))
BY DEF Silent, RecordingAt

\* What follows when c is written.
LEMMA Adds ==
    ASSUME Replayed, NEW c \in Seq(Command), journal' = journal \o c
    PROVE  /\ journal' \in Seq(Command)
           /\ \A class, x : Says(c, class, x) => Says(journal', class, x)
           /\ \A class, x : Says(journal, class, x) /\ Silent(c, class) => Says(journal', class, x)
           /\ \A class : Silent(journal, class) /\ Silent(c, class) => Silent(journal', class)
<1>1. journal \in Seq(Command)
    BY DEF Replayed, BrowserTyped
<1> QED BY <1>1, Appended

\* The positions of a strip, written down.
LEMMA IndicesFacts ==
    ASSUME NEW tabs \in Seq(Tabs), Distinct(tabs)
    PROVE  /\ Indices(tabs) \in Seq(Command)
           /\ \A i \in DOMAIN tabs : Says(Indices(tabs), Indexing(tabs[i]), TabIndex(tabs[i], i))
           /\ \A s \in Tabs : s \notin ToSet(tabs) => Silent(Indices(tabs), Indexing(s))
           /\ \A s \in Tabs : /\ Silent(Indices(tabs), Placing(s))
                              /\ Silent(Indices(tabs), ClosingTab(s))
                              /\ Silent(Indices(tabs), Selecting(s))
                              /\ Silent(Indices(tabs), Recording(s))
           /\ \A v \in Wins : /\ Silent(Indices(tabs), PlacingIn(v))
                              /\ Silent(Indices(tabs), Fronting(v))
                              /\ Silent(Indices(tabs), ClosingWindow(v))
<1>1. DOMAIN tabs = 1 .. Len(tabs) /\ Len(tabs) \in Nat /\ \A i \in DOMAIN tabs : tabs[i] \in Tabs
    OBVIOUS
<1> PICK c : c = Indices(tabs)
    OBVIOUS
<1>2. DOMAIN c = DOMAIN tabs /\ \A i \in DOMAIN tabs : c[i] = TabIndex(tabs[i], i)
    BY DEF Indices
<1>3. \A i \in DOMAIN tabs : i \in Nat /\ TabIndex(tabs[i], i) \in Command
    BY <1>1, TabIndexKind
<1>4. c \in Seq(Command)
    <2>1. c = [i \in 1 .. Len(tabs) |-> TabIndex(tabs[i], i)]
        BY <1>1 DEF Indices
    <2> QED BY <1>1, <1>3, <2>1
<1>5. ASSUME NEW i \in DOMAIN tabs
      PROVE  Says(c, Indexing(tabs[i]), TabIndex(tabs[i], i))
    <2>1. \A k \in DOMAIN c : c[k] \in Indexing(tabs[i]) => tabs[k] = tabs[i]
        BY <1>1, <1>2, <1>3, TabIndexKind
    <2>2. \A k \in DOMAIN c : c[k] \in Indexing(tabs[i]) => k <= i
        BY <1>2, <1>3, <2>1 DEF Distinct
    <2> QED BY <1>2, <2>2 DEF Says
<1>6. ASSUME NEW s \in Tabs, s \notin ToSet(tabs)
      PROVE  Silent(c, Indexing(s))
    <2>1. \A k \in DOMAIN c : tabs[k] # s
        BY <1>2, <1>6 DEF ToSet
    <2> QED BY <1>1, <1>2, <1>3, <2>1, TabIndexKind DEF Silent
<1>7. ASSUME NEW s \in Tabs
      PROVE  /\ Silent(c, Placing(s)) /\ Silent(c, ClosingTab(s))
             /\ Silent(c, Selecting(s)) /\ Silent(c, Recording(s))
    BY <1>1, <1>2, <1>3, TabIndexKind DEF Silent
<1>8. ASSUME NEW v \in Wins
      PROVE  /\ Silent(c, PlacingIn(v)) /\ Silent(c, Fronting(v)) /\ Silent(c, ClosingWindow(v))
    BY <1>1, <1>2, <1>3, TabIndexKind DEF Silent
<1> QED BY <1>4, <1>5, <1>6, <1>7, <1>8

\* A tab taken out of a strip.
LEMMA WithoutFacts ==
    ASSUME NEW tabs \in Seq(Tabs), Distinct(tabs), NEW t \in ToSet(tabs)
    PROVE  /\ Without(tabs, t) \in Seq(Tabs) /\ Distinct(Without(tabs, t))
           /\ ToSet(Without(tabs, t)) = ToSet(tabs) \ {t}
           /\ Len(Without(tabs, t)) = Len(tabs) - 1
<1>1. PICK n \in Nat : n = Len(tabs) /\ DOMAIN tabs = 1 .. n
    OBVIOUS
<1>2. PICK p : p = CHOOSE i \in DOMAIN tabs : tabs[i] = t
    OBVIOUS
<1>3. p \in 1 .. n /\ tabs[p] = t
    BY <1>1, <1>2 DEF ToSet
<1>11. PICK l : l = SubSeq(tabs, 1, p - 1)
    OBVIOUS
<1>12. PICK r : r = SubSeq(tabs, p + 1, n)
    OBVIOUS
<1>4. l \in Seq(Tabs) /\ Len(l) = p - 1 /\ \A i \in 1 .. (p - 1) : l[i] = tabs[i]
    <2>1. PICK m \in Nat : m = p - 1 /\ m <= n
        BY <1>3
    <2>2. l = [i \in 1 .. m |-> tabs[i]]
        BY <1>1, <1>11, <2>1
    <2>3. \A i \in 1 .. m : tabs[i] \in Tabs
        BY <1>1, <2>1
    <2>4. l \in Seq(Tabs) /\ Len(l) = m /\ \A i \in 1 .. m : l[i] = tabs[i]
        BY <2>2, <2>3
    <2> QED BY <2>1, <2>4
<1>5. r \in Seq(Tabs) /\ Len(r) = n - p /\ \A i \in 1 .. (n - p) : r[i] = tabs[p + i]
    <2>1. n - p \in Nat
        BY <1>3
    <2>2. r = [i \in 1 .. (n - p) |-> tabs[p + i]]
        BY <1>1, <1>3, <1>12, <2>1
    <2>3. \A i \in 1 .. (n - p) : tabs[p + i] \in Tabs
        BY <1>1, <1>3
    <2> QED BY <2>1, <2>2, <2>3
<1>13. PICK u : u = Without(tabs, t)
    OBVIOUS
<1>6. u = l \o r
    BY <1>1, <1>2, <1>11, <1>12, <1>13 DEF Without, RemoveAt
<1>7. /\ u \in Seq(Tabs) /\ Len(u) = n - 1 /\ DOMAIN u = 1 .. (n - 1)
      /\ \A i \in 1 .. (p - 1) : u[i] = tabs[i]
      /\ \A i \in 1 .. (n - p) : u[(p - 1) + i] = tabs[p + i]
    <2>1. /\ u \in Seq(Tabs) /\ Len(u) = Len(l) + Len(r)
          /\ DOMAIN u = 1 .. (Len(l) + Len(r))
          /\ \A i \in 1 .. Len(l) : u[i] = l[i]
          /\ \A i \in 1 .. Len(r) : u[Len(l) + i] = r[i]
        <3>1. /\ l \o r \in Seq(Tabs) /\ Len(l \o r) = Len(l) + Len(r)
              /\ DOMAIN (l \o r) = 1 .. (Len(l) + Len(r))
              /\ \A i \in 1 .. Len(l) : (l \o r)[i] = l[i]
              /\ \A i \in 1 .. Len(r) : (l \o r)[Len(l) + i] = r[i]
            <4>1. l \in Seq(Tabs) /\ r \in Seq(Tabs)
                BY <1>4, <1>5
            <4> QED BY <4>1, ConcatFacts
        <3> QED BY <1>6, <3>1
    <2>2. Len(l) + Len(r) = n - 1
        BY <1>3, <1>4, <1>5
    <2>3. \A i \in 1 .. (p - 1) : u[i] = tabs[i]
        BY <1>4, <2>1
    <2>4. \A i \in 1 .. (n - p) : u[(p - 1) + i] = tabs[p + i]
        BY <1>4, <1>5, <2>1
    <2> QED BY <2>1, <2>2, <2>3, <2>4
<1>8. \A i \in 1 .. (n - 1) : (i < p /\ u[i] = tabs[i]) \/ (i >= p /\ u[i] = tabs[i + 1])
    <2> TAKE i \in 1 .. (n - 1)
    <2>1. CASE i < p
        BY <1>3, <1>7, <2>1
    <2>2. CASE ~(i < p)
        <3>1. PICK k \in 1 .. (n - p) : k = i - (p - 1)
            BY <1>3, <2>2
        <3>2. (p - 1) + k = i /\ p + k = i + 1
            BY <1>3, <3>1
        <3>3. u[(p - 1) + k] = tabs[p + k]
            BY <1>7, <3>1
        <3>4. u[i] = tabs[i + 1]
            BY <3>2, <3>3
        <3>5. i >= p
            BY <1>3, <2>2
        <3> QED BY <3>4, <3>5
    <2> QED BY <2>1, <2>2
<1>9. Distinct(u)
    <2> SUFFICES ASSUME NEW i \in 1 .. (n - 1), NEW k \in 1 .. (n - 1), u[i] = u[k]
                 PROVE  i = k
        BY <1>7 DEF Distinct
    <2>1. i \in 1 .. n /\ k \in 1 .. n /\ i + 1 \in 1 .. n /\ k + 1 \in 1 .. n
        OBVIOUS
    <2>2. \A a, b \in 1 .. n : tabs[a] = tabs[b] => a = b
        BY <1>1 DEF Distinct
    <2>3. CASE i < p /\ k < p
        BY <1>3, <1>8, <2>1, <2>2, <2>3
    <2>4. CASE i >= p /\ k >= p
        <3>1. tabs[i + 1] = tabs[k + 1]
            BY <1>3, <1>8, <2>4
        <3>2. i + 1 = k + 1
            BY <2>1, <2>2, <3>1
        <3> QED BY <3>2
    <2>5. CASE i < p /\ k >= p
        <3>1. tabs[i] = tabs[k + 1]
            BY <1>3, <1>8, <2>5
        <3>2. i = k + 1
            BY <2>1, <2>2, <3>1
        <3> QED BY <1>3, <2>5, <3>2
    <2>6. CASE i >= p /\ k < p
        <3>1. tabs[i + 1] = tabs[k]
            BY <1>3, <1>8, <2>6
        <3>2. i + 1 = k
            BY <2>1, <2>2, <3>1
        <3> QED BY <1>3, <2>6, <3>2
    <2> QED BY <1>3, <2>3, <2>4, <2>5, <2>6
<1>10. ToSet(u) = ToSet(tabs) \ {t}
    <2>1. \A i \in 1 .. (n - 1) : u[i] \in ToSet(tabs) /\ u[i] # t
        <3> TAKE i \in 1 .. (n - 1)
        <3>1. i \in 1 .. n /\ i + 1 \in 1 .. n
            OBVIOUS
        <3>2. \A a, b \in 1 .. n : tabs[a] = tabs[b] => a = b
            BY <1>1 DEF Distinct
        <3>3. CASE i < p
            <4>1. i # p /\ ~(i >= p)
                BY <1>3, <3>3
            <4>2. u[i] = tabs[i]
                BY <1>8, <4>1
            <4> QED BY <1>1, <1>3, <3>1, <3>2, <4>1, <4>2 DEF ToSet
        <3>4. CASE i >= p
            <4>1. i + 1 # p /\ ~(i < p)
                BY <1>3, <3>4
            <4>2. u[i] = tabs[i + 1]
                BY <1>8, <4>1
            <4> QED BY <1>1, <1>3, <3>1, <3>2, <4>1, <4>2 DEF ToSet
        <3> QED BY <1>3, <3>3, <3>4
    <2>2. ASSUME NEW x \in ToSet(tabs), x # t
          PROVE  x \in ToSet(u)
        <3>1. PICK a \in 1 .. n : x = tabs[a]
            BY <1>1 DEF ToSet
        <3>2. CASE a < p
            <4>1. a \in 1 .. (n - 1) /\ u[a] = x
                BY <1>3, <1>7, <3>1, <3>2
            <4> QED BY <1>7, <4>1 DEF ToSet
        <3>3. CASE a > p
            <4>1. a - p \in 1 .. (n - p) /\ (p - 1) + (a - p) = a - 1 /\ p + (a - p) = a
                BY <1>3, <3>3
            <4>2. u[(p - 1) + (a - p)] = tabs[p + (a - p)]
                BY <1>7, <4>1
            <4>3. a - 1 \in 1 .. (n - 1)
                BY <1>3, <3>3
            <4>4. u[a - 1] = x
                BY <3>1, <4>1, <4>2
            <4> QED BY <1>7, <4>3, <4>4 DEF ToSet
        <3>4. a # p
            BY <1>3, <2>2, <3>1
        <3> QED BY <1>3, <3>2, <3>3, <3>4
    <2>3. ASSUME NEW x \in ToSet(u)
          PROVE  x \in ToSet(tabs) /\ x # t
        <3>1. PICK i \in 1 .. (n - 1) : x = u[i]
            BY <1>7 DEF ToSet
        <3> QED BY <2>1, <3>1
    <2> QED BY <2>2, <2>3
<1> QED BY <1>1, <1>7, <1>9, <1>10, <1>13

\* A tab put in front of a strip, and after it.
LEMMA FrontedFacts ==
    ASSUME NEW tabs \in Seq(Tabs), Distinct(tabs), NEW t \in Tabs, t \notin ToSet(tabs)
    PROVE  /\ <<t>> \o tabs \in Seq(Tabs) /\ Distinct(<<t>> \o tabs)
           /\ ToSet(<<t>> \o tabs) = ToSet(tabs) \cup {t}
           /\ 1 \in DOMAIN (<<t>> \o tabs)
<1>1. PICK n \in Nat : n = Len(tabs) /\ DOMAIN tabs = 1 .. n
    OBVIOUS
<1> PICK one : one = <<t>>
    OBVIOUS
<1>2. one \in Seq(Tabs) /\ Len(one) = 1 /\ one[1] = t
    OBVIOUS
<1> PICK u : u = one \o tabs
    OBVIOUS
<1>3. /\ u \in Seq(Tabs) /\ DOMAIN u = 1 .. (1 + n) /\ u[1] = t
      /\ \A i \in 1 .. n : u[1 + i] = tabs[i]
    <2>1. /\ u \in Seq(Tabs) /\ DOMAIN u = 1 .. (Len(one) + Len(tabs))
          /\ \A i \in 1 .. Len(one) : u[i] = one[i]
          /\ \A i \in 1 .. Len(tabs) : u[Len(one) + i] = tabs[i]
        BY <1>2, ConcatFacts
    <2> QED BY <1>1, <1>2, <2>1
<1>4. \A k \in 1 .. (1 + n) : k = 1 \/ (k - 1 \in 1 .. n /\ u[k] = tabs[k - 1])
    <2> TAKE k \in 1 .. (1 + n)
    <2>1. CASE k # 1
        <3>1. k - 1 \in 1 .. n /\ 1 + (k - 1) = k
            BY <2>1
        <3>2. u[1 + (k - 1)] = tabs[k - 1]
            BY <1>3, <3>1
        <3> QED BY <3>1, <3>2
    <2> QED BY <2>1
<1>5. \A k \in 1 .. n : tabs[k] # t
    BY <1>1 DEF ToSet
<1>6. Distinct(u)
    <2> SUFFICES ASSUME NEW i \in 1 .. (1 + n), NEW k \in 1 .. (1 + n), u[i] = u[k]
                 PROVE  i = k
        BY <1>3 DEF Distinct
    <2>1. CASE i = 1 \/ k = 1
        BY <1>3, <1>4, <1>5, <2>1
    <2>2. CASE i # 1 /\ k # 1
        <3>1. i - 1 \in 1 .. n /\ k - 1 \in 1 .. n /\ tabs[i - 1] = tabs[k - 1]
            BY <1>4, <2>2
        <3>2. i - 1 = k - 1
            BY <1>1, <3>1 DEF Distinct
        <3> QED BY <3>2
    <2> QED BY <2>1, <2>2
<1>7. ToSet(u) = ToSet(tabs) \cup {t}
    <2>1. ASSUME NEW x \in ToSet(u) PROVE x \in ToSet(tabs) \cup {t}
        <3>1. PICK k \in 1 .. (1 + n) : x = u[k]
            BY <1>3 DEF ToSet
        <3> QED BY <1>1, <1>3, <1>4, <3>1 DEF ToSet
    <2>2. ASSUME NEW x \in ToSet(tabs) PROVE x \in ToSet(u)
        <3>1. PICK k \in 1 .. n : x = tabs[k]
            BY <1>1 DEF ToSet
        <3>2. 1 + k \in 1 .. (1 + n) /\ u[1 + k] = x
            BY <1>3, <3>1
        <3> QED BY <1>3, <3>2 DEF ToSet
    <2>3. t \in ToSet(u)
        <3>1. 1 \in DOMAIN u /\ u[1] = t
            BY <1>3
        <3> QED BY <3>1 DEF ToSet
    <2> QED BY <2>1, <2>2, <2>3
<1> QED BY <1>3, <1>6, <1>7

LEMMA AppendFacts ==
    ASSUME NEW tabs \in Seq(Tabs), Distinct(tabs), NEW t \in Tabs, t \notin ToSet(tabs)
    PROVE  /\ Append(tabs, t) \in Seq(Tabs) /\ Distinct(Append(tabs, t))
           /\ ToSet(Append(tabs, t)) = ToSet(tabs) \cup {t}
           /\ Len(Append(tabs, t)) \in DOMAIN Append(tabs, t)
           /\ \A i \in DOMAIN Append(tabs, t) :
                 \/ i \in DOMAIN tabs /\ Append(tabs, t)[i] = tabs[i]
                 \/ i = Len(Append(tabs, t)) /\ Append(tabs, t)[i] = t
<1>1. PICK n \in Nat : n = Len(tabs) /\ DOMAIN tabs = 1 .. n
    OBVIOUS
<1> PICK u : u = Append(tabs, t)
    OBVIOUS
<1>2. /\ u \in Seq(Tabs) /\ Len(u) = n + 1 /\ DOMAIN u = 1 .. (n + 1) /\ u[n + 1] = t
      /\ \A i \in 1 .. n : u[i] = tabs[i]
    BY <1>1
<1>3. \A i \in 1 .. (n + 1) : i \in 1 .. n \/ i = n + 1
    OBVIOUS
<1>4. \A k \in 1 .. n : tabs[k] # t
    BY <1>1 DEF ToSet
<1>5. Distinct(u)
    BY <1>1, <1>2, <1>3, <1>4 DEF Distinct
<1>6. ToSet(u) = ToSet(tabs) \cup {t}
    <2>1. ASSUME NEW x \in ToSet(u) PROVE x \in ToSet(tabs) \cup {t}
        <3>1. PICK k \in 1 .. (n + 1) : x = u[k]
            BY <1>2 DEF ToSet
        <3> QED BY <1>1, <1>2, <1>3, <3>1 DEF ToSet
    <2>2. ASSUME NEW x \in ToSet(tabs) PROVE x \in ToSet(u)
        <3>1. PICK k \in 1 .. n : x = tabs[k]
            BY <1>1 DEF ToSet
        <3>2. k \in DOMAIN u /\ u[k] = x
            BY <1>2, <3>1
        <3> QED BY <3>2 DEF ToSet
    <2>3. t \in ToSet(u)
        <3>1. n + 1 \in DOMAIN u /\ u[n + 1] = t
            BY <1>2
        <3> QED BY <3>1 DEF ToSet
    <2> QED BY <2>1, <2>2, <2>3
<1> QED BY <1>1, <1>2, <1>3, <1>5, <1>6

-----------------------------------------------------------------------------
(* The invariant of the browser and its journal. *)

LEMMA Parts ==
    ASSUME Replayed
    PROVE  /\ strip \in [Wins -> Seq(Tabs)] /\ hist \in [Tabs -> Seq(Pages)]
           /\ at \in [Tabs -> Nat] /\ front \in [Wins -> Nat] /\ journal \in Seq(Command)
           /\ \A w \in Wins : strip[w] \in Seq(Tabs) /\ Distinct(strip[w])
           /\ \A w \in Wins : \A i \in DOMAIN strip[w] :
                  strip[w][i] \in Tabs /\ i \in Nat /\ strip[w][i] \in ToSet(strip[w])
           /\ \A w \in Wins : \A t \in ToSet(strip[w]) :
                  t \in Tabs /\ strip[w] # <<>> /\ \E i \in DOMAIN strip[w] : strip[w][i] = t
           /\ \A w \in Wins : strip[w] # <<>> => 1 \in DOMAIN strip[w]
           /\ \A v, w \in Wins : \A t \in ToSet(strip[v]) : t \in ToSet(strip[w]) => v = w
<1>1. /\ strip \in [Wins -> Seq(Tabs)] /\ hist \in [Tabs -> Seq(Pages)]
      /\ at \in [Tabs -> Nat] /\ front \in [Wins -> Nat] /\ journal \in Seq(Command)
    BY DEF Replayed, BrowserTyped
<1>2. \A w \in Wins : strip[w] \in Seq(Tabs) /\ Distinct(strip[w])
    BY <1>1 DEF Replayed, OnePlace
<1>3. ASSUME NEW w \in Wins, NEW i \in DOMAIN strip[w]
      PROVE  strip[w][i] \in Tabs /\ i \in Nat /\ strip[w][i] \in ToSet(strip[w])
    <2>1. strip[w] \in Seq(Tabs)
        BY <1>2
    <2> QED BY <2>1 DEF ToSet
<1>4. ASSUME NEW w \in Wins, NEW t \in ToSet(strip[w])
      PROVE  t \in Tabs /\ strip[w] # <<>> /\ \E i \in DOMAIN strip[w] : strip[w][i] = t
    <2>1. PICK i \in DOMAIN strip[w] : strip[w][i] = t
        BY DEF ToSet
    <2> QED BY <1>3, <2>1
<1>5. ASSUME NEW w \in Wins, strip[w] # <<>>
      PROVE  1 \in DOMAIN strip[w]
    <2>1. strip[w] \in Seq(Tabs)
        BY <1>2
    <2> QED BY <1>5, <2>1
<1>6. \A v, w \in Wins : \A t \in ToSet(strip[v]) : t \in ToSet(strip[w]) => v = w
    BY DEF Replayed, OnePlace, Apart
<1> QED BY <1>1, <1>2, <1>3, <1>4, <1>5, <1>6

\* Commands about pages, and about which tab is in front.
Aside(c) ==
    /\ \A t \in Tabs : Silent(c, Placing(t)) /\ Silent(c, Indexing(t)) /\ Silent(c, ClosingTab(t))
    /\ \A w \in Wins : Silent(c, PlacingIn(w)) /\ Silent(c, ClosingWindow(w))

\* They leave the strips as they were read.
LEMMA AsideKeeps ==
    ASSUME Replayed, UNCHANGED <<strip, used>>,
           NEW c \in Seq(Command), journal' = journal \o c, Aside(c)
    PROVE  /\ journal' \in Seq(Command) /\ OnePlace(strip)' /\ NotYet' /\ TabsRead'
           /\ WindowsGone' /\ TabsGone'
<1>1. /\ journal' \in Seq(Command)
      /\ \A class, x : Says(journal, class, x) /\ Silent(c, class) => Says(journal', class, x)
      /\ \A class : Silent(journal, class) /\ Silent(c, class) => Silent(journal', class)
    BY Adds
<1>2. OnePlace(strip)'
    BY DEF Replayed, OnePlace, Apart
<1>3. NotYet'
    BY <1>1 DEF Replayed, NotYet, Aside
<1>4. TabsRead'
    BY <1>1, Parts DEF Replayed, TabsRead, TabRead, Aside
<1>5. /\ \A w \in Wins : Silent(c, PlacingIn(w) \cup ClosingWindow(w))
      /\ \A t \in Tabs : Silent(c, Placing(t) \cup ClosingTab(t))
    BY SilentParts DEF Aside
<1>6. WindowsGone'
    <2> SUFFICES ASSUME NEW w \in Wins, strip[w] = <<>>
                 PROVE  \/ Silent(journal', PlacingIn(w))
                        \/ Says(journal', PlacingIn(w) \cup ClosingWindow(w), WindowClosed(w))
        BY DEF WindowsGone
    <2> PICK class : class = PlacingIn(w) \cup ClosingWindow(w)
        OBVIOUS
    <2>1. Silent(journal, PlacingIn(w)) \/ Says(journal, class, WindowClosed(w))
        BY DEF Replayed, WindowsGone
    <2>2. Silent(c, PlacingIn(w))
        BY DEF Aside
    <2>3. Silent(c, class)
        BY <1>5
    <2> QED BY <1>1, <2>1, <2>2, <2>3
<1>7. TabsGone'
    <2>1. \A t : IsOpen(t)' <=> IsOpen(t)
        BY DEF IsOpen
    <2> SUFFICES ASSUME NEW t \in Tabs, ~IsOpen(t)
                 PROVE  \/ Silent(journal', Placing(t))
                        \/ Says(journal', Placing(t) \cup ClosingTab(t), TabClosed(t))
                        \/ \E w \in Wins : strip'[w] = <<>>
                               /\ Says(journal', Placing(t), TabWindow(w, t))
        BY <2>1 DEF TabsGone
    <2> PICK class : class = Placing(t) \cup ClosingTab(t)
        OBVIOUS
    <2>2. \/ Silent(journal, Placing(t)) \/ Says(journal, class, TabClosed(t))
          \/ \E w \in Wins : strip[w] = <<>> /\ Says(journal, Placing(t), TabWindow(w, t))
        BY DEF Replayed, TabsGone
    <2>3. Silent(c, Placing(t))
        BY DEF Aside
    <2>4. Silent(c, class)
        BY <1>5
    <2> QED BY <1>1, <2>2, <2>3, <2>4
<1> QED BY <1>1, <1>2, <1>3, <1>4, <1>6, <1>7

\* Where no page changes and no tab appears, the pages are still read.
LEMMA PagesKept ==
    ASSUME Replayed, UNCHANGED <<hist, at>>, NEW c \in Seq(Command), journal' = journal \o c,
           \A t \in Tabs : Silent(c, Selecting(t)) /\ Silent(c, Recording(t)),
           \A w \in Wins : \A i \in DOMAIN strip'[w] : \E v \in Wins :
               strip'[w][i] \in ToSet(strip[v])
    PROVE  PagesRead'
<1> SUFFICES ASSUME NEW w \in Wins, NEW i \in DOMAIN strip'[w]
             PROVE  PageRead(strip[w][i])'
    BY DEF PagesRead
<1>1. \A class, x : Says(journal, class, x) /\ Silent(c, class) => Says(journal', class, x)
    BY Adds
<1> PICK t : t = strip'[w][i]
    OBVIOUS
<1>2. PICK v \in Wins : t \in ToSet(strip[v])
    OBVIOUS
<1>3. PICK k \in DOMAIN strip[v] : t = strip[v][k]
    BY <1>2 DEF ToSet
<1>4. t \in Tabs /\ PageRead(t)
    BY <1>3, Parts DEF Replayed, PagesRead
<1>5. \A k2 : Silent(c, RecordingAt(t, k2))
    BY <1>4, RecordingParts
<1>6. PageRead(t)'
    BY <1>1, <1>4, <1>5 DEF PageRead
<1> QED BY <1>6 DEF PageRead

\* And so are the windows that are left alone.
LEMMA WindowKept ==
    ASSUME Replayed, NEW c \in Seq(Command), journal' = journal \o c, NEW w \in Wins,
           strip'[w] = strip[w], front'[w] = front[w], strip[w] # <<>>,
           Silent(c, Fronting(w)), Silent(c, ClosingWindow(w))
    PROVE  WindowRead(w)'
<1>1. /\ \A class, x : Says(journal, class, x) /\ Silent(c, class) => Says(journal', class, x)
      /\ \A class : Silent(journal, class) /\ Silent(c, class) => Silent(journal', class)
    BY Adds
<1>2. WindowRead(w)
    BY DEF Replayed, WindowsRead
<1> QED BY <1>1, <1>2 DEF WindowRead

LEMMA BrowserStarts == BrowserInit => Replayed
<1> SUFFICES ASSUME BrowserInit PROVE Replayed
    OBVIOUS
<1> USE DEF BrowserInit
<1>1. BrowserTyped
    BY DEF BrowserTyped
<1>2. \A w \in Wins : strip[w] = <<>> /\ DOMAIN strip[w] = {} /\ ToSet(strip[w]) = {}
    BY DEF ToSet
<1>3. \A class : Silent(journal, class)
    BY DEF Silent
<1>4. OnePlace(strip)
    BY <1>2 DEF OnePlace, Distinct, Apart
<1>5. NotYet
    BY <1>2, <1>3 DEF NotYet
<1>6. TabsRead /\ PagesRead /\ WindowsRead
    BY <1>2 DEF TabsRead, PagesRead, WindowsRead
<1>7. WindowsGone /\ TabsGone
    BY <1>3 DEF WindowsGone, TabsGone
<1> QED BY <1>1, <1>4, <1>5, <1>6, <1>7 DEF Replayed

LEMMA BrowserRests == Replayed /\ UNCHANGED browserVars => Replayed'
<1> SUFFICES ASSUME Replayed, UNCHANGED browserVars PROVE Replayed'
    OBVIOUS
<1> USE DEF browserVars
<1>1. BrowserTyped' /\ OnePlace(strip)' /\ NotYet'
    BY DEF Replayed, BrowserTyped, OnePlace, Apart, NotYet
<1>2. TabsRead' /\ PagesRead' /\ WindowsRead'
    BY DEF Replayed, TabsRead, PagesRead, WindowsRead, TabRead, PageRead, WindowRead
<1>3. WindowsGone' /\ TabsGone'
    BY DEF Replayed, WindowsGone, TabsGone, IsOpen
<1> QED BY <1>1, <1>2, <1>3 DEF Replayed

\* A tab's home.
LEMMA HomeFacts ==
    ASSUME NEW t, IsOpen(t)
    PROVE  Home(t) \in Wins /\ t \in ToSet(strip[Home(t)])
BY DEF IsOpen, Home

LEMMA NavigateReplayed ==
    ASSUME Replayed, NEW t \in Tabs, NEW page \in Pages, Navigate(t, page)
    PROVE  Replayed'
<1>1. PICK w \in Wins : t \in ToSet(strip[w])
    BY DEF Navigate, IsOpen
<1>2. PageRead(t)
    <2>1. PICK i \in DOMAIN strip[w] : strip[w][i] = t
        BY <1>1 DEF ToSet
    <2> QED BY <2>1 DEF Replayed, PagesRead
<1>3. PICK a \in Nat : a = at[t]
    BY Parts
<1>4. hist[t] \in Seq(Pages) /\ a \in DOMAIN hist[t] /\ a \in 1 .. Len(hist[t])
    BY <1>2, <1>3, Parts DEF PageRead
<1>5. PICK h : h = Append(SubSeq(hist[t], 1, a), page)
    OBVIOUS
<1>6. /\ h \in Seq(Pages) /\ DOMAIN h = 1 .. (a + 1) /\ h[a + 1] = page
      /\ \A k \in 1 .. a : h[k] = hist[t][k]
    <2>1. PICK g : g = SubSeq(hist[t], 1, a)
        OBVIOUS
    <2>2. g = [k \in 1 .. a |-> hist[t][k]]
        BY <1>4, <2>1
    <2>3. g \in Seq(Pages) /\ Len(g) = a /\ \A k \in 1 .. a : g[k] = hist[t][k]
        BY <1>4, <2>2
    <2>4. h = Append(g, page)
        BY <1>5, <2>1
    <2> QED BY <2>3, <2>4
<1> PICK c : c = <<Navigation(t, a + 1, page), SelectedEntry(t, a + 1)>>
    OBVIOUS
<1>7. /\ hist' = [hist EXCEPT ![t] = h] /\ at' = [at EXCEPT ![t] = a + 1]
      /\ journal' = journal \o c /\ UNCHANGED <<strip, front, used>>
    <2>1. at' = [at EXCEPT ![t] = a + 1] /\ at'[t] = a + 1
        BY <1>3, Parts DEF Navigate
    <2> QED BY <1>3, <1>5, <2>1, Parts DEF Navigate, Write
<1>8. Navigation(t, a + 1, page) \in Command /\ SelectedEntry(t, a + 1) \in Command
    BY NavigationKind, SelectedEntryKind
<1>9. c \in Seq(Command)
    BY <1>8, TwoCommands
<1>10. /\ Aside(c)
       /\ \A v \in Wins : Silent(c, Fronting(v)) /\ Silent(c, ClosingWindow(v))
       /\ \A s \in Tabs \ {t} : Silent(c, Selecting(s)) /\ Silent(c, Recording(s))
       /\ \A k \in Nat \ {a + 1} : Silent(c, RecordingAt(t, k))
       /\ Says(c, Selecting(t), SelectedEntry(t, a + 1))
       /\ Says(c, RecordingAt(t, a + 1), Navigation(t, a + 1, page))
    <2>1. \A class : Silent(c, class) <=> /\ Navigation(t, a + 1, page) \notin class
                                          /\ SelectedEntry(t, a + 1) \notin class
        BY <1>8, TwoCommands
    <2>2. Says(c, Selecting(t), SelectedEntry(t, a + 1))
        BY <1>8, TwoCommands
    <2>3. Says(c, RecordingAt(t, a + 1), Navigation(t, a + 1, page))
        <3>1. SelectedEntry(t, a + 1) \notin RecordingAt(t, a + 1)
            BY SelectedEntryKind
        <3> QED BY <1>8, <3>1, TwoCommands
    <2>4. Aside(c)
        BY <2>1, NavigationKind, SelectedEntryKind DEF Aside
    <2>5. \A v \in Wins : Silent(c, Fronting(v)) /\ Silent(c, ClosingWindow(v))
        BY <2>1, NavigationKind, SelectedEntryKind
    <2>6. \A s \in Tabs \ {t} : Silent(c, Selecting(s)) /\ Silent(c, Recording(s))
        BY <2>1, NavigationKind, SelectedEntryKind
    <2>7. \A k \in Nat \ {a + 1} : Silent(c, RecordingAt(t, k))
        BY <2>1, NavigationKind, SelectedEntryKind
    <2> QED BY <2>2, <2>3, <2>4, <2>5, <2>6, <2>7
<1>11. /\ journal' \in Seq(Command)
       /\ \A class, x : Says(c, class, x) => Says(journal', class, x)
       /\ \A class, x : Says(journal, class, x) /\ Silent(c, class) => Says(journal', class, x)
    BY <1>7, <1>9, Adds
<1>12. OnePlace(strip)' /\ NotYet' /\ TabsRead' /\ WindowsGone' /\ TabsGone'
    BY <1>7, <1>9, <1>10, AsideKeeps
<1>13. BrowserTyped'
    <2>1. hist' \in [Tabs -> Seq(Pages)] /\ at' \in [Tabs -> Nat]
        BY <1>6, <1>7, Parts
    <2> QED BY <1>7, <1>11, <2>1, Parts DEF BrowserTyped
<1>14. WindowsRead'
    BY <1>7, <1>9, <1>10, WindowKept DEF WindowsRead
<1>15. PageRead(t)'
    <2>1. hist'[t] = h /\ at'[t] = a + 1
        BY <1>7, Parts
    <2>2. at'[t] \in DOMAIN hist'[t]
        BY <1>6, <2>1
    <2>3. Says(journal', Selecting(t), SelectedEntry(t, at'[t]))
        BY <1>10, <1>11, <2>1
    <2>4. ASSUME NEW k \in DOMAIN hist'[t]
          PROVE  Says(journal', RecordingAt(t, k), Navigation(t, k, hist'[t][k]))
        <3>1. k \in 1 .. a \/ k = a + 1
            BY <1>6, <2>1
        <3>2. CASE k = a + 1
            BY <1>6, <1>10, <1>11, <2>1, <3>2
        <3>3. CASE k \in 1 .. a
            <4>1. k \in DOMAIN hist[t] /\ k \in Nat \ {a + 1}
                BY <1>4, <3>3
            <4>2. Says(journal, RecordingAt(t, k), Navigation(t, k, hist[t][k]))
                BY <1>2, <4>1 DEF PageRead
            <4>3. hist'[t][k] = hist[t][k]
                BY <1>6, <2>1, <3>3
            <4> QED BY <1>10, <1>11, <4>1, <4>2, <4>3
        <3> QED BY <3>1, <3>2, <3>3
    <2> QED BY <2>2, <2>3, <2>4 DEF PageRead
<1>16. ASSUME NEW s \in Tabs \ {t}, PageRead(s)
       PROVE  PageRead(s)'
    <2>1. hist'[s] = hist[s] /\ at'[s] = at[s]
        BY <1>7, Parts
    <2>2. \A k : Silent(c, RecordingAt(s, k))
        BY <1>10, RecordingParts
    <2> QED BY <1>10, <1>11, <1>16, <2>1, <2>2 DEF PageRead
<1>17. PagesRead'
    <2> SUFFICES ASSUME NEW v \in Wins, NEW i \in DOMAIN strip[v]
                 PROVE  PageRead(strip[v][i])'
        BY <1>7 DEF PagesRead
    <2>1. PICK s \in Tabs : s = strip[v][i] /\ PageRead(s)
        BY Parts DEF Replayed, PagesRead
    <2>2. PageRead(s)'
        BY <1>15, <1>16, <2>1
    <2>3. strip'[v][i] = s
        BY <1>7, <2>1
    <2> QED BY <2>2, <2>3 DEF PageRead
<1> QED BY <1>12, <1>13, <1>14, <1>17 DEF Replayed

LEMMA GoToReplayed ==
    ASSUME Replayed, NEW t \in Tabs, NEW a \in DOMAIN hist[t], GoTo(t, a)
    PROVE  Replayed'
<1>1. a \in Nat
    <2>1. hist[t] \in Seq(Pages)
        BY Parts
    <2> QED BY <2>1
<1> PICK c : c = <<SelectedEntry(t, a)>>
    OBVIOUS
<1>2. /\ hist' = hist /\ at' = [at EXCEPT ![t] = a]
      /\ journal' = journal \o c /\ UNCHANGED <<strip, front, used>>
    BY DEF GoTo, Write
<1>3. SelectedEntry(t, a) \in Command
    BY <1>1, SelectedEntryKind
<1>4. c \in Seq(Command)
    BY <1>3, OneCommand
<1>5. /\ Aside(c)
      /\ \A v \in Wins : Silent(c, Fronting(v)) /\ Silent(c, ClosingWindow(v))
      /\ \A s \in Tabs : Silent(c, Recording(s)) /\ (s # t => Silent(c, Selecting(s)))
      /\ Says(c, Selecting(t), SelectedEntry(t, a))
    <2>1. \A class : Silent(c, class) <=> SelectedEntry(t, a) \notin class
        BY <1>3, OneCommand
    <2>2. Says(c, Selecting(t), SelectedEntry(t, a))
        BY <1>3, OneCommand
    <2>3. Aside(c)
        BY <1>1, <2>1, SelectedEntryKind DEF Aside
    <2>4. \A v \in Wins : Silent(c, Fronting(v)) /\ Silent(c, ClosingWindow(v))
        BY <1>1, <2>1, SelectedEntryKind
    <2>5. \A s \in Tabs : Silent(c, Recording(s)) /\ (s # t => Silent(c, Selecting(s)))
        BY <1>1, <2>1, SelectedEntryKind
    <2> QED BY <2>2, <2>3, <2>4, <2>5
<1>6. /\ journal' \in Seq(Command)
      /\ \A class, x : Says(c, class, x) => Says(journal', class, x)
      /\ \A class, x : Says(journal, class, x) /\ Silent(c, class) => Says(journal', class, x)
    BY <1>2, <1>4, Adds
<1>7. OnePlace(strip)' /\ NotYet' /\ TabsRead' /\ WindowsGone' /\ TabsGone'
    BY <1>2, <1>4, <1>5, AsideKeeps
<1>8. BrowserTyped'
    BY <1>1, <1>2, <1>6, Parts DEF BrowserTyped
<1>9. WindowsRead'
    BY <1>2, <1>4, <1>5, WindowKept DEF WindowsRead
<1>10. ASSUME NEW s \in Tabs, PageRead(s)
       PROVE  PageRead(s)'
    <2>1. at'[s] = IF s = t THEN a ELSE at[s]
        BY <1>2, Parts
    <2>2. at'[s] \in DOMAIN hist[s]
        BY <1>10, <2>1 DEF PageRead
    <2>3. Says(journal', Selecting(s), SelectedEntry(s, at'[s]))
        BY <1>5, <1>6, <1>10, <2>1 DEF PageRead
    <2>4. \A k : Silent(c, RecordingAt(s, k))
        BY <1>5, RecordingParts
    <2>5. \A k \in DOMAIN hist[s] :
              Says(journal', RecordingAt(s, k), Navigation(s, k, hist[s][k]))
        BY <1>6, <1>10, <2>4 DEF PageRead
    <2> QED BY <1>2, <2>2, <2>3, <2>5 DEF PageRead
<1>11. PagesRead'
    <2> SUFFICES ASSUME NEW v \in Wins, NEW i \in DOMAIN strip[v]
                 PROVE  PageRead(strip[v][i])'
        BY <1>2 DEF PagesRead
    <2>1. PICK s \in Tabs : s = strip[v][i] /\ PageRead(s)
        BY Parts DEF Replayed, PagesRead
    <2>2. PageRead(s)'
        BY <1>10, <2>1
    <2>3. strip'[v][i] = s
        BY <1>2, <2>1
    <2> QED BY <2>2, <2>3 DEF PageRead
<1> QED BY <1>7, <1>8, <1>9, <1>11 DEF Replayed

LEMMA ActivateReplayed ==
    ASSUME Replayed, NEW w \in Wins, NEW i \in DOMAIN strip[w], Activate(w, i)
    PROVE  Replayed'
<1>1. i \in Nat
    BY Parts
<1> PICK c : c = <<SelectedTab(w, i)>>
    OBVIOUS
<1>2. /\ front' = [front EXCEPT ![w] = i]
      /\ journal' = journal \o c /\ UNCHANGED <<strip, hist, at, used>>
    BY DEF Activate, Write
<1>3. SelectedTab(w, i) \in Command
    BY <1>1, SelectedTabKind
<1>4. c \in Seq(Command)
    BY <1>3, OneCommand
<1>5. /\ Aside(c)
      /\ \A v \in Wins : Silent(c, ClosingWindow(v)) /\ (v # w => Silent(c, Fronting(v)))
      /\ \A s \in Tabs : Silent(c, Selecting(s)) /\ Silent(c, Recording(s))
      /\ Says(c, Fronting(w), SelectedTab(w, i))
    <2>1. \A class : Silent(c, class) <=> SelectedTab(w, i) \notin class
        BY <1>3, OneCommand
    <2>2. Says(c, Fronting(w), SelectedTab(w, i))
        BY <1>3, OneCommand
    <2>3. Aside(c)
        BY <1>1, <2>1, SelectedTabKind DEF Aside
    <2>4. \A v \in Wins : Silent(c, ClosingWindow(v)) /\ (v # w => Silent(c, Fronting(v)))
        BY <1>1, <2>1, SelectedTabKind
    <2>5. \A s \in Tabs : Silent(c, Selecting(s)) /\ Silent(c, Recording(s))
        BY <1>1, <2>1, SelectedTabKind
    <2> QED BY <2>2, <2>3, <2>4, <2>5
<1>6. /\ journal' \in Seq(Command)
      /\ \A class, x : Says(c, class, x) => Says(journal', class, x)
      /\ \A class : Silent(journal, class) /\ Silent(c, class) => Silent(journal', class)
    BY <1>2, <1>4, Adds
<1>7. OnePlace(strip)' /\ NotYet' /\ TabsRead' /\ WindowsGone' /\ TabsGone'
    BY <1>2, <1>4, <1>5, AsideKeeps
<1>8. BrowserTyped'
    BY <1>1, <1>2, <1>6, Parts DEF BrowserTyped
<1>9. PagesRead'
    BY <1>2, <1>4, <1>5, Parts, PagesKept
<1>10. WindowsRead'
    <2> SUFFICES ASSUME NEW v \in Wins, strip[v] # <<>>
                 PROVE  WindowRead(v)'
        BY <1>2 DEF WindowsRead
    <2>1. CASE v = w
        <3>1. front'[w] = i
            BY <1>2, Parts
        <3>2. Silent(journal, ClosingWindow(w))
            BY <2>1 DEF Replayed, WindowsRead, WindowRead
        <3>3. Silent(journal', ClosingWindow(w))
            BY <1>5, <1>6, <3>2
        <3>4. Says(journal', Fronting(w), SelectedTab(w, front'[w]))
            BY <1>5, <1>6, <3>1
        <3> QED BY <1>2, <2>1, <3>1, <3>3, <3>4 DEF WindowRead
    <2>2. CASE v # w
        <3>1. front'[v] = front[v]
            BY <1>2, <2>2, Parts
        <3> QED BY <1>2, <1>4, <1>5, <2>2, <3>1, WindowKept
    <2> QED BY <2>1, <2>2
<1> QED BY <1>7, <1>8, <1>9, <1>10 DEF Replayed

LEMMA CloseWindowReplayed ==
    ASSUME Replayed, NEW w \in Wins, CloseWindow(w)
    PROVE  Replayed'
<1> PICK c : c = <<WindowClosed(w)>>
    OBVIOUS
<1>1. /\ strip[w] # <<>> /\ strip' = [strip EXCEPT ![w] = <<>>]
      /\ journal' = journal \o c /\ UNCHANGED <<hist, at, front, used>>
    BY DEF CloseWindow, Write
<1>2. strip'[w] = <<>> /\ \A v \in Wins : v # w => strip'[v] = strip[v]
    BY <1>1, Parts
<1>3. WindowClosed(w) \in Command
    BY WindowClosedKind
<1>4. c \in Seq(Command)
    BY <1>3, OneCommand
<1>5. /\ \A s \in Tabs : /\ Silent(c, Placing(s)) /\ Silent(c, Indexing(s))
                         /\ Silent(c, ClosingTab(s)) /\ Silent(c, Selecting(s))
                         /\ Silent(c, Recording(s))
      /\ \A v \in Wins : /\ Silent(c, PlacingIn(v)) /\ Silent(c, Fronting(v))
                         /\ v # w => Silent(c, ClosingWindow(v))
      /\ Says(c, PlacingIn(w) \cup ClosingWindow(w), WindowClosed(w))
    <2>1. \A class : Silent(c, class) <=> WindowClosed(w) \notin class
        BY <1>3, OneCommand
    <2>2. Says(c, PlacingIn(w) \cup ClosingWindow(w), WindowClosed(w))
        BY <1>3, OneCommand
    <2>3. \A s \in Tabs : /\ Silent(c, Placing(s)) /\ Silent(c, Indexing(s))
                          /\ Silent(c, ClosingTab(s)) /\ Silent(c, Selecting(s))
                          /\ Silent(c, Recording(s))
        BY <2>1, WindowClosedKind
    <2>4. \A v \in Wins : /\ Silent(c, PlacingIn(v)) /\ Silent(c, Fronting(v))
                          /\ v # w => Silent(c, ClosingWindow(v))
        BY <2>1, WindowClosedKind
    <2> QED BY <2>2, <2>3, <2>4
<1>6. /\ journal' \in Seq(Command)
      /\ \A class, x : Says(c, class, x) => Says(journal', class, x)
      /\ \A class, x : Says(journal, class, x) /\ Silent(c, class) => Says(journal', class, x)
      /\ \A class : Silent(journal, class) /\ Silent(c, class) => Silent(journal', class)
    BY <1>1, <1>4, Adds
<1>7. BrowserTyped'
    BY <1>1, <1>6, Parts DEF BrowserTyped
<1>8. ToSet(strip'[w]) = {} /\ DOMAIN strip'[w] = {} /\ Distinct(strip'[w])
    BY <1>2 DEF ToSet, Distinct
<1>9. OnePlace(strip)'
    <2>1. \A v \in Wins : Distinct(strip'[v])
        BY <1>2, <1>8, Parts
    <2>2. ASSUME NEW u \in Wins, NEW v \in Wins, NEW t \in ToSet(strip'[u]), t \in ToSet(strip'[v])
          PROVE  u = v
        BY <1>2, <1>8, <2>2, Parts
    <2> QED BY <2>1, <2>2 DEF OnePlace, Apart
<1>10. NotYet'
    <2>1. w \in used
        BY <1>1 DEF Replayed, NotYet
    <2>2. \A v \in Wins : strip'[v] # <<>> => v \in used /\ ToSet(strip'[v]) \subseteq used
        BY <1>2 DEF Replayed, NotYet
    <2>3. \A t \in Tabs \ used : Silent(journal', Placing(t)) /\ Silent(journal', ClosingTab(t))
        BY <1>5, <1>6 DEF Replayed, NotYet
    <2>4. \A v \in Wins \ used :
              Silent(journal', PlacingIn(v)) /\ Silent(journal', ClosingWindow(v))
        BY <1>5, <1>6, <2>1 DEF Replayed, NotYet
    <2> QED BY <1>1, <2>2, <2>3, <2>4 DEF NotYet
<1>11. TabsRead'
    <2> SUFFICES ASSUME NEW v \in Wins, NEW i \in DOMAIN strip'[v]
                 PROVE  TabRead(v, i, strip[v][i])'
        BY DEF TabsRead
    <2>1. v # w /\ strip'[v] = strip[v]
        BY <1>2, <1>8
    <2>2. TabRead(v, i, strip[v][i]) /\ strip[v][i] \in Tabs
        BY <2>1, Parts DEF Replayed, TabsRead
    <2> QED BY <1>5, <1>6, <2>1, <2>2 DEF TabRead
<1>12. PagesRead'
    <2>1. \A v \in Wins : \A i \in DOMAIN strip'[v] : \E u \in Wins :
              strip'[v][i] \in ToSet(strip[u])
        BY <1>2, <1>8, Parts
    <2> QED BY <1>1, <1>4, <1>5, <2>1, PagesKept
<1>13. WindowsRead'
    <2> SUFFICES ASSUME NEW v \in Wins, strip'[v] # <<>>
                 PROVE  WindowRead(v)'
        BY DEF WindowsRead
    <2>1. v # w /\ strip'[v] = strip[v] /\ front'[v] = front[v]
        BY <1>1, <1>2
    <2> QED BY <1>1, <1>4, <1>5, <2>1, WindowKept
<1>14. WindowsGone'
    <2> SUFFICES ASSUME NEW v \in Wins, strip'[v] = <<>>
                 PROVE  \/ Silent(journal', PlacingIn(v))
                        \/ Says(journal', PlacingIn(v) \cup ClosingWindow(v), WindowClosed(v))
        BY DEF WindowsGone
    <2>1. CASE v = w
        BY <1>5, <1>6, <2>1
    <2>2. CASE v # w
        <3>1. \/ Silent(journal, PlacingIn(v))
              \/ Says(journal, PlacingIn(v) \cup ClosingWindow(v), WindowClosed(v))
            BY <1>2, <2>2 DEF Replayed, WindowsGone
        <3>2. Silent(c, PlacingIn(v)) /\ Silent(c, PlacingIn(v) \cup ClosingWindow(v))
            BY <1>5, <2>2, SilentParts
        <3> QED BY <1>6, <3>1, <3>2
    <2> QED BY <2>1, <2>2
<1>15. TabsGone'
    <2> SUFFICES ASSUME NEW t \in Tabs, ~IsOpen(t)'
                 PROVE  \/ Silent(journal', Placing(t))
                        \/ Says(journal', Placing(t) \cup ClosingTab(t), TabClosed(t))
                        \/ \E v \in Wins : strip'[v] = <<>>
                               /\ Says(journal', Placing(t), TabWindow(v, t))
        BY DEF TabsGone
    <2>1. Silent(c, Placing(t)) /\ Silent(c, Placing(t) \cup ClosingTab(t))
        BY <1>5, SilentParts
    <2>2. CASE t \in ToSet(strip[w])
        <3>1. PICK i \in DOMAIN strip[w] : strip[w][i] = t
            BY <2>2, Parts
        <3>2. Says(journal, Placing(t), TabWindow(w, t))
            BY <3>1 DEF Replayed, TabsRead, TabRead
        <3> QED BY <1>2, <1>6, <2>1, <3>2
    <2>3. CASE t \notin ToSet(strip[w])
        <3>1. ~IsOpen(t)
            BY <1>2, <2>3 DEF IsOpen
        <3>2. \/ Silent(journal, Placing(t))
              \/ Says(journal, Placing(t) \cup ClosingTab(t), TabClosed(t))
              \/ \E v \in Wins : strip[v] = <<>> /\ Says(journal, Placing(t), TabWindow(v, t))
            BY <3>1 DEF Replayed, TabsGone
        <3> QED BY <1>1, <1>2, <1>6, <2>1, <3>2
    <2> QED BY <2>2, <2>3
<1> QED BY <1>7, <1>9, <1>10, <1>11, <1>12, <1>13, <1>14, <1>15 DEF Replayed

LEMMA OpenReplayed ==
    ASSUME Replayed, NEW w \in Wins, NEW t \in Tabs, NEW page \in Pages, Open(w, t, page)
    PROVE  Replayed'
<1>1. t \notin used /\ (strip[w] = <<>> => w \notin used)
    BY DEF Open
<1>2. \A v \in Wins : t \notin ToSet(strip[v])
    <2> SUFFICES ASSUME NEW v \in Wins, t \in ToSet(strip[v]) PROVE FALSE
        OBVIOUS
    <2>1. strip[v] # <<>>
        BY Parts
    <2> QED BY <1>1, <2>1 DEF Replayed, NotYet
<1>3. PICK r : r = Append(strip[w], t)
    OBVIOUS
<1>4. PICK n : n = Len(r)
    OBVIOUS
<1>5. /\ r \in Seq(Tabs) /\ Distinct(r) /\ ToSet(r) = ToSet(strip[w]) \cup {t} /\ n \in DOMAIN r
      /\ \A i \in DOMAIN r : (i \in DOMAIN strip[w] /\ r[i] = strip[w][i]) \/ (i = n /\ r[i] = t)
    <2>1. strip[w] \in Seq(Tabs) /\ Distinct(strip[w])
        BY Parts
    <2> QED BY <1>2, <1>3, <1>4, <2>1, AppendFacts
<1>6. n \in Nat /\ r # <<>> /\ DOMAIN r \subseteq Nat
    BY <1>5
<1>23. PICK c : c = <<TabWindow(w, t), TabIndex(t, n), Navigation(t, 1, page),
                      SelectedEntry(t, 1), SelectedTab(w, n)>>
    OBVIOUS
<1>7. /\ strip' = [strip EXCEPT ![w] = r] /\ strip'[w] = r
      /\ hist' = [hist EXCEPT ![t] = <<page>>] /\ at' = [at EXCEPT ![t] = 1]
      /\ front' = [front EXCEPT ![w] = n] /\ used' = used \cup {t, w}
      /\ journal' = journal \o c
    <2>1. strip' = [strip EXCEPT ![w] = r] /\ strip'[w] = r
        BY <1>3, Parts DEF Open
    <2>2. front' = [front EXCEPT ![w] = n] /\ front'[w] = n
        BY <1>4, <2>1, Parts DEF Open
    <2> QED BY <1>23, <2>1, <2>2 DEF Open, Write
<1>8. /\ \A v \in Wins : v # w => strip'[v] = strip[v] /\ front'[v] = front[v]
      /\ \A s \in Tabs : s # t => hist'[s] = hist[s] /\ at'[s] = at[s]
      /\ front'[w] = n /\ hist'[t] = <<page>> /\ at'[t] = 1
    BY <1>7, Parts
<1>9. /\ TabWindow(w, t) \in Command /\ TabIndex(t, n) \in Command
      /\ Navigation(t, 1, page) \in Command /\ SelectedEntry(t, 1) \in Command
      /\ SelectedTab(w, n) \in Command
    BY <1>6, TabWindowKind, TabIndexKind, NavigationKind, SelectedEntryKind, SelectedTabKind
<1>24. FiveSay(c, TabWindow(w, t), TabIndex(t, n), Navigation(t, 1, page),
               SelectedEntry(t, 1), SelectedTab(w, n))
    BY <1>9, <1>23, FiveCommands
<1>10. c \in Seq(Command)
    BY <1>24 DEF FiveSay
<1>11. /\ \A s \in Tabs : s # t => /\ Silent(c, Placing(s)) /\ Silent(c, Indexing(s))
                                   /\ Silent(c, Selecting(s)) /\ Silent(c, Recording(s))
       /\ \A s \in Tabs : Silent(c, ClosingTab(s))
       /\ \A v \in Wins : Silent(c, ClosingWindow(v))
       /\ \A v \in Wins : v # w => Silent(c, PlacingIn(v)) /\ Silent(c, Fronting(v))
    <2>1. \A class : Silent(c, class) <=>
              /\ TabWindow(w, t) \notin class /\ TabIndex(t, n) \notin class
              /\ Navigation(t, 1, page) \notin class /\ SelectedEntry(t, 1) \notin class
              /\ SelectedTab(w, n) \notin class
        BY <1>24 DEF FiveSay
    <2>2. ASSUME NEW s \in Tabs, s # t
          PROVE  /\ Silent(c, Placing(s)) /\ Silent(c, Indexing(s))
                 /\ Silent(c, Selecting(s)) /\ Silent(c, Recording(s))
        BY <1>6, <2>1, <2>2, TabWindowKind, TabIndexKind, NavigationKind, SelectedEntryKind,
           SelectedTabKind
    <2>3. \A s \in Tabs : Silent(c, ClosingTab(s))
        BY <1>6, <2>1, TabWindowKind, TabIndexKind, NavigationKind, SelectedEntryKind,
           SelectedTabKind
    <2>4. \A v \in Wins : Silent(c, ClosingWindow(v))
        BY <1>6, <2>1, TabWindowKind, TabIndexKind, NavigationKind, SelectedEntryKind,
           SelectedTabKind
    <2>5. \A v \in Wins : v # w => Silent(c, PlacingIn(v)) /\ Silent(c, Fronting(v))
        BY <1>6, <2>1, TabWindowKind, TabIndexKind, NavigationKind, SelectedEntryKind,
           SelectedTabKind
    <2> QED BY <2>2, <2>3, <2>4, <2>5
<1>12. /\ Says(c, Placing(t), TabWindow(w, t)) /\ Says(c, Indexing(t), TabIndex(t, n))
       /\ Says(c, RecordingAt(t, 1), Navigation(t, 1, page))
       /\ Says(c, Selecting(t), SelectedEntry(t, 1)) /\ Says(c, Fronting(w), SelectedTab(w, n))
    <2>1. Says(c, Fronting(w), SelectedTab(w, n))
        BY <1>24 DEF FiveSay
    <2>2. Says(c, Selecting(t), SelectedEntry(t, 1))
        <3>1. SelectedTab(w, n) \notin Selecting(t)
            BY <1>6, SelectedTabKind
        <3> QED BY <1>24, <3>1 DEF FiveSay
    <2>3. Says(c, RecordingAt(t, 1), Navigation(t, 1, page))
        <3>1. SelectedTab(w, n) \notin RecordingAt(t, 1)
                  /\ SelectedEntry(t, 1) \notin RecordingAt(t, 1)
            BY <1>6, SelectedTabKind, SelectedEntryKind
        <3> QED BY <1>24, <3>1 DEF FiveSay
    <2>4. Says(c, Indexing(t), TabIndex(t, n))
        <3>1. /\ SelectedTab(w, n) \notin Indexing(t) /\ SelectedEntry(t, 1) \notin Indexing(t)
              /\ Navigation(t, 1, page) \notin Indexing(t)
            BY <1>6, SelectedTabKind, SelectedEntryKind, NavigationKind
        <3> QED BY <1>24, <3>1 DEF FiveSay
    <2>5. Says(c, Placing(t), TabWindow(w, t))
        <3>1. /\ SelectedTab(w, n) \notin Placing(t) /\ SelectedEntry(t, 1) \notin Placing(t)
              /\ Navigation(t, 1, page) \notin Placing(t) /\ TabIndex(t, n) \notin Placing(t)
            BY <1>6, SelectedTabKind, SelectedEntryKind, NavigationKind, TabIndexKind
        <3> QED BY <1>24, <3>1 DEF FiveSay
    <2> QED BY <2>1, <2>2, <2>3, <2>4, <2>5
<1>13. /\ journal' \in Seq(Command)
       /\ \A class, x : Says(c, class, x) => Says(journal', class, x)
       /\ \A class, x : Says(journal, class, x) /\ Silent(c, class) => Says(journal', class, x)
       /\ \A class : Silent(journal, class) /\ Silent(c, class) => Silent(journal', class)
    BY <1>7, <1>10, Adds
<1>14. BrowserTyped'
    <2>1. <<page>> \in Seq(Pages)
        OBVIOUS
    <2> QED BY <1>5, <1>6, <1>7, <1>13, <2>1, Parts DEF BrowserTyped
<1>15. OnePlace(strip)'
    <2>1. \A v \in Wins : Distinct(strip'[v])
        BY <1>5, <1>7, <1>8, Parts
    <2>2. ASSUME NEW u \in Wins, NEW v \in Wins, NEW s \in ToSet(strip'[u]), s \in ToSet(strip'[v])
          PROVE  u = v
        <3>1. \A y \in Wins : s \in ToSet(strip'[y]) => s \in ToSet(strip[y]) \/ (y = w /\ s = t)
            BY <1>5, <1>7, <1>8
        <3>2. s # t => s \in ToSet(strip[u]) /\ s \in ToSet(strip[v])
            BY <2>2, <3>1
        <3>3. s # t => u = v
            BY <3>2 DEF Replayed, OnePlace, Apart
        <3> QED BY <1>2, <2>2, <3>1, <3>3
    <2> QED BY <2>1, <2>2 DEF OnePlace, Apart
<1>16. NotYet'
    <2>1. \A v \in Wins : strip'[v] # <<>> => v \in used' /\ ToSet(strip'[v]) \subseteq used'
        <3>1. ToSet(strip[w]) \subseteq used
            <4>1. strip[w] = <<>> => ToSet(strip[w]) = {}
                BY DEF ToSet
            <4> QED BY <4>1 DEF Replayed, NotYet
        <3> QED BY <1>5, <1>7, <1>8, <3>1 DEF Replayed, NotYet
    <2>2. \A s \in Tabs \ used' : Silent(journal', Placing(s)) /\ Silent(journal', ClosingTab(s))
        BY <1>7, <1>11, <1>13 DEF Replayed, NotYet
    <2>3. \A v \in Wins \ used' :
              Silent(journal', PlacingIn(v)) /\ Silent(journal', ClosingWindow(v))
        BY <1>7, <1>11, <1>13 DEF Replayed, NotYet
    <2> QED BY <2>1, <2>2, <2>3 DEF NotYet
<1>17. ASSUME NEW v \in Wins, NEW i \in DOMAIN strip[v]
       PROVE  strip[v][i] # t /\ strip[v][i] \in Tabs
    BY <1>2, Parts
<1>18. TabsRead'
    <2> SUFFICES ASSUME NEW v \in Wins, NEW i \in DOMAIN strip'[v]
                 PROVE  TabRead(v, i, strip[v][i])'
        BY DEF TabsRead
    <2>1. CASE v = w /\ i = n /\ r[i] = t
        <3>1. Silent(journal, ClosingTab(t))
            BY <1>1 DEF Replayed, NotYet
        <3> QED BY <1>7, <1>11, <1>12, <1>13, <2>1, <3>1 DEF TabRead
    <2>2. CASE i \in DOMAIN strip[v] /\ strip'[v][i] = strip[v][i]
        <3>1. TabRead(v, i, strip[v][i])
            BY <2>2 DEF Replayed, TabsRead
        <3> QED BY <1>11, <1>13, <1>17, <2>2, <3>1 DEF TabRead
    <2> QED BY <1>5, <1>7, <1>8, <2>1, <2>2
<1>19. PagesRead'
    <2> SUFFICES ASSUME NEW v \in Wins, NEW i \in DOMAIN strip'[v]
                 PROVE  PageRead(strip[v][i])'
        BY DEF PagesRead
    <2>1. CASE v = w /\ i = n /\ r[i] = t
        <3>1. DOMAIN <<page>> = {1} /\ <<page>>[1] = page
            OBVIOUS
        <3>2. /\ at'[t] \in DOMAIN hist'[t]
              /\ Says(journal', Selecting(t), SelectedEntry(t, at'[t]))
            BY <1>8, <1>12, <1>13, <3>1
        <3>3. \A k \in DOMAIN hist'[t] :
                  Says(journal', RecordingAt(t, k), Navigation(t, k, hist'[t][k]))
            BY <1>8, <1>12, <1>13, <3>1
        <3> QED BY <1>7, <2>1, <3>2, <3>3 DEF PageRead
    <2>2. CASE i \in DOMAIN strip[v] /\ strip'[v][i] = strip[v][i]
        <3>1. PICK s \in Tabs : s = strip[v][i] /\ s # t /\ PageRead(s)
            BY <1>17, <2>2 DEF Replayed, PagesRead
        <3>2. hist'[s] = hist[s] /\ at'[s] = at[s]
            BY <1>8, <3>1
        <3>3. \A k : Silent(c, RecordingAt(s, k))
            BY <1>11, <3>1, RecordingParts
        <3>4. PageRead(s)'
            BY <1>11, <1>13, <3>1, <3>2, <3>3 DEF PageRead
        <3> QED BY <2>2, <3>1, <3>4 DEF PageRead
    <2> QED BY <1>5, <1>7, <1>8, <2>1, <2>2
<1>20. WindowsRead'
    <2> SUFFICES ASSUME NEW v \in Wins, strip'[v] # <<>>
                 PROVE  WindowRead(v)'
        BY DEF WindowsRead
    <2>1. CASE v = w
        <3>1. Silent(journal, ClosingWindow(w))
            BY <1>1 DEF Replayed, NotYet, WindowsRead, WindowRead
        <3> QED BY <1>5, <1>7, <1>8, <1>11, <1>12, <1>13, <2>1, <3>1 DEF WindowRead
    <2>2. CASE v # w
        BY <1>7, <1>8, <1>10, <1>11, <2>2, WindowKept
    <2> QED BY <2>1, <2>2
<1>21. WindowsGone'
    <2> SUFFICES ASSUME NEW v \in Wins, strip'[v] = <<>>
                 PROVE  \/ Silent(journal', PlacingIn(v))
                        \/ Says(journal', PlacingIn(v) \cup ClosingWindow(v), WindowClosed(v))
        BY DEF WindowsGone
    <2>1. v # w /\ strip[v] = <<>>
        BY <1>6, <1>7, <1>8
    <2>2. \/ Silent(journal, PlacingIn(v))
          \/ Says(journal, PlacingIn(v) \cup ClosingWindow(v), WindowClosed(v))
        BY <2>1 DEF Replayed, WindowsGone
    <2>3. Silent(c, PlacingIn(v)) /\ Silent(c, PlacingIn(v) \cup ClosingWindow(v))
        BY <1>11, <2>1, SilentParts
    <2> QED BY <1>13, <2>2, <2>3
<1>22. TabsGone'
    <2> SUFFICES ASSUME NEW s \in Tabs, ~IsOpen(s)'
                 PROVE  \/ Silent(journal', Placing(s))
                        \/ Says(journal', Placing(s) \cup ClosingTab(s), TabClosed(s))
                        \/ \E v \in Wins : strip'[v] = <<>>
                               /\ Says(journal', Placing(s), TabWindow(v, s))
        BY DEF TabsGone
    <2>1. \A v \in Wins : s \notin ToSet(strip'[v])
        BY DEF IsOpen
    <2>2. s # t /\ ~IsOpen(s)
        BY <1>5, <1>7, <1>8, <2>1 DEF IsOpen
    <2>3. \/ Silent(journal, Placing(s))
          \/ Says(journal, Placing(s) \cup ClosingTab(s), TabClosed(s))
          \/ \E v \in Wins : strip[v] = <<>> /\ Says(journal, Placing(s), TabWindow(v, s))
        BY <2>2 DEF Replayed, TabsGone
    <2>4. Silent(c, Placing(s)) /\ Silent(c, Placing(s) \cup ClosingTab(s))
        BY <1>11, <2>2, SilentParts
    <2>5. ASSUME NEW v \in Wins, strip[v] = <<>>, Says(journal, Placing(s), TabWindow(v, s))
          PROVE  v # w
        <3>1. TabWindow(v, s) \in PlacingIn(v)
            BY TabWindowKind
        <3>2. ~Silent(journal, PlacingIn(v))
            BY <2>5, <3>1 DEF Says, Silent
        <3>3. v \in used
            BY <3>2 DEF Replayed, NotYet
        <3> QED BY <1>1, <2>5, <3>3
    <2> QED BY <1>8, <1>13, <2>3, <2>4, <2>5
<1> QED BY <1>14, <1>15, <1>16, <1>18, <1>19, <1>20, <1>21, <1>22 DEF Replayed

LEMMA CloseTabReplayed ==
    ASSUME Replayed, NEW t \in Tabs, CloseTab(t)
    PROVE  Replayed'
<1>1. PICK w \in Wins : w = Home(t) /\ t \in ToSet(strip[w])
    BY HomeFacts DEF CloseTab
<1>2. PICK r : r = Without(strip[w], t)
    OBVIOUS
<1>3. /\ r \in Seq(Tabs) /\ Distinct(r) /\ ToSet(r) = ToSet(strip[w]) \ {t}
      /\ 1 \in DOMAIN r /\ r # <<>>
    <2>1. strip[w] \in Seq(Tabs) /\ Distinct(strip[w])
        BY Parts
    <2>2. Len(strip[w]) > 1
        BY <1>1 DEF CloseTab
    <2>3. /\ r \in Seq(Tabs) /\ Distinct(r) /\ ToSet(r) = ToSet(strip[w]) \ {t}
          /\ Len(r) = Len(strip[w]) - 1
        BY <1>1, <1>2, <2>1, WithoutFacts
    <2>4. Len(r) >= 1
        BY <2>1, <2>2, <2>3
    <2> QED BY <2>3, <2>4
<1> PICK b : b = <<TabClosed(t)>>
    OBVIOUS
<1> PICK x : x = Indices(r)
    OBVIOUS
<1> PICK e : e = <<SelectedTab(w, 1)>>
    OBVIOUS
<1> PICK c : c = (b \o x) \o e
    OBVIOUS
<1>4. /\ strip' = [strip EXCEPT ![w] = r] /\ strip'[w] = r
      /\ front' = [front EXCEPT ![w] = 1] /\ journal' = journal \o c
      /\ UNCHANGED <<hist, at, used>>
    <2>1. strip' = [strip EXCEPT ![w] = r] /\ strip'[w] = r
        BY <1>1, <1>2, Parts DEF CloseTab
    <2> QED BY <1>1, <2>1 DEF CloseTab, Write
<1>5. /\ \A v \in Wins : v # w => strip'[v] = strip[v] /\ front'[v] = front[v]
      /\ front'[w] = 1
    BY <1>4, Parts
<1>6. TabClosed(t) \in Command /\ SelectedTab(w, 1) \in Command
    BY TabClosedKind, SelectedTabKind
<1>7. b \in Seq(Command) /\ e \in Seq(Command) /\ x \in Seq(Command)
    BY <1>3, <1>6, OneCommand, IndicesFacts
<1>8. b \o x \in Seq(Command) /\ c \in Seq(Command)
    BY <1>7, Appended
<1>9. /\ \A class : Silent(b, class) /\ Silent(x, class) /\ Silent(e, class) => Silent(c, class)
      /\ \A class, y : Says(b, class, y) /\ Silent(x, class) /\ Silent(e, class)
             => Says(c, class, y)
      /\ \A class, y : Says(x, class, y) /\ Silent(e, class) => Says(c, class, y)
      /\ \A class, y : Says(e, class, y) => Says(c, class, y)
    BY <1>7, <1>8, Appended
<1>10. /\ \A class : Silent(b, class) <=> TabClosed(t) \notin class
       /\ \A class : Silent(e, class) <=> SelectedTab(w, 1) \notin class
    BY <1>6, OneCommand
<1>11. /\ \A s \in Tabs : /\ Silent(c, Placing(s)) /\ Silent(c, Selecting(s))
                          /\ Silent(c, Recording(s)) /\ (s # t => Silent(c, ClosingTab(s)))
                          /\ s \notin ToSet(r) => Silent(c, Indexing(s))
       /\ \A v \in Wins : /\ Silent(c, PlacingIn(v)) /\ Silent(c, ClosingWindow(v))
                          /\ v # w => Silent(c, Fronting(v))
    <2>1. ASSUME NEW s \in Tabs
          PROVE  /\ Silent(c, Placing(s)) /\ Silent(c, Selecting(s))
                 /\ Silent(c, Recording(s)) /\ (s # t => Silent(c, ClosingTab(s)))
                 /\ s \notin ToSet(r) => Silent(c, Indexing(s))
        <3>1. /\ Silent(x, Placing(s)) /\ Silent(x, Selecting(s))
              /\ Silent(x, Recording(s)) /\ Silent(x, ClosingTab(s))
              /\ s \notin ToSet(r) => Silent(x, Indexing(s))
            BY <1>3, IndicesFacts
        <3> QED BY <1>9, <1>10, <3>1, TabClosedKind, SelectedTabKind
    <2>2. ASSUME NEW v \in Wins
          PROVE  /\ Silent(c, PlacingIn(v)) /\ Silent(c, ClosingWindow(v))
                 /\ v # w => Silent(c, Fronting(v))
        <3>1. Silent(x, PlacingIn(v)) /\ Silent(x, ClosingWindow(v)) /\ Silent(x, Fronting(v))
            BY <1>3, IndicesFacts
        <3> QED BY <1>9, <1>10, <3>1, TabClosedKind, SelectedTabKind
    <2> QED BY <2>1, <2>2
<1>12. /\ Says(c, Placing(t) \cup ClosingTab(t), TabClosed(t))
       /\ \A i \in DOMAIN r : Says(c, Indexing(r[i]), TabIndex(r[i], i))
       /\ Says(c, Fronting(w), SelectedTab(w, 1))
    <2>1. Says(c, Placing(t) \cup ClosingTab(t), TabClosed(t))
        <3>1. Says(b, Placing(t) \cup ClosingTab(t), TabClosed(t))
            BY <1>6, OneCommand
        <3>2. Silent(x, Placing(t) \cup ClosingTab(t))
            BY <1>3, IndicesFacts, SilentParts
        <3>3. Silent(e, Placing(t) \cup ClosingTab(t))
            BY <1>10, SelectedTabKind
        <3> QED BY <1>9, <3>1, <3>2, <3>3
    <2>2. ASSUME NEW i \in DOMAIN r
          PROVE  Says(c, Indexing(r[i]), TabIndex(r[i], i))
        <3>1. Says(x, Indexing(r[i]), TabIndex(r[i], i))
            BY <1>3, IndicesFacts
        <3>2. r[i] \in Tabs
            BY <1>3
        <3>3. Silent(e, Indexing(r[i]))
            BY <1>10, <3>2, SelectedTabKind
        <3> QED BY <1>9, <3>1, <3>3
    <2>3. Says(c, Fronting(w), SelectedTab(w, 1))
        BY <1>6, <1>9, OneCommand
    <2> QED BY <2>1, <2>2, <2>3
<1>13. /\ journal' \in Seq(Command)
       /\ \A class, y : Says(c, class, y) => Says(journal', class, y)
       /\ \A class, y : Says(journal, class, y) /\ Silent(c, class) => Says(journal', class, y)
       /\ \A class : Silent(journal, class) /\ Silent(c, class) => Silent(journal', class)
    BY <1>4, <1>8, Adds
<1>14. BrowserTyped'
    BY <1>3, <1>4, <1>13, Parts DEF BrowserTyped
<1>15. OnePlace(strip)'
    <2>1. \A v \in Wins : Distinct(strip'[v])
        BY <1>3, <1>4, <1>5, Parts
    <2>2. ASSUME NEW u \in Wins, NEW v \in Wins, NEW s \in ToSet(strip'[u]), s \in ToSet(strip'[v])
          PROVE  u = v
        <3>1. \A y \in Wins : ToSet(strip'[y]) \subseteq ToSet(strip[y])
            BY <1>3, <1>4, <1>5
        <3>2. s \in ToSet(strip[u]) /\ s \in ToSet(strip[v])
            BY <2>2, <3>1
        <3> QED BY <3>2 DEF Replayed, OnePlace, Apart
    <2> QED BY <2>1, <2>2 DEF OnePlace, Apart
<1>16. NotYet'
    <2>1. t \in used /\ w \in used /\ ToSet(strip[w]) \subseteq used
        BY <1>1, Parts DEF Replayed, NotYet
    <2>2. \A v \in Wins : strip'[v] # <<>> => v \in used /\ ToSet(strip'[v]) \subseteq used
        BY <1>3, <1>4, <1>5, <2>1 DEF Replayed, NotYet
    <2>3. \A s \in Tabs \ used : Silent(journal', Placing(s)) /\ Silent(journal', ClosingTab(s))
        BY <1>11, <1>13, <2>1 DEF Replayed, NotYet
    <2>4. \A v \in Wins \ used :
              Silent(journal', PlacingIn(v)) /\ Silent(journal', ClosingWindow(v))
        BY <1>11, <1>13 DEF Replayed, NotYet
    <2> QED BY <1>4, <2>2, <2>3, <2>4 DEF NotYet
<1>17. TabsRead'
    <2> SUFFICES ASSUME NEW v \in Wins, NEW i \in DOMAIN strip'[v]
                 PROVE  TabRead(v, i, strip[v][i])'
        BY DEF TabsRead
    <2>1. PICK s : s = strip'[v][i]
        OBVIOUS
    <2>2. s \in ToSet(strip'[v])
        BY <2>1 DEF ToSet
    <2>3. s \in ToSet(strip[v]) /\ s # t
        <3>1. CASE v = w
            BY <1>3, <1>4, <2>2, <3>1
        <3>2. CASE v # w
            <4>1. s \in ToSet(strip[v])
                BY <1>5, <2>2, <3>2
            <4> QED BY <1>1, <3>2, <4>1 DEF Replayed, OnePlace, Apart
        <3> QED BY <3>1, <3>2
    <2>4. PICK k \in DOMAIN strip[v] : strip[v][k] = s
        BY <2>3, Parts
    <2>5. s \in Tabs /\ TabRead(v, k, s)
        BY <2>4, Parts DEF Replayed, TabsRead
    <2>6. Says(journal', Placing(s), TabWindow(v, s)) /\ Silent(journal', ClosingTab(s))
        BY <1>11, <1>13, <2>3, <2>5 DEF TabRead
    <2>7. Says(journal', Indexing(s), TabIndex(s, i))
        <3>1. CASE v = w
            BY <1>4, <1>12, <1>13, <2>1, <3>1
        <3>2. CASE v # w
            <4>1. TabRead(v, i, s)
                BY <1>5, <2>1, <3>2 DEF Replayed, TabsRead
            <4>2. s \notin ToSet(r)
                BY <1>3, <2>3, <3>2, Parts
            <4> QED BY <1>11, <1>13, <2>5, <4>1, <4>2 DEF TabRead
        <3> QED BY <3>1, <3>2
    <2> QED BY <2>1, <2>6, <2>7 DEF TabRead
<1>18. PagesRead'
    <2>1. ASSUME NEW v \in Wins, NEW i \in DOMAIN strip'[v]
          PROVE  \E u \in Wins : strip'[v][i] \in ToSet(strip[u])
        <3>1. strip'[v][i] \in ToSet(strip'[v])
            BY DEF ToSet
        <3> QED BY <1>3, <1>4, <1>5, <3>1
    <2> QED BY <1>4, <1>8, <1>11, <2>1, PagesKept
<1>19. WindowsRead'
    <2> SUFFICES ASSUME NEW v \in Wins, strip'[v] # <<>>
                 PROVE  WindowRead(v)'
        BY DEF WindowsRead
    <2>1. CASE v = w
        <3>1. strip[w] # <<>>
            BY <1>1, Parts
        <3>2. Silent(journal, ClosingWindow(w))
            BY <3>1 DEF Replayed, WindowsRead, WindowRead
        <3> QED BY <1>3, <1>4, <1>5, <1>11, <1>12, <1>13, <2>1, <3>2 DEF WindowRead
    <2>2. CASE v # w
        BY <1>4, <1>5, <1>8, <1>11, <2>2, WindowKept
    <2> QED BY <2>1, <2>2
<1>20. WindowsGone'
    <2> SUFFICES ASSUME NEW v \in Wins, strip'[v] = <<>>
                 PROVE  \/ Silent(journal', PlacingIn(v))
                        \/ Says(journal', PlacingIn(v) \cup ClosingWindow(v), WindowClosed(v))
        BY DEF WindowsGone
    <2>1. strip[v] = <<>>
        BY <1>3, <1>4, <1>5
    <2>2. \/ Silent(journal, PlacingIn(v))
          \/ Says(journal, PlacingIn(v) \cup ClosingWindow(v), WindowClosed(v))
        BY <2>1 DEF Replayed, WindowsGone
    <2>3. Silent(c, PlacingIn(v)) /\ Silent(c, PlacingIn(v) \cup ClosingWindow(v))
        BY <1>11, SilentParts
    <2> QED BY <1>13, <2>2, <2>3
<1>21. TabsGone'
    <2> SUFFICES ASSUME NEW s \in Tabs, ~IsOpen(s)'
                 PROVE  \/ Silent(journal', Placing(s))
                        \/ Says(journal', Placing(s) \cup ClosingTab(s), TabClosed(s))
                        \/ \E v \in Wins : strip'[v] = <<>>
                               /\ Says(journal', Placing(s), TabWindow(v, s))
        BY DEF TabsGone
    <2>1. CASE s = t
        BY <1>12, <1>13, <2>1
    <2>2. CASE s # t
        <3>1. ~IsOpen(s)
            BY <1>3, <1>4, <1>5, <2>2 DEF IsOpen
        <3>2. \/ Silent(journal, Placing(s))
              \/ Says(journal, Placing(s) \cup ClosingTab(s), TabClosed(s))
              \/ \E v \in Wins : strip[v] = <<>> /\ Says(journal, Placing(s), TabWindow(v, s))
            BY <3>1 DEF Replayed, TabsGone
        <3>3. Silent(c, Placing(s)) /\ Silent(c, Placing(s) \cup ClosingTab(s))
            BY <1>11, <2>2, SilentParts
        <3>4. \A v \in Wins : strip[v] = <<>> => strip'[v] = <<>>
            BY <1>1, <1>5, Parts
        <3> QED BY <1>13, <3>2, <3>3, <3>4
    <2> QED BY <2>1, <2>2
<1> QED BY <1>14, <1>15, <1>16, <1>17, <1>18, <1>19, <1>20, <1>21 DEF Replayed

LEMMA MoveReplayed ==
    ASSUME Replayed, NEW t \in Tabs, NEW w \in Wins, Move(t, w)
    PROVE  Replayed'
<1>1. PICK o \in Wins : o = Home(t) /\ t \in ToSet(strip[o])
    BY HomeFacts DEF Move
<1>2. w # o /\ strip[w] # <<>> /\ t \notin ToSet(strip[w])
    BY <1>1, Parts DEF Move
<1>3. PICK a : a = Without(strip[o], t)
    OBVIOUS
<1>4. PICK r : r = <<t>> \o strip[w]
    OBVIOUS
<1>5. /\ a \in Seq(Tabs) /\ Distinct(a) /\ ToSet(a) = ToSet(strip[o]) \ {t}
      /\ 1 \in DOMAIN a /\ a # <<>>
    <2>1. strip[o] \in Seq(Tabs) /\ Distinct(strip[o])
        BY Parts
    <2>2. Len(strip[o]) > 1
        BY <1>1 DEF Move
    <2>3. /\ a \in Seq(Tabs) /\ Distinct(a) /\ ToSet(a) = ToSet(strip[o]) \ {t}
          /\ Len(a) = Len(strip[o]) - 1
        BY <1>1, <1>3, <2>1, WithoutFacts
    <2>4. Len(a) >= 1
        BY <2>1, <2>2, <2>3
    <2> QED BY <2>3, <2>4
<1>6. /\ r \in Seq(Tabs) /\ Distinct(r) /\ ToSet(r) = ToSet(strip[w]) \cup {t}
      /\ 1 \in DOMAIN r /\ r # <<>>
    <2>1. strip[w] \in Seq(Tabs) /\ Distinct(strip[w])
        BY Parts
    <2>2. /\ r \in Seq(Tabs) /\ Distinct(r) /\ ToSet(r) = ToSet(strip[w]) \cup {t}
          /\ 1 \in DOMAIN r
        BY <1>2, <1>4, <2>1, FrontedFacts
    <2> QED BY <2>2
<1> PICK b : b = <<TabWindow(w, t)>>
    OBVIOUS
<1> PICK x : x = Indices(a)
    OBVIOUS
<1> PICK y : y = Indices(r)
    OBVIOUS
<1> PICK e : e = <<SelectedTab(o, 1), SelectedTab(w, 1)>>
    OBVIOUS
<1>7. PICK c : c = ((b \o x) \o y) \o e
    OBVIOUS
<1>8. /\ strip' = [strip EXCEPT ![o] = a, ![w] = r] /\ strip'[o] = a /\ strip'[w] = r
      /\ front' = [front EXCEPT ![o] = 1, ![w] = 1] /\ journal' = journal \o c
      /\ UNCHANGED <<hist, at, used>>
    <2>1. strip' = [strip EXCEPT ![o] = a, ![w] = r]
        BY <1>1, <1>2, <1>3, <1>4, Parts DEF Move
    <2>2. strip'[o] = a /\ strip'[w] = r
        BY <1>2, <2>1, Parts
    <2> QED BY <1>1, <1>7, <2>1, <2>2 DEF Move, Write
<1>9. /\ \A v \in Wins : v # w /\ v # o => strip'[v] = strip[v] /\ front'[v] = front[v]
      /\ front'[o] = 1 /\ front'[w] = 1
    BY <1>8, Parts
<1>10. /\ TabWindow(w, t) \in Command
       /\ SelectedTab(o, 1) \in Command /\ SelectedTab(w, 1) \in Command
    BY TabWindowKind, SelectedTabKind
<1>11. /\ b \in Seq(Command) /\ x \in Seq(Command) /\ y \in Seq(Command) /\ e \in Seq(Command)
    BY <1>5, <1>6, <1>10, OneCommand, TwoCommands, IndicesFacts
<1>12. b \o x \in Seq(Command) /\ (b \o x) \o y \in Seq(Command) /\ c \in Seq(Command)
    BY <1>7, <1>11, Appended
<1>13. /\ \A class : Silent(b, class) /\ Silent(x, class) /\ Silent(y, class) /\ Silent(e, class)
                        => Silent(c, class)
       /\ \A class, z : Says(b, class, z) /\ Silent(x, class) /\ Silent(y, class)
              /\ Silent(e, class)
                            => Says(c, class, z)
       /\ \A class, z : Says(x, class, z) /\ Silent(y, class) /\ Silent(e, class)
                            => Says(c, class, z)
       /\ \A class, z : Says(y, class, z) /\ Silent(e, class) => Says(c, class, z)
       /\ \A class, z : Says(e, class, z) => Says(c, class, z)
    <2>1. /\ \A class : Silent(b, class) /\ Silent(x, class) => Silent(b \o x, class)
          /\ \A class, z : Says(b, class, z) /\ Silent(x, class) => Says(b \o x, class, z)
          /\ \A class, z : Says(x, class, z) => Says(b \o x, class, z)
        BY <1>11, Appended
    <2>2. /\ \A class : Silent(b \o x, class) /\ Silent(y, class) => Silent((b \o x) \o y, class)
          /\ \A class, z : Says(b \o x, class, z) /\ Silent(y, class)
                 => Says((b \o x) \o y, class, z)
          /\ \A class, z : Says(y, class, z) => Says((b \o x) \o y, class, z)
        BY <1>11, <1>12, Appended
    <2>3. /\ \A class : Silent((b \o x) \o y, class) /\ Silent(e, class) => Silent(c, class)
          /\ \A class, z : Says((b \o x) \o y, class, z) /\ Silent(e, class) => Says(c, class, z)
          /\ \A class, z : Says(e, class, z) => Says(c, class, z)
        BY <1>7, <1>11, <1>12, Appended
    <2> QED BY <2>1, <2>2, <2>3
<1>14. /\ \A class : Silent(b, class) <=> TabWindow(w, t) \notin class
       /\ \A class : Silent(e, class)
              <=> SelectedTab(o, 1) \notin class /\ SelectedTab(w, 1) \notin class
    BY <1>10, OneCommand, TwoCommands
<1>15. /\ \A s \in Tabs : /\ s # t => Silent(c, Placing(s))
                          /\ Silent(c, Selecting(s)) /\ Silent(c, Recording(s))
                          /\ Silent(c, ClosingTab(s))
                          /\ s \notin ToSet(a) /\ s \notin ToSet(r) => Silent(c, Indexing(s))
       /\ \A v \in Wins : /\ v # w => Silent(c, PlacingIn(v))
                          /\ Silent(c, ClosingWindow(v))
                          /\ v # w /\ v # o => Silent(c, Fronting(v))
    <2>1. ASSUME NEW s \in Tabs
          PROVE  /\ s # t => Silent(c, Placing(s))
                 /\ Silent(c, Selecting(s)) /\ Silent(c, Recording(s))
                 /\ Silent(c, ClosingTab(s))
                 /\ s \notin ToSet(a) /\ s \notin ToSet(r) => Silent(c, Indexing(s))
        <3>1. /\ Silent(x, Placing(s)) /\ Silent(x, Selecting(s))
              /\ Silent(x, Recording(s)) /\ Silent(x, ClosingTab(s))
              /\ s \notin ToSet(a) => Silent(x, Indexing(s))
            BY <1>5, IndicesFacts
        <3>2. /\ Silent(y, Placing(s)) /\ Silent(y, Selecting(s))
              /\ Silent(y, Recording(s)) /\ Silent(y, ClosingTab(s))
              /\ s \notin ToSet(r) => Silent(y, Indexing(s))
            BY <1>6, IndicesFacts
        <3>3. /\ s # t => Silent(b, Placing(s))
              /\ Silent(b, Selecting(s)) /\ Silent(b, Recording(s))
              /\ Silent(b, ClosingTab(s)) /\ Silent(b, Indexing(s))
            BY <1>14, TabWindowKind
        <3>4. /\ Silent(e, Placing(s)) /\ Silent(e, Selecting(s))
              /\ Silent(e, Recording(s)) /\ Silent(e, ClosingTab(s)) /\ Silent(e, Indexing(s))
            BY <1>14, SelectedTabKind
        <3> QED BY <1>13, <3>1, <3>2, <3>3, <3>4
    <2>2. ASSUME NEW v \in Wins
          PROVE  /\ v # w => Silent(c, PlacingIn(v))
                 /\ Silent(c, ClosingWindow(v))
                 /\ v # w /\ v # o => Silent(c, Fronting(v))
        <3>1. Silent(x, PlacingIn(v)) /\ Silent(x, ClosingWindow(v)) /\ Silent(x, Fronting(v))
            BY <1>5, IndicesFacts
        <3>2. Silent(y, PlacingIn(v)) /\ Silent(y, ClosingWindow(v)) /\ Silent(y, Fronting(v))
            BY <1>6, IndicesFacts
        <3>3. /\ v # w => Silent(b, PlacingIn(v))
              /\ Silent(b, ClosingWindow(v)) /\ Silent(b, Fronting(v))
            BY <1>14, TabWindowKind
        <3>4. /\ Silent(e, PlacingIn(v)) /\ Silent(e, ClosingWindow(v))
              /\ v # w /\ v # o => Silent(e, Fronting(v))
            BY <1>14, SelectedTabKind
        <3> QED BY <1>13, <3>1, <3>2, <3>3, <3>4
    <2> QED BY <2>1, <2>2
<1>16. \A s \in ToSet(a) : s \notin ToSet(r)
    <2>1. \A s \in ToSet(strip[o]) : s \notin ToSet(strip[w])
        BY <1>2 DEF Replayed, OnePlace, Apart
    <2> QED BY <1>5, <1>6, <2>1
<1>17. /\ Says(c, Placing(t), TabWindow(w, t))
       /\ \A i \in DOMAIN a : Says(c, Indexing(a[i]), TabIndex(a[i], i))
       /\ \A i \in DOMAIN r : Says(c, Indexing(r[i]), TabIndex(r[i], i))
       /\ Says(c, Fronting(o), SelectedTab(o, 1)) /\ Says(c, Fronting(w), SelectedTab(w, 1))
    <2>1. Says(c, Placing(t), TabWindow(w, t))
        <3>1. Says(b, Placing(t), TabWindow(w, t))
            BY <1>10, OneCommand
        <3>2. Silent(x, Placing(t)) /\ Silent(y, Placing(t))
            BY <1>5, <1>6, IndicesFacts
        <3>3. Silent(e, Placing(t))
            BY <1>14, SelectedTabKind
        <3> QED BY <1>13, <3>1, <3>2, <3>3
    <2>2. ASSUME NEW i \in DOMAIN a
          PROVE  Says(c, Indexing(a[i]), TabIndex(a[i], i))
        <3>1. Says(x, Indexing(a[i]), TabIndex(a[i], i))
            BY <1>5, IndicesFacts
        <3>2. a[i] \in Tabs /\ a[i] \in ToSet(a)
            BY <1>5 DEF ToSet
        <3>3. Silent(y, Indexing(a[i]))
            BY <1>6, <1>16, <3>2, IndicesFacts
        <3>4. Silent(e, Indexing(a[i]))
            BY <1>14, <3>2, SelectedTabKind
        <3> QED BY <1>13, <3>1, <3>3, <3>4
    <2>3. ASSUME NEW i \in DOMAIN r
          PROVE  Says(c, Indexing(r[i]), TabIndex(r[i], i))
        <3>1. Says(y, Indexing(r[i]), TabIndex(r[i], i))
            BY <1>6, IndicesFacts
        <3>2. r[i] \in Tabs
            BY <1>6
        <3>3. Silent(e, Indexing(r[i]))
            BY <1>14, <3>2, SelectedTabKind
        <3> QED BY <1>13, <3>1, <3>3
    <2>4. Says(c, Fronting(w), SelectedTab(w, 1))
        <3>1. Says(e, Fronting(w), SelectedTab(w, 1))
            BY <1>10, TwoCommands
        <3> QED BY <1>13, <3>1
    <2>5. Says(c, Fronting(o), SelectedTab(o, 1))
        <3>1. SelectedTab(w, 1) \notin Fronting(o)
            BY <1>2, SelectedTabKind
        <3>2. Says(e, Fronting(o), SelectedTab(o, 1))
            BY <1>10, <3>1, TwoCommands
        <3> QED BY <1>13, <3>2
    <2> QED BY <2>1, <2>2, <2>3, <2>4, <2>5
<1>18. /\ journal' \in Seq(Command)
       /\ \A class, z : Says(c, class, z) => Says(journal', class, z)
       /\ \A class, z : Says(journal, class, z) /\ Silent(c, class) => Says(journal', class, z)
       /\ \A class : Silent(journal, class) /\ Silent(c, class) => Silent(journal', class)
    BY <1>8, <1>12, Adds
<1>19. BrowserTyped'
    <2>1. strip' \in [Wins -> Seq(Tabs)] /\ front' \in [Wins -> Nat]
        BY <1>5, <1>6, <1>8, Parts
    <2> QED BY <1>8, <1>18, <2>1, Parts DEF BrowserTyped
<1>20. /\ \A v \in Wins : \A s \in ToSet(strip'[v]) :
              (s = t /\ v = w) \/ (s # t /\ s \in ToSet(strip[v]))
       /\ \A v \in Wins : \A s \in ToSet(strip[v]) : s # t => s \in ToSet(strip'[v])
    <2>1. \A v \in Wins : t \in ToSet(strip[v]) => v = o
        BY <1>1 DEF Replayed, OnePlace, Apart
    <2>2. ASSUME NEW v \in Wins
          PROVE  /\ \A s \in ToSet(strip'[v]) : (s = t /\ v = w) \/ (s # t /\ s \in ToSet(strip[v]))
                 /\ \A s \in ToSet(strip[v]) : s # t => s \in ToSet(strip'[v])
        <3>1. CASE v = w
            BY <1>2, <1>6, <1>8, <3>1
        <3>2. CASE v = o
            BY <1>5, <1>8, <3>2
        <3>3. CASE v # w /\ v # o
            BY <1>9, <2>1, <3>3
        <3> QED BY <3>1, <3>2, <3>3
    <2> QED BY <2>2
<1>21. OnePlace(strip)'
    <2>1. \A v \in Wins : Distinct(strip'[v])
        BY <1>5, <1>6, <1>8, <1>9, Parts
    <2>2. ASSUME NEW u \in Wins, NEW v \in Wins, NEW s \in ToSet(strip'[u]), s \in ToSet(strip'[v])
          PROVE  u = v
        <3>1. CASE s = t
            BY <1>20, <2>2, <3>1
        <3>2. CASE s # t
            <4>1. s \in ToSet(strip[u]) /\ s \in ToSet(strip[v])
                BY <1>20, <2>2, <3>2
            <4> QED BY <4>1 DEF Replayed, OnePlace, Apart
        <3> QED BY <3>1, <3>2
    <2> QED BY <2>1, <2>2 DEF OnePlace, Apart
<1>22. NotYet'
    <2>1. t \in used /\ w \in used /\ o \in used
        BY <1>1, <1>2, Parts DEF Replayed, NotYet
    <2>2. ASSUME NEW v \in Wins, strip'[v] # <<>>
          PROVE  v \in used /\ ToSet(strip'[v]) \subseteq used
        <3>1. v \in used
            BY <1>9, <2>1, <2>2 DEF Replayed, NotYet
        <3>2. ASSUME NEW s \in ToSet(strip'[v])
              PROVE  s \in used
            <4>1. CASE s = t
                BY <2>1, <4>1
            <4>2. CASE s # t
                <5>1. s \in ToSet(strip[v]) /\ strip[v] # <<>>
                    BY <1>20, <3>2, <4>2, Parts
                <5> QED BY <5>1 DEF Replayed, NotYet
            <4> QED BY <4>1, <4>2
        <3> QED BY <3>1, <3>2
    <2>3. \A s \in Tabs \ used : Silent(journal', Placing(s)) /\ Silent(journal', ClosingTab(s))
        BY <1>15, <1>18, <2>1 DEF Replayed, NotYet
    <2>4. \A v \in Wins \ used :
              Silent(journal', PlacingIn(v)) /\ Silent(journal', ClosingWindow(v))
        BY <1>15, <1>18, <2>1 DEF Replayed, NotYet
    <2> QED BY <1>8, <2>2, <2>3, <2>4 DEF NotYet
<1>23. ASSUME NEW v \in Wins, NEW s \in ToSet(strip[v])
       PROVE  \E k \in DOMAIN strip[v] : s \in Tabs /\ strip[v][k] = s /\ TabRead(v, k, s)
    <2>1. PICK k \in DOMAIN strip[v] : strip[v][k] = s
        BY <1>23, Parts
    <2> QED BY <2>1, Parts DEF Replayed, TabsRead
<1>24. TabsRead'
    <2> SUFFICES ASSUME NEW v \in Wins, NEW i \in DOMAIN strip'[v]
                 PROVE  TabRead(v, i, strip[v][i])'
        BY DEF TabsRead
    <2>1. PICK s : s = strip'[v][i]
        OBVIOUS
    <2>2. s \in ToSet(strip'[v])
        BY <2>1 DEF ToSet
    <2>3. Says(journal', Placing(s), TabWindow(v, s)) /\ Silent(journal', ClosingTab(s))
        <3>1. CASE s = t
            <4>1. v = w
                BY <1>20, <2>2, <3>1
            <4>2. Silent(journal, ClosingTab(t))
                BY <1>1, <1>23 DEF TabRead
            <4> QED BY <1>15, <1>17, <1>18, <3>1, <4>1, <4>2
        <3>2. CASE s # t
            <4>1. s \in ToSet(strip[v])
                BY <1>20, <2>2, <3>2
            <4>2. /\ s \in Tabs /\ Says(journal, Placing(s), TabWindow(v, s))
                  /\ Silent(journal, ClosingTab(s))
                BY <1>23, <4>1 DEF TabRead
            <4> QED BY <1>15, <1>18, <3>2, <4>2
        <3> QED BY <3>1, <3>2
    <2>4. Says(journal', Indexing(s), TabIndex(s, i))
        <3>1. CASE v = w
            BY <1>8, <1>17, <1>18, <2>1, <3>1
        <3>2. CASE v = o
            BY <1>8, <1>17, <1>18, <2>1, <3>2
        <3>3. CASE v # w /\ v # o
            <4>1. strip[v][i] = s /\ i \in DOMAIN strip[v]
                BY <1>9, <2>1, <3>3
            <4>2. s \in Tabs /\ s \in ToSet(strip[v]) /\ Says(journal, Indexing(s), TabIndex(s, i))
                BY <4>1, Parts DEF Replayed, TabsRead, TabRead
            <4>3. s \notin ToSet(strip[w]) /\ s \notin ToSet(strip[o])
                BY <3>3, <4>2 DEF Replayed, OnePlace, Apart
            <4>4. s \notin ToSet(a) /\ s \notin ToSet(r)
                BY <1>1, <1>5, <1>6, <4>3
            <4> QED BY <1>15, <1>18, <4>2, <4>4
        <3> QED BY <3>1, <3>2, <3>3
    <2> QED BY <2>1, <2>3, <2>4 DEF TabRead
<1>25. PagesRead'
    <2>1. ASSUME NEW v \in Wins, NEW i \in DOMAIN strip'[v]
          PROVE  \E u \in Wins : strip'[v][i] \in ToSet(strip[u])
        <3>1. strip'[v][i] \in ToSet(strip'[v])
            BY DEF ToSet
        <3> QED BY <1>1, <1>20, <3>1
    <2> QED BY <1>8, <1>12, <1>15, <2>1, PagesKept
<1>26. WindowsRead'
    <2> SUFFICES ASSUME NEW v \in Wins, strip'[v] # <<>>
                 PROVE  WindowRead(v)'
        BY DEF WindowsRead
    <2>1. CASE v = w
        <3>1. Silent(journal, ClosingWindow(w))
            BY <1>2 DEF Replayed, WindowsRead, WindowRead
        <3> QED BY <1>6, <1>8, <1>9, <1>15, <1>17, <1>18, <2>1, <3>1 DEF WindowRead
    <2>2. CASE v = o
        <3>1. strip[o] # <<>>
            BY <1>1, Parts
        <3>2. Silent(journal, ClosingWindow(o))
            BY <3>1 DEF Replayed, WindowsRead, WindowRead
        <3> QED BY <1>5, <1>8, <1>9, <1>15, <1>17, <1>18, <2>2, <3>2 DEF WindowRead
    <2>3. CASE v # w /\ v # o
        BY <1>8, <1>9, <1>12, <1>15, <2>3, WindowKept
    <2> QED BY <2>1, <2>2, <2>3
<1>27. WindowsGone'
    <2> SUFFICES ASSUME NEW v \in Wins, strip'[v] = <<>>
                 PROVE  \/ Silent(journal', PlacingIn(v))
                        \/ Says(journal', PlacingIn(v) \cup ClosingWindow(v), WindowClosed(v))
        BY DEF WindowsGone
    <2>1. v # w /\ strip[v] = <<>>
        BY <1>5, <1>6, <1>8, <1>9
    <2>2. \/ Silent(journal, PlacingIn(v))
          \/ Says(journal, PlacingIn(v) \cup ClosingWindow(v), WindowClosed(v))
        BY <2>1 DEF Replayed, WindowsGone
    <2>3. Silent(c, PlacingIn(v)) /\ Silent(c, PlacingIn(v) \cup ClosingWindow(v))
        BY <1>15, <2>1, SilentParts
    <2> QED BY <1>18, <2>2, <2>3
<1>28. TabsGone'
    <2> SUFFICES ASSUME NEW s \in Tabs, ~IsOpen(s)'
                 PROVE  \/ Silent(journal', Placing(s))
                        \/ Says(journal', Placing(s) \cup ClosingTab(s), TabClosed(s))
                        \/ \E v \in Wins : strip'[v] = <<>>
                               /\ Says(journal', Placing(s), TabWindow(v, s))
        BY DEF TabsGone
    <2>1. \A v \in Wins : s \notin ToSet(strip'[v])
        BY DEF IsOpen
    <2>2. s # t
        BY <1>6, <1>8, <2>1
    <2>3. ~IsOpen(s)
        BY <1>20, <2>1, <2>2 DEF IsOpen
    <2>4. \/ Silent(journal, Placing(s))
          \/ Says(journal, Placing(s) \cup ClosingTab(s), TabClosed(s))
          \/ \E v \in Wins : strip[v] = <<>> /\ Says(journal, Placing(s), TabWindow(v, s))
        BY <2>3 DEF Replayed, TabsGone
    <2>5. Silent(c, Placing(s)) /\ Silent(c, Placing(s) \cup ClosingTab(s))
        BY <1>15, <2>2, SilentParts
    <2>6. \A v \in Wins : strip[v] = <<>> => strip'[v] = <<>>
        BY <1>1, <1>2, <1>9, Parts
    <2> QED BY <1>18, <2>4, <2>5, <2>6
<1> QED BY <1>19, <1>21, <1>22, <1>24, <1>25, <1>26, <1>27, <1>28 DEF Replayed

LEMMA BrowserKeeps == Replayed /\ BrowserNext => Replayed'
<1> SUFFICES ASSUME Replayed, BrowserNext PROVE Replayed'
    OBVIOUS
<1>1. CASE \E w \in Wins, t \in Tabs, page \in Pages : Open(w, t, page)
    BY <1>1, OpenReplayed
<1>2. CASE \E t \in Tabs, page \in Pages : Navigate(t, page)
    BY <1>2, NavigateReplayed
<1>3. CASE \E t \in Tabs : \E i \in DOMAIN hist[t] : GoTo(t, i)
    BY <1>3, GoToReplayed
<1>4. CASE \E w \in Wins : \E i \in DOMAIN strip[w] : Activate(w, i)
    BY <1>4, ActivateReplayed
<1>5. CASE \E t \in Tabs, w \in Wins : Move(t, w)
    BY <1>5, MoveReplayed
<1>6. CASE \E t \in Tabs : CloseTab(t)
    BY <1>6, CloseTabReplayed
<1>7. CASE \E w \in Wins : CloseWindow(w)
    BY <1>7, CloseWindowReplayed
<1> QED BY <1>1, <1>2, <1>3, <1>4, <1>5, <1>6, <1>7 DEF BrowserNext

\* Whatever is opened, closed, moved and visited, in whatever order: the replay
\* of the journal holds every open tab in its window, at its place and on its
\* page, and no other tab (snss.rs, open_windows).
THEOREM JournalReplayed == Spec => []Replayed
<1>1. Init => Replayed
    BY BrowserStarts DEF Init
<1>2. Replayed /\ [Next]_vars => Replayed'
    <2>1. Replayed /\ Next => Replayed'
        BY BrowserKeeps DEF Next
    <2>2. Replayed /\ UNCHANGED vars => Replayed'
        BY BrowserRests DEF vars
    <2> QED BY <2>1, <2>2
<1> QED BY <1>1, <1>2, PTL DEF Spec

\* So a capture takes the pages of its own window, in their order (snss.rs,
\* match_window and window_tabs).
THEOREM CapturesOwnTabs == Spec => []BrowserTabsTaken
<1>1. Replayed => BrowserTabsTaken
    BY CapturesTabs DEF BrowserTabsTaken
<1> QED BY <1>1, JournalReplayed, PTL
=============================================================================
