--------------------------- MODULE PanelRailProofs ---------------------------
(***************************************************************************)
(* What the rail and the manual order of the projects promise, for any     *)
(* slugs, projects, drags, requests and lists under way.                   *)
(*                                                                         *)
(* First what sorting does: a finite set of projects has one sorted list.  *)
(* Then what moving a row and shuffling back do, and what a reorder does.  *)
(* Last the inductive invariants of the list, its files and the rows.      *)
(***************************************************************************)
EXTENDS PanelRail, TLAPS, FiniteSetTheorems, WellFoundedInduction

\* No member of the list occurs twice.
OneEach(s) == \A i, j \in DOMAIN s : s[i] = s[j] => i = j

-----------------------------------------------------------------------------
(* Numbers. *)

\* A set of numbers has a least one: what stands for induction below.
LEMMA Least ==
    ASSUME NEW T, T \subseteq Nat, T # {}
    PROVE  \E m \in T : \A n \in T : m <= n
<1> DEFINE less == {pair \in Nat \X Nat : pair[1] < pair[2]}
<1>1. IsWellFoundedOn(less, Nat)
    BY NatLessThanWellFounded DEF OpToRel
<1>2. PICK m \in T : \A n \in T : <<n, m>> \notin less
    <2> HIDE DEF less
    <2> QED BY <1>1, WFMin
<1>3. ASSUME NEW n \in T PROVE m <= n
    <2>1. n \in Nat /\ m \in Nat /\ <<n, m>> \in Nat \X Nat
        OBVIOUS
    <2>2. ~ (n < m)
        BY <1>2, <2>1
    <2> QED BY <2>1, <2>2
<1> QED BY <1>3

\* Max is what its name says of the numbers up to a bound.
LEMMA MaxFacts ==
    ASSUME NEW n \in Nat, NEW I, I \subseteq 0 .. n, I # {}
    PROVE  Max(I) \in I /\ \A i \in I : i <= Max(I)
<1> DEFINE bounds == {k \in Nat : \A i \in I : i <= k}
<1>1. PICK m \in bounds : \A k \in bounds : m <= k
    <2>1. n \in bounds
        OBVIOUS
    <2> QED BY <2>1, Least
<1>2. m \in I
    <2> SUFFICES ASSUME m \notin I PROVE FALSE
        OBVIOUS
    <2>1. PICK i \in I : TRUE
        OBVIOUS
    <2>2. m - 1 \in Nat /\ \A k \in I : k <= m - 1
        BY <1>1, <2>1
    <2> QED BY <1>1, <2>2
<1> QED BY <1>1, <1>2 DEF Max

-----------------------------------------------------------------------------
(* Sorting. *)

\* Before is a strict total order of the projects.
LEMMA BeforeOrders ==
    ASSUME NEW p \in Project, NEW q \in Project
    PROVE  /\ ~ Before(p, p) /\ ~ (Before(p, q) /\ Before(q, p))
           /\ Before(p, q) \/ Before(q, p) \/ p = q
           /\ \A r \in Project : Before(p, q) /\ Before(q, r) => Before(p, r)
<1>1. /\ {p.slug, p.position, q.slug, q.position} \subseteq Nat
      /\ \A r \in Project : r.slug \in Nat /\ r.position \in Nat
    BY SlugAssumption DEF Project
<1>2. p.slug = q.slug /\ p.position = q.position => p = q
    BY DEF Project
<1> QED BY <1>1, <1>2 DEF Before

\* The project that comes first.
LEMMA LeastProject ==
    ASSUME NEW S, S \subseteq Project, S # {}
    PROVE  \E p \in S : \A q \in S \ {p} : Before(p, q)
<1>1. PICK m \in {p.position : p \in S} : \A n \in {p.position : p \in S} : m <= n
    <2>1. {p.position : p \in S} \subseteq Nat /\ {p.position : p \in S} # {}
        BY DEF Project
    <2> QED BY <2>1, Least
<1> DEFINE front == {p \in S : p.position = m}
<1>2. PICK s \in {p.slug : p \in front} : \A n \in {p.slug : p \in front} : s <= n
    <2>1. {p.slug : p \in front} \subseteq Nat /\ {p.slug : p \in front} # {}
        BY <1>1, SlugAssumption DEF Project
    <2> QED BY <2>1, Least
<1>3. PICK p \in front : p.slug = s
    BY <1>2
<1>4. ASSUME NEW q \in S \ {p} PROVE Before(p, q)
    <2>1. p.position <= q.position
        BY <1>1, <1>3
    <2>2. q.position = p.position => p.slug <= q.slug
        BY <1>2, <1>3
    <2>3. p \in Project /\ q \in Project
        OBVIOUS
    <2>4. ~ Before(q, p)
        <3>1. {p.slug, p.position, q.slug, q.position} \subseteq Nat
            BY <2>3, SlugAssumption DEF Project
        <3> QED BY <2>1, <2>2, <3>1 DEF Before
    <2> QED BY <2>3, <2>4, BeforeOrders
<1> QED BY <1>3, <1>4

\* A finite set of projects can be put in order.
LEMMA OrderExists ==
    ASSUME NEW S \in SUBSET Project, IsFiniteSet(S)
    PROVE  \E s \in [1 .. Cardinality(S) -> S] : InOrder(s) /\ ToSet(s) = S
<1> DEFINE Sorted(U) == \E s \in [1 .. Cardinality(U) -> U] : InOrder(s) /\ ToSet(s) = U
           sizes == {n \in Nat : \E U \in SUBSET Project :
                                     IsFiniteSet(U) /\ Cardinality(U) = n /\ ~ Sorted(U)}
<1>1. SUFFICES ASSUME sizes # {} PROVE FALSE
    BY FS_CardinalityType
<1>2. PICK n \in sizes : \A k \in sizes : n <= k
    BY <1>1, Least
<1>3. PICK U \in SUBSET Project : IsFiniteSet(U) /\ Cardinality(U) = n /\ ~ Sorted(U)
    BY <1>2
<1>4. U # {}
    <2> SUFFICES ASSUME U = {} PROVE Sorted(U)
        BY <1>3
    <2>1. Cardinality(U) = 0
        BY FS_EmptySet
    <2> DEFINE s == [i \in 1 .. 0 |-> i]
    <2>2. s \in [1 .. Cardinality(U) -> U] /\ ToSet(s) = U
        BY <2>1 DEF ToSet
    <2>3. InOrder(s)
        BY DEF InOrder
    <2> QED BY <2>2, <2>3
<1>5. PICK p \in U : \A q \in U \ {p} : Before(p, q)
    BY <1>4, LeastProject
<1> DEFINE V == U \ {p}
<1>6. IsFiniteSet(V) /\ Cardinality(V) = n - 1 /\ n - 1 \in Nat
    <2>1. IsFiniteSet(V) /\ Cardinality(V) = n - 1
        BY <1>3, FS_RemoveElement
    <2> QED BY <2>1, FS_CardinalityType
<1>7. PICK s \in [1 .. n - 1 -> V] : InOrder(s) /\ ToSet(s) = V
    <2>1. n - 1 \notin sizes
        BY <1>2
    <2>2. Sorted(V)
        BY <1>6, <2>1
    <2> QED BY <1>6, <2>2
<1> DEFINE t == [i \in 1 .. n |-> IF i = 1 THEN p ELSE s[i - 1]]
<1>8. t \in [1 .. n -> U]
    BY <1>6, <1>7
<1>9. ToSet(t) = U
    <2>1. ASSUME NEW q \in U PROVE \E i \in 1 .. n : t[i] = q
        <3>1. CASE q = p
            BY <1>6, <3>1
        <3>2. CASE q # p
            <4>1. PICK i \in 1 .. n - 1 : s[i] = q
                BY <1>7, <3>2 DEF ToSet
            <4> QED BY <1>6, <4>1
        <3> QED BY <3>1, <3>2
    <2> QED BY <1>8, <2>1 DEF ToSet
<1>10. InOrder(t)
    <2> SUFFICES ASSUME NEW i \in 1 .. n, NEW j \in 1 .. n, i < j PROVE Before(t[i], t[j])
        BY DEF InOrder
    <2>1. j - 1 \in 1 .. n - 1 /\ t[j] = s[j - 1]
        BY <1>6
    <2>2. CASE i = 1
        BY <1>5, <1>7, <2>1, <2>2
    <2>3. CASE i # 1
        BY <1>6, <1>7, <2>1, <2>3 DEF InOrder
    <2> QED BY <2>2, <2>3
<1> QED BY <1>3, <1>8, <1>9, <1>10

\* There is only one order for them.
LEMMA OneOrder ==
    ASSUME NEW s \in Seq(Project), NEW t \in Seq(Project),
           InOrder(s), InOrder(t), ToSet(s) = ToSet(t)
    PROVE  s = t
<1>1. ASSUME NEW u \in Seq(Project), NEW v \in Seq(Project),
             InOrder(u), InOrder(v), ToSet(u) = ToSet(v)
      PROVE  \A k \in DOMAIN u : k \in DOMAIN v /\ u[k] = v[k]
    <2> DEFINE differ == {k \in DOMAIN u : ~ (k \in DOMAIN v /\ u[k] = v[k])}
    <2> SUFFICES ASSUME differ # {} PROVE FALSE
        OBVIOUS
    <2>1. DOMAIN u = 1 .. Len(u) /\ DOMAIN v = 1 .. Len(v) /\ Len(u) \in Nat /\ Len(v) \in Nat
        OBVIOUS
    <2>2. PICK k \in differ : \A m \in differ : k <= m
        <3>1. differ \subseteq Nat
            BY <2>1
        <3> HIDE DEF differ
        <3> QED BY <3>1, Least
    <2>3. \A l \in DOMAIN u : l < k => l \in DOMAIN v /\ u[l] = v[l]
        BY <2>1, <2>2
    <2>4. PICK l \in DOMAIN v : v[l] = u[k]
        BY <1>1 DEF ToSet
    <2>5. ~ (l < k)
        <3> SUFFICES ASSUME l < k PROVE FALSE
            OBVIOUS
        <3>1. l \in DOMAIN u /\ u[l] = u[k]
            BY <2>1, <2>3, <2>4
        <3>2. Before(u[l], u[k]) /\ u[k] \in Project
            BY <1>1, <3>1 DEF InOrder
        <3> QED BY <3>1, <3>2, BeforeOrders
    <2>6. l > k /\ k \in DOMAIN v
        BY <2>1, <2>2, <2>4, <2>5
    <2>7. PICK m \in DOMAIN u : u[m] = v[k]
        BY <1>1, <2>6 DEF ToSet
    <2>8. ~ (m < k)
        <3> SUFFICES ASSUME m < k PROVE FALSE
            OBVIOUS
        <3>1. m \in DOMAIN v /\ v[m] = v[k]
            BY <2>1, <2>3, <2>7
        <3>2. Before(v[m], v[k]) /\ v[k] \in Project
            BY <1>1, <2>6, <3>1 DEF InOrder
        <3> QED BY <3>1, <3>2, BeforeOrders
    <2>9. m > k
        BY <2>1, <2>2, <2>6, <2>7, <2>8
    <2>10. Before(v[k], v[l]) /\ Before(u[k], u[m]) /\ u[k] \in Project /\ v[k] \in Project
        BY <1>1, <2>2, <2>4, <2>6, <2>7, <2>9 DEF InOrder
    <2> QED BY <2>4, <2>7, <2>10, BeforeOrders
<1>2. \A k \in DOMAIN s : k \in DOMAIN t /\ s[k] = t[k]
    BY <1>1
<1>3. \A k \in DOMAIN t : k \in DOMAIN s
    BY <1>1
<1> QED BY <1>2, <1>3

\* What the daemon loads: the files in order, whatever order that is.
LEMMA LoadedFacts ==
    ASSUME NEW S \in SUBSET Project, IsFiniteSet(S)
    PROVE  /\ Loaded(S) \in [1 .. Cardinality(S) -> S] /\ Cardinality(S) \in Nat
           /\ Loaded(S) \in Seq(Project)
           /\ InOrder(Loaded(S)) /\ ToSet(Loaded(S)) = S
<1>1. Loaded(S) \in [1 .. Cardinality(S) -> S] /\ InOrder(Loaded(S)) /\ ToSet(Loaded(S)) = S
    BY OrderExists DEF Loaded
<1>2. Cardinality(S) \in Nat
    BY FS_CardinalityType
<1> QED BY <1>1, <1>2

\* The members of a list are finitely many.
LEMMA ListFinite ==
    ASSUME NEW S, NEW s \in Seq(S)
    PROVE  IsFiniteSet(ToSet(s))
<1>1. s \in Surjection(1 .. Len(s), ToSet(s))
    BY DEF Surjection, ToSet
<1>2. IsFiniteSet(1 .. Len(s))
    BY FS_Interval
<1> QED BY <1>1, <1>2, FS_Surjection

\* A list in order is what a restart would load from its members.
LEMMA SortedIsLoaded ==
    ASSUME NEW s \in Seq(Project), InOrder(s)
    PROVE  s = Loaded(ToSet(s))
<1>1. ToSet(s) \in SUBSET Project /\ IsFiniteSet(ToSet(s))
    BY ListFinite DEF ToSet
<1> QED BY <1>1, LoadedFacts, OneOrder

\* The slugs of a list that is in order and has none twice are rows.
LEMMA SlugsFacts ==
    ASSUME NEW list \in Seq(Project)
    PROVE  /\ SlugsOf(list) \in Seq(Slugs) /\ Len(SlugsOf(list)) = Len(list)
           /\ DOMAIN SlugsOf(list) = DOMAIN list
           /\ \A i \in DOMAIN list : SlugsOf(list)[i] = list[i].slug
<1>1. \A i \in 1 .. Len(list) : list[i] \in Project
    OBVIOUS
<1>2. \A i \in 1 .. Len(list) : list[i].slug \in Slugs
    BY <1>1 DEF Project
<1> QED BY <1>2 DEF SlugsOf

-----------------------------------------------------------------------------
(* The rows. *)

\* Two lists, one behind the other.
LEMMA Concatenated ==
    ASSUME NEW S, NEW l \in Seq(S), NEW r \in Seq(S), NEW k \in 1 .. Len(l) + Len(r)
    PROVE  (l \o r)[k] = IF k <= Len(l) THEN l[k] ELSE r[k - Len(l)]
OBVIOUS

\* A row taken out, a row put in.
LEMMA RemoveAtFacts ==
    ASSUME NEW S, NEW s \in Seq(S), NEW f \in 1 .. Len(s)
    PROVE  /\ RemoveAt(s, f) \in Seq(S) /\ Len(RemoveAt(s, f)) = Len(s) - 1
           /\ \A k \in 1 .. Len(s) - 1 :
                  RemoveAt(s, f)[k] = IF k < f THEN s[k] ELSE s[k + 1]
<1> DEFINE l == SubSeq(s, 1, f - 1)
           r == SubSeq(s, f + 1, Len(s))
<1>1. l \in Seq(S) /\ Len(l) = f - 1 /\ \A k \in 1 .. f - 1 : l[k] = s[k]
    OBVIOUS
<1>2. r \in Seq(S) /\ Len(r) = Len(s) - f /\ \A k \in 1 .. Len(s) - f : r[k] = s[f + k]
    OBVIOUS
<1>3. RemoveAt(s, f) = l \o r
    BY DEF RemoveAt
<1> HIDE DEF l, r
<1>4. RemoveAt(s, f) \in Seq(S) /\ Len(RemoveAt(s, f)) = Len(s) - 1
    BY <1>1, <1>2, <1>3
<1>5. ASSUME NEW k \in 1 .. Len(s) - 1
      PROVE  RemoveAt(s, f)[k] = IF k < f THEN s[k] ELSE s[k + 1]
    <2>1. CASE k < f
        BY <1>1, <1>2, <1>3, <2>1
    <2>2. CASE k >= f
        <3>1. (l \o r)[k] = r[k - (f - 1)]
            BY <1>1, <1>2, <2>2
        <3> QED BY <1>2, <1>3, <2>2, <3>1
    <2> QED BY <2>1, <2>2
<1> QED BY <1>4, <1>5

LEMMA InsertAtFacts ==
    ASSUME NEW S, NEW s \in Seq(S), NEW t \in 1 .. Len(s) + 1, NEW e \in S
    PROVE  /\ InsertAt(s, t, e) \in Seq(S) /\ Len(InsertAt(s, t, e)) = Len(s) + 1
           /\ InsertAt(s, t, e)[t] = e
           /\ \A k \in 1 .. Len(s) + 1 :
                  /\ k < t => InsertAt(s, t, e)[k] = s[k]
                  /\ k > t => InsertAt(s, t, e)[k] = s[k - 1]
<1> DEFINE l == SubSeq(s, 1, t - 1)
           r == SubSeq(s, t, Len(s))
<1>1. l \in Seq(S) /\ Len(l) = t - 1 /\ \A k \in 1 .. t - 1 : l[k] = s[k]
    OBVIOUS
<1>2. /\ r \in Seq(S) /\ Len(r) = Len(s) + 1 - t
      /\ \A k \in 1 .. Len(s) + 1 - t : r[k] = s[t + k - 1]
    OBVIOUS
<1>3. InsertAt(s, t, e) = (l \o <<e>>) \o r
    BY DEF InsertAt
<1> DEFINE m == l \o <<e>>
<1> HIDE DEF l, r
<1>4. m \in Seq(S) /\ Len(m) = t /\ m[t] = e /\ \A k \in 1 .. t - 1 : m[k] = s[k]
    <2>1. m = Append(l, e)
        BY <1>1
    <2> HIDE DEF m
    <2> QED BY <1>1, <2>1
<1> HIDE DEF m
<1>5. InsertAt(s, t, e) = m \o r
    BY <1>3 DEF m
<1>6. InsertAt(s, t, e) \in Seq(S) /\ Len(InsertAt(s, t, e)) = Len(s) + 1
    BY <1>2, <1>4, <1>5
<1>7. ASSUME NEW k \in 1 .. Len(s) + 1, k <= t
      PROVE  InsertAt(s, t, e)[k] = m[k]
    BY <1>2, <1>4, <1>5, <1>7
<1>8. ASSUME NEW k \in 1 .. Len(s) + 1, k > t
      PROVE  InsertAt(s, t, e)[k] = s[k - 1]
    <2>1. k \in 1 .. Len(m) + Len(r) /\ ~ (k <= Len(m)) /\ Len(m) = t
        BY <1>2, <1>4, <1>8
    <2>2. (m \o r)[k] = r[k - t]
        BY <1>2, <1>4, <2>1, Concatenated
    <2>3. k - t \in 1 .. Len(s) + 1 - t /\ t + (k - t) - 1 = k - 1
        BY <1>8
    <2>4. r[k - t] = s[k - 1]
        BY <1>2, <2>3
    <2> QED BY <1>5, <2>2, <2>4
<1> QED BY <1>4, <1>6, <1>7, <1>8

\* Moving a row keeps the rows, and those before both its places stay put.
LEMMA MoveRowFacts ==
    ASSUME NEW rows \in Seq(Slugs), OneEach(rows), NEW slug, NEW to \in Nat
    PROVE  LET moved == MoveRow(rows, slug, to)
           IN  /\ moved \in Seq(Slugs) /\ Len(moved) = Len(rows) /\ OneEach(moved)
               /\ ToSet(moved) = ToSet(rows)
               /\ \A f \in DOMAIN rows : rows[f] = slug /\ to < f =>
                      moved[to + 1] = slug /\ \A k \in 1 .. to : moved[k] = rows[k]
<1> DEFINE moved == MoveRow(rows, slug, to)
<1>1. CASE slug \notin ToSet(rows)
    <2>1. moved = rows
        BY <1>1 DEF MoveRow
    <2>2. \A f \in DOMAIN rows : rows[f] # slug
        BY <1>1 DEF ToSet
    <2> QED BY <2>1, <2>2
<1>2. CASE slug \in ToSet(rows)
    <2> DEFINE f == CHOOSE i \in DOMAIN rows : rows[i] = slug
               n == Len(rows)
               at == IF to < n THEN to ELSE n - 1
               others == RemoveAt(rows, f)
    <2>1. f \in 1 .. n /\ rows[f] = slug /\ n \in Nat \ {0} /\ slug \in Slugs
        BY <1>2 DEF ToSet
    <2>2. moved = InsertAt(others, at + 1, slug)
        BY <1>2 DEF MoveRow
    <2> HIDE DEF f
    <2>3. /\ others \in Seq(Slugs) /\ Len(others) = n - 1
          /\ \A k \in 1 .. n - 1 : others[k] = IF k < f THEN rows[k] ELSE rows[k + 1]
        BY <2>1, RemoveAtFacts
    <2>4. at \in 0 .. n - 1
        BY <2>1
    <2> HIDE DEF others, at, n
    <2>5. /\ moved \in Seq(Slugs) /\ Len(moved) = n
          /\ moved[at + 1] = slug
          /\ \A k \in 1 .. n :
                 /\ k < at + 1 => moved[k] = others[k]
                 /\ k > at + 1 => moved[k] = others[k - 1]
        <3>1. at + 1 \in 1 .. Len(others) + 1 /\ Len(others) + 1 = n
            BY <2>1, <2>3, <2>4
        <3> DEFINE place == at + 1
                   put == InsertAt(others, place, slug)
        <3> HIDE DEF place
        <3>2. /\ put \in Seq(Slugs) /\ Len(put) = Len(others) + 1 /\ put[place] = slug
              /\ \A k \in 1 .. Len(others) + 1 :
                     /\ k < place => put[k] = others[k]
                     /\ k > place => put[k] = others[k - 1]
            <4>1. place \in 1 .. Len(others) + 1
                BY <3>1 DEF place
            <4>2. slug \in Slugs
                BY <2>1
            <4>3. others \in Seq(Slugs)
                BY <2>3
            <4> QED BY <4>1, <4>2, <4>3, InsertAtFacts
        <3>3. moved = put
            BY <2>2 DEF place
        <3> HIDE DEF moved, put
        <3> QED BY <3>1, <3>2, <3>3 DEF place
    <2> HIDE DEF moved
    <2> DEFINE from(k) == IF k = at + 1 THEN f
                          ELSE IF k < at + 1 THEN (IF k < f THEN k ELSE k + 1)
                          ELSE (IF k - 1 < f THEN k - 1 ELSE k)
    <2>6. \A k \in 1 .. n : from(k) \in 1 .. n /\ moved[k] = rows[from(k)]
        <3> SUFFICES ASSUME NEW k \in 1 .. n PROVE from(k) \in 1 .. n /\ moved[k] = rows[from(k)]
            OBVIOUS
        <3>1. CASE k = at + 1
            BY <2>1, <2>5, <3>1
        <3>2. CASE k < at + 1
            <4>1. k \in 1 .. n - 1 /\ moved[k] = others[k]
                BY <2>1, <2>4, <2>5, <3>2
            <4> QED BY <2>1, <2>3, <3>2, <4>1
        <3>3. CASE k > at + 1
            <4>1. k - 1 \in 1 .. n - 1 /\ moved[k] = others[k - 1]
                BY <2>1, <2>4, <2>5, <3>3
            <4>2. from(k) = IF k - 1 < f THEN k - 1 ELSE k
                BY <2>4, <3>3
            <4> HIDE DEF from
            <4> QED BY <2>1, <2>3, <4>1, <4>2
        <3> QED BY <2>1, <2>4, <3>1, <3>2, <3>3
    <2>7. \A k, l \in 1 .. n : from(k) = from(l) => k = l
        BY <2>1, <2>4
    <2>8. \A i \in 1 .. n : \E k \in 1 .. n : from(k) = i
        <3> SUFFICES ASSUME NEW i \in 1 .. n PROVE \E k \in 1 .. n : from(k) = i
            OBVIOUS
        <3>1. CASE i = f
            <4>1. at + 1 \in 1 .. n /\ from(at + 1) = i
                BY <2>1, <2>4, <3>1
            <4> QED BY <4>1
        <3>2. CASE i < f
            <4>1. CASE i <= at
                <5>1. from(i) = i
                    BY <2>1, <2>4, <3>2, <4>1
                <5> QED BY <5>1
            <4>2. CASE i > at
                <5>1. i + 1 \in 1 .. n /\ from(i + 1) = i
                    BY <2>1, <2>4, <3>2, <4>2
                <5> QED BY <5>1
            <4> QED BY <2>4, <4>1, <4>2
        <3>3. CASE i > f
            <4>1. CASE i <= at + 1
                <5>1. i - 1 \in 1 .. n /\ from(i - 1) = i
                    BY <2>1, <2>4, <3>3, <4>1
                <5> QED BY <5>1
            <4>2. CASE i > at + 1
                <5>1. from(i) = i
                    BY <2>1, <2>4, <3>3, <4>2
                <5> QED BY <5>1
            <4> QED BY <2>4, <4>1, <4>2
        <3> QED BY <2>1, <3>1, <3>2, <3>3
    <2>9. DOMAIN moved = 1 .. n /\ DOMAIN rows = 1 .. n
        BY <2>5 DEF n
    <2>10. OneEach(moved)
        BY <2>6, <2>7, <2>9 DEF OneEach
    <2>11. ToSet(moved) = ToSet(rows)
        <3> HIDE DEF from
        <3>1. \A k \in 1 .. n : \E i \in 1 .. n : moved[k] = rows[i]
            BY <2>6
        <3>2. \A i \in 1 .. n : \E k \in 1 .. n : moved[k] = rows[i]
            BY <2>6, <2>8
        <3>3. ToSet(moved) = {moved[k] : k \in 1 .. n} /\ ToSet(rows) = {rows[i] : i \in 1 .. n}
            BY <2>9 DEF ToSet
        <3> QED BY <3>1, <3>2, <3>3
    <2>12. ASSUME NEW g \in DOMAIN rows, rows[g] = slug, to < g
           PROVE  moved[to + 1] = slug /\ \A k \in 1 .. to : moved[k] = rows[k]
        <3>1. g = f
            BY <2>1, <2>9, <2>12 DEF OneEach
        <3>2. at = to /\ to + 1 \in 1 .. n
            BY <2>1, <2>12, <3>1 DEF at
        <3> QED BY <2>1, <2>5, <2>6, <2>12, <3>1, <3>2
    <2> QED BY <2>5, <2>10, <2>11, <2>12 DEF n, moved
<1> QED BY <1>1, <1>2

\* The rows after each move of shuffling back: what the function that
\* ShuffleBack defines by recursion is, and that there is one.
Stages(g, rows, target, n) ==
    g = [i \in 0 .. n |-> IF i = 0 THEN rows ELSE MoveRow(g[i - 1], target[i], i - 1)]

LEMMA StagesExist ==
    ASSUME NEW rows, NEW target, NEW N \in Nat
    PROVE  \E g : Stages(g, rows, target, N)
<1> DEFINE lacking == {n \in Nat : ~ \E g : Stages(g, rows, target, n)}
<1>1. SUFFICES ASSUME lacking # {} PROVE FALSE
    OBVIOUS
<1>2. PICK n \in lacking : \A k \in lacking : n <= k
    <2>1. lacking \subseteq Nat
        OBVIOUS
    <2> HIDE DEF lacking
    <2> QED BY <1>1, <2>1, Least
<1>3. CASE n = 0
    <2> DEFINE g == [i \in 0 .. 0 |-> rows]
    <2>1. Stages(g, rows, target, 0)
        BY DEF Stages
    <2> QED BY <1>2, <1>3, <2>1
<1>4. CASE n # 0
    <2>1. n - 1 \in Nat /\ n - 1 \notin lacking
        <3>1. n \in Nat \ {0}
            BY <1>2, <1>4
        <3> HIDE DEF lacking
        <3> QED BY <1>2, <3>1
    <2>2. PICK g : Stages(g, rows, target, n - 1)
        BY <2>1
    <2> DEFINE h == [i \in 0 .. n |->
                        IF i = n THEN MoveRow(g[n - 1], target[n], n - 1) ELSE g[i]]
    <2>3. \A i \in 0 .. n - 1 : h[i] = g[i]
        BY <2>1
    <2>4. \A i \in 0 .. n - 1 :
              g[i] = IF i = 0 THEN rows ELSE MoveRow(g[i - 1], target[i], i - 1)
        BY <2>2 DEF Stages
    <2> HIDE DEF h
    <2>5. ASSUME NEW i \in 0 .. n
          PROVE  h[i] = IF i = 0 THEN rows ELSE MoveRow(h[i - 1], target[i], i - 1)
        <3>1. CASE i = n
            <4>1. h[i] = MoveRow(g[n - 1], target[n], n - 1)
                BY <3>1 DEF h
            <4>2. h[n - 1] = g[n - 1]
                BY <2>1, <2>3
            <4> QED BY <1>4, <3>1, <4>1, <4>2
        <3>2. CASE i # n
            <4>1. i \in 0 .. n - 1
                BY <2>1, <3>2
            <4>2. i # 0 => i - 1 \in 0 .. n - 1
                BY <4>1
            <4> QED BY <2>3, <2>4, <4>1, <4>2
        <3> QED BY <3>1, <3>2
    <2>6. Stages(h, rows, target, n)
        BY <2>5 DEF h, Stages
    <2> QED BY <1>2, <2>6
<1> QED BY <1>3, <1>4

\* Rows that show the projects of `target` in any order are put back into its.
LEMMA ShuffleBackRestores ==
    ASSUME NEW rows \in Seq(Slugs), NEW target \in Seq(Slugs), OneEach(rows), OneEach(target),
           Len(rows) = Len(target), ToSet(rows) = ToSet(target)
    PROVE  ShuffleBack(rows, target) = target
<1> DEFINE n == Len(target)
           moved[i \in 0 .. n] == IF i = 0 THEN rows ELSE MoveRow(moved[i - 1], target[i], i - 1)
           Good(r, i) == /\ r \in Seq(Slugs) /\ OneEach(r) /\ Len(r) = n /\ ToSet(r) = ToSet(target)
                         /\ \A k \in 1 .. i : r[k] = target[k]
<1>1. moved = [i \in 0 .. n |-> IF i = 0 THEN rows ELSE MoveRow(moved[i - 1], target[i], i - 1)]
    <2>1. n \in Nat
        OBVIOUS
    <2>2. \E g : Stages(g, rows, target, n)
        BY <2>1, StagesExist
    <2> QED BY <2>2 DEF Stages
<1>2. ShuffleBack(rows, target) = moved[n]
    BY DEF ShuffleBack
<1> HIDE DEF moved
<1>3. n \in Nat /\ moved[0] = rows
      /\ \A i \in 1 .. n : moved[i] = MoveRow(moved[i - 1], target[i], i - 1)
    BY <1>1
<1> DEFINE bad == {i \in 0 .. n : ~ Good(moved[i], i)}
<1>4. bad = {}
    <2> SUFFICES ASSUME bad # {} PROVE FALSE
        OBVIOUS
    <2>1. PICK i \in bad : \A k \in bad : i <= k
        <3>1. bad \subseteq Nat
            BY <1>3
        <3> HIDE DEF bad
        <3> QED BY <3>1, Least
    <2>2. i # 0
        BY <1>3, <2>1
    <2>3. i \in 1 .. n /\ i - 1 \in 0 .. n
        BY <1>3, <2>1, <2>2
    <2> DEFINE r == moved[i - 1]
    <2>4. Good(r, i - 1)
        BY <2>1, <2>3
    <2>5. moved[i] = MoveRow(r, target[i], i - 1)
        BY <1>3, <2>3
    <2> HIDE DEF r
    <2>6. PICK f \in DOMAIN r : r[f] = target[i]
        <3>1. target[i] \in ToSet(target)
            BY <2>3 DEF ToSet
        <3>2. target[i] \in ToSet(r)
            BY <2>4, <3>1
        <3> QED BY <3>2 DEF ToSet
    <2>7. i - 1 < f
        <3>1. f \in 1 .. n
            BY <2>4, <2>6
        <3>2. f < i => target[f] = target[i] /\ i \in DOMAIN target /\ f \in DOMAIN target
            BY <2>3, <2>4, <2>6, <3>1
        <3>3. f < i => f = i
            BY <3>2 DEF OneEach
        <3> QED BY <2>3, <3>1, <3>3
    <2>8. i - 1 \in Nat
        BY <2>3
    <2> DEFINE next == MoveRow(r, target[i], i - 1)
    <2>9. /\ next \in Seq(Slugs) /\ Len(next) = Len(r) /\ OneEach(next) /\ ToSet(next) = ToSet(r)
          /\ next[i - 1 + 1] = target[i] /\ \A k \in 1 .. i - 1 : next[k] = r[k]
        BY <2>4, <2>6, <2>7, <2>8, MoveRowFacts
    <2> HIDE DEF next
    <2>10. \A k \in 1 .. i : next[k] = target[k]
        BY <2>3, <2>4, <2>9
    <2> QED BY <2>1, <2>4, <2>5, <2>9, <2>10 DEF next
<1>5. Good(moved[n], n)
    BY <1>3, <1>4
<1> QED BY <1>2, <1>5

-----------------------------------------------------------------------------
(* A reorder. *)

\* The place of a listed slug is the last one it has.
LEMMA PlaceFacts ==
    ASSUME NEW order \in Seq(Slugs), NEW s \in ToSet(order)
    PROVE  /\ Place(order, s) \in Nat /\ Place(order, s) < Len(order)
           /\ order[Place(order, s) + 1] = s
           /\ \A i \in DOMAIN order : order[i] = s => i - 1 <= Place(order, s)
<1> DEFINE I == {i \in DOMAIN order : order[i] = s}
<1>1. I \subseteq 0 .. Len(order) /\ I # {} /\ Len(order) \in Nat
    BY DEF ToSet
<1>2. Max(I) \in I /\ \A i \in I : i <= Max(I)
    <2> HIDE DEF I
    <2> QED BY <1>1, MaxFacts
<1>3. /\ Max(I) \in 1 .. Len(order) /\ order[Max(I)] = s
      /\ \A i \in DOMAIN order : order[i] = s => i <= Max(I)
    BY <1>2
<1>4. Place(order, s) = Max(I) - 1
    BY DEF Place
<1> HIDE DEF I
<1> QED BY <1>1, <1>3, <1>4

\* Projects of different slugs are put in order: no two get one position, the
\* listed ones get those below Len(order), and the others' rise as the old ones
\* did. From a list in order this is what a reorder promises.
LEMMA ReorderedFacts ==
    ASSUME NEW list \in Seq(Project), OneEach(SlugsOf(list)), NEW order \in Seq(Slugs)
    PROVE  LET after == Reordered(list, order)
           IN  /\ after \in Seq(Project) /\ InOrder(after) /\ OneEach(SlugsOf(after))
               /\ Known(after) = Known(list)
               /\ \A p \in ToSet(after) :
                      p.slug \in ToSet(order) => p.position = Place(order, p.slug)
               /\ InOrder(list) => Promised(SlugsOf(list), order, SlugsOf(after))
<1> DEFINE n == Len(list)
           slug(i) == list[i].slug
           pos(i) == IF slug(i) \in ToSet(order) THEN Place(order, slug(i))
                     ELSE Len(order) + Cardinality(Ahead(list, order, i))
           moved(i) == [list[i] EXCEPT !.position = pos(i)]
           M == {moved(i) : i \in DOMAIN list}
           after == Loaded(M)
           Early(i, j) == \/ list[i].position < list[j].position
                          \/ list[i].position = list[j].position /\ i < j
<1>1. n \in Nat /\ DOMAIN list = 1 .. n /\ Len(order) \in Nat
      /\ \A i \in 1 .. n : list[i] \in Project /\ slug(i) \in Slugs
    <2>1. n \in Nat /\ DOMAIN list = 1 .. n /\ Len(order) \in Nat
          /\ \A i \in 1 .. n : list[i] \in Project
        OBVIOUS
    <2> QED BY <2>1 DEF Project
<1>2. \A i, j \in 1 .. n : slug(i) = slug(j) => i = j
    BY <1>1 DEF OneEach, SlugsOf
<1>3. ASSUME NEW s \in ToSet(order)
      PROVE  /\ Place(order, s) \in Nat /\ Place(order, s) < Len(order)
             /\ order[Place(order, s) + 1] = s
    BY PlaceFacts
<1>4. ASSUME NEW i \in 1 .. n, NEW j \in 1 .. n, Early(i, j), slug(i) \notin ToSet(order)
      PROVE  Cardinality(Ahead(list, order, i)) < Cardinality(Ahead(list, order, j))
    <2>1. \A k \in 1 .. n : list[k].position \in Nat
        BY <1>1 DEF Project
    <2>2. Ahead(list, order, i) \subseteq Ahead(list, order, j)
        <3> SUFFICES ASSUME NEW k \in 1 .. n, k \in Ahead(list, order, i)
                     PROVE  k \in Ahead(list, order, j)
            BY <1>1 DEF Ahead
        <3>1. \/ list[k].position < list[i].position
              \/ list[k].position = list[i].position /\ k < i
            BY DEF Ahead
        <3>2. Early(k, j)
            <4>1. {list[k].position, list[i].position, list[j].position} \subseteq Nat
                BY <2>1
            <4>2. Early(i, j)
                BY <1>4
            <4> QED BY <1>1, <3>1, <4>1, <4>2
        <3> QED BY <1>1, <3>2 DEF Ahead
    <2>3. i \in Ahead(list, order, j) /\ i \notin Ahead(list, order, i)
        BY <1>1, <1>4, <2>1 DEF Ahead
    <2>4. IsFiniteSet(Ahead(list, order, j))
        <3>1. Ahead(list, order, j) \in SUBSET (1 .. n) /\ IsFiniteSet(1 .. n)
            BY <1>1, FS_Interval DEF Ahead
        <3> QED BY <3>1, FS_Subset
    <2>5. /\ Cardinality(Ahead(list, order, i)) <= Cardinality(Ahead(list, order, j))
          /\ Cardinality(Ahead(list, order, i)) # Cardinality(Ahead(list, order, j))
        BY <2>2, <2>3, <2>4, FS_Subset
    <2>6. Cardinality(Ahead(list, order, j)) \in Nat /\ Cardinality(Ahead(list, order, i)) \in Nat
        BY <2>2, <2>4, FS_Subset, FS_CardinalityType
    <2> QED BY <2>5, <2>6
<1>5. \A i \in 1 .. n : Cardinality(Ahead(list, order, i)) \in Nat
    <2> SUFFICES ASSUME NEW i \in 1 .. n PROVE Cardinality(Ahead(list, order, i)) \in Nat
        OBVIOUS
    <2>1. Ahead(list, order, i) \in SUBSET (1 .. n) /\ IsFiniteSet(1 .. n)
        BY <1>1, FS_Interval DEF Ahead
    <2>2. IsFiniteSet(Ahead(list, order, i))
        BY <2>1, FS_Subset
    <2> QED BY <2>2, FS_CardinalityType
<1>6. ASSUME NEW i \in 1 .. n
      PROVE  /\ pos(i) \in Nat
             /\ slug(i) \in ToSet(order) =>
                    /\ pos(i) = Place(order, slug(i)) /\ pos(i) < Len(order)
                    /\ order[pos(i) + 1] = slug(i)
             /\ slug(i) \notin ToSet(order) =>
                    /\ pos(i) = Len(order) + Cardinality(Ahead(list, order, i))
                    /\ pos(i) >= Len(order)
    BY <1>1, <1>3, <1>5
<1>7. \A i, j \in 1 .. n : slug(i) \notin ToSet(order) /\ slug(j) \notin ToSet(order)
                                 /\ Early(i, j)
                             => pos(i) < pos(j)
    BY <1>1, <1>4, <1>5, <1>6
<1> HIDE DEF pos
<1>8. \A i, j \in 1 .. n : pos(i) = pos(j) => i = j
    <2> SUFFICES ASSUME NEW i \in 1 .. n, NEW j \in 1 .. n, pos(i) = pos(j), i # j PROVE FALSE
        OBVIOUS
    <2>1. (slug(i) \in ToSet(order)) = (slug(j) \in ToSet(order))
        BY <1>1, <1>6
    <2>2. CASE slug(i) \in ToSet(order)
        BY <1>2, <1>6, <2>1, <2>2
    <2>3. CASE slug(i) \notin ToSet(order)
        <3>1. list[i].position \in Nat /\ list[j].position \in Nat
            BY <1>1 DEF Project
        <3>2. Early(i, j) \/ Early(j, i)
            BY <3>1
        <3> HIDE DEF Early
        <3> QED BY <1>6, <1>7, <2>1, <2>3, <3>2
    <2> QED BY <2>2, <2>3
<1>9. \A i \in 1 .. n : moved(i) \in Project /\ moved(i).slug = slug(i)
                         /\ moved(i).position = pos(i)
    BY <1>1, <1>6 DEF Project
<1> HIDE DEF moved
<1>10. M \in SUBSET Project /\ IsFiniteSet(M) /\ Cardinality(M) = n
    <2> DEFINE f == [i \in 1 .. n |-> moved(i)]
    <2>1. f \in Surjection(1 .. n, M)
        BY <1>1 DEF Surjection
    <2>2. f \in Injection(1 .. n, M)
        BY <1>1, <1>2, <1>9 DEF Injection, IsInjective
    <2>3. IsFiniteSet(1 .. n) /\ Cardinality(1 .. n) = n
        <3>1. 1 \in Int /\ n \in Int /\ (1 > n => n = 0) /\ n - 1 + 1 = n
            BY <1>1
        <3> QED BY <3>1, FS_Interval
    <2> HIDE DEF f
    <2>4. IsFiniteSet(M) /\ Cardinality(M) = n
        BY <2>1, <2>2, <2>3, FS_Surjection
    <2>5. M \in SUBSET Project
        BY <1>1, <1>9
    <2> QED BY <2>4, <2>5
<1>11. Reordered(list, order) = after
    BY DEF Reordered, moved, pos
<1>12. /\ after \in [1 .. n -> M] /\ after \in Seq(Project) /\ Len(after) = n
       /\ InOrder(after) /\ ToSet(after) = M
    <2> HIDE DEF M, after
    <2>1. /\ after \in [1 .. Cardinality(M) -> M] /\ after \in Seq(Project)
          /\ InOrder(after) /\ ToSet(after) = M
        BY <1>10, LoadedFacts DEF after
    <2> QED BY <1>1, <1>10, <2>1
<1> HIDE DEF after
<1>13. \A a \in 1 .. n : \E i \in 1 .. n : after[a] = moved(i)
    BY <1>1, <1>12
<1>14. ASSUME NEW a \in 1 .. n, NEW b \in 1 .. n, a < b,
              NEW i \in 1 .. n, NEW j \in 1 .. n, after[a] = moved(i), after[b] = moved(j)
       PROVE  pos(i) < pos(j)
    <2>1. Before(moved(i), moved(j))
        BY <1>12, <1>14 DEF InOrder
    <2>2. pos(i) <= pos(j)
        BY <1>6, <1>9, <2>1 DEF Before
    <2>3. i # j
        BY <1>9, <2>1, BeforeOrders
    <2> QED BY <1>6, <1>8, <2>2, <2>3
<1>15. OneEach(SlugsOf(after))
    <2> SUFFICES ASSUME NEW a \in 1 .. n, NEW b \in 1 .. n, after[a].slug = after[b].slug, a < b
                 PROVE  FALSE
        BY <1>1, <1>12 DEF OneEach, SlugsOf
    <2>1. PICK i \in 1 .. n, j \in 1 .. n : after[a] = moved(i) /\ after[b] = moved(j)
        BY <1>13
    <2>2. i = j
        BY <1>2, <1>9, <2>1
    <2> QED BY <1>6, <1>14, <2>1, <2>2
<1>16. /\ Known(after) = Known(list)
       /\ InOrder(list) => Promised(SlugsOf(list), order, SlugsOf(after))
    <2> DEFINE old == SlugsOf(list)
               new == SlugsOf(after)
    <2>1. /\ DOMAIN old = 1 .. n /\ DOMAIN new = 1 .. n /\ Len(old) = n /\ Len(new) = n
          /\ \A i \in 1 .. n : old[i] = slug(i) /\ new[i] = after[i].slug
        BY <1>1, <1>12 DEF SlugsOf
    <2> HIDE DEF old, new
    <2>2. ToSet(new) = ToSet(old)
        <3>1. \A a \in 1 .. n : \E i \in 1 .. n : new[a] = old[i]
            BY <1>9, <1>13, <2>1
        <3>2. \A i \in 1 .. n : \E a \in 1 .. n : new[a] = old[i]
            <4> SUFFICES ASSUME NEW i \in 1 .. n PROVE \E a \in 1 .. n : new[a] = old[i]
                OBVIOUS
            <4>1. moved(i) \in ToSet(after)
                BY <1>1, <1>12
            <4>2. PICK a \in 1 .. n : after[a] = moved(i)
                BY <1>12, <4>1 DEF ToSet
            <4> QED BY <1>9, <2>1, <4>2
        <3>3. ToSet(new) = {new[a] : a \in 1 .. n} /\ ToSet(old) = {old[i] : i \in 1 .. n}
            BY <2>1 DEF ToSet
        <3> QED BY <3>1, <3>2, <3>3
    <2>3. ASSUME InOrder(list), NEW a \in 1 .. n, NEW b \in 1 .. n, a < b
          PROVE  GoesFirst(new[a], new[b], old, order)
        <3>1. PICK i \in 1 .. n, j \in 1 .. n : after[a] = moved(i) /\ after[b] = moved(j)
            BY <1>13
        <3>2. pos(i) < pos(j)
            BY <1>14, <2>3, <3>1
        <3>3. new[a] = slug(i) /\ new[b] = slug(j) /\ old[i] = slug(i) /\ old[j] = slug(j)
            BY <1>9, <2>1, <3>1
        <3>4. CASE slug(i) \in ToSet(order)
            <4>1. pos(i) = Place(order, slug(i))
                BY <1>6, <3>4
            <4>2. slug(j) \in ToSet(order) => pos(j) = Place(order, slug(j))
                BY <1>6
            <4>3. slug(j) \in ToSet(order) => Place(order, slug(i)) < Place(order, slug(j))
                BY <3>2, <4>1, <4>2
            <4> HIDE DEF slug
            <4> QED BY <3>3, <3>4, <4>3 DEF GoesFirst
        <3>5. CASE slug(i) \notin ToSet(order)
            <4> HIDE DEF slug
            <4>1. pos(i) \in Nat /\ pos(j) \in Nat /\ Len(order) \in Nat
                BY <1>6
            <4>2. pos(i) >= Len(order)
                BY <1>6, <3>5
            <4>3. slug(j) \in ToSet(order) => pos(j) < Len(order)
                BY <1>6
            <4>4. slug(j) \notin ToSet(order)
                BY <3>2, <4>1, <4>2, <4>3
            <4>5. j < i => pos(j) < pos(i)
                <5> SUFFICES ASSUME j < i PROVE pos(j) < pos(i)
                    OBVIOUS
                <5>1. Before(list[j], list[i])
                    BY <1>1, <2>3 DEF InOrder
                <5>2. Early(j, i)
                    BY <5>1 DEF Before
                <5> HIDE DEF Early
                <5> QED BY <1>7, <3>5, <4>4, <5>2
            <4>6. i # j /\ ~(j < i)
                BY <3>2, <4>1, <4>5
            <4>7. i < j
                BY <4>6
            <4> QED BY <2>1, <3>3, <3>5, <4>4, <4>7 DEF GoesFirst
        <3> QED BY <3>4, <3>5
    <2>4. InOrder(list) => Promised(old, order, new)
        BY <2>1, <2>2, <2>3 DEF Promised
    <2> QED BY <2>2, <2>4 DEF old, new, Known
<1>17. ASSUME NEW p \in ToSet(after), p.slug \in ToSet(order)
       PROVE  p.position = Place(order, p.slug)
    <2>1. PICK i \in 1 .. n : p = moved(i)
        BY <1>1, <1>12
    <2> QED BY <1>6, <1>9, <1>17, <2>1
<1> QED BY <1>11, <1>12, <1>15, <1>16, <1>17

\* What a reorder writes: of every project whose file does not say it already,
\* in the end what the list says.
LEMMA WritesFacts ==
    ASSUME NEW list \in Seq(Project), OneEach(SlugsOf(list)), NEW order \in Seq(Slugs),
           ToSet(order) \subseteq Known(list)
    PROVE  LET writes == Writes(list, order)
           IN  /\ writes \in Seq(Project)
               /\ \A k \in DOMAIN writes : writes[k].slug \in Known(list)
               /\ \A p \in ToSet(Reordered(list, order)) :
                      \/ p \in ToSet(list) /\ \A k \in DOMAIN writes : writes[k].slug # p.slug
                      \/ \E k \in DOMAIN writes :
                             /\ writes[k] = p
                             /\ \A l \in DOMAIN writes : l > k => writes[l].slug # p.slug
<1> DEFINE after == Reordered(list, order)
           A == Assigned(list, order)
           C == {p \in A : \/ p \notin ToSet(list)
                           \/ \E q \in A : q.slug = p.slug /\ q.position < p.position}
           writes == Loaded(C)
           listed == {[slug |-> order[i], position |-> i - 1] : i \in DOMAIN order}
           others == {p \in ToSet(after) : p.slug \notin ToSet(order)}
<1>1. /\ after \in Seq(Project) /\ OneEach(SlugsOf(after)) /\ Known(after) = Known(list)
      /\ \A p \in ToSet(after) : p.slug \in ToSet(order) => p.position = Place(order, p.slug)
    BY ReorderedFacts
<1>2. A = listed \cup others
    BY DEF Assigned
<1> HIDE DEF after, A
<1>3. \A p \in ToSet(after) : p \in Project /\ p.slug \in Known(list)
    <2>1. \A p \in ToSet(after) : p \in Project
        BY <1>1 DEF ToSet
    <2>2. \A i \in DOMAIN after : after[i].slug \in Known(after)
        BY <1>1, SlugsFacts DEF Known, ToSet
    <2> QED BY <1>1, <2>1, <2>2 DEF ToSet
<1>4. \A p, q \in ToSet(after) : p.slug = q.slug => p = q
    <2>1. \A i, j \in DOMAIN after : after[i].slug = after[j].slug => i = j
        BY <1>1, SlugsFacts DEF OneEach
    <2> QED BY <2>1 DEF ToSet
<1>5. listed \subseteq Project /\ IsFiniteSet(listed) /\ \A p \in listed : p.slug \in ToSet(order)
    <2>1. \A i \in 1 .. Len(order) : i - 1 \in Nat /\ order[i] \in Slugs
        OBVIOUS
    <2>2. \A i \in 1 .. Len(order) : order[i] \in ToSet(order)
        BY DEF ToSet
    <2> HIDE DEF listed
    <2>3. ASSUME NEW p \in listed PROVE p \in Project /\ p.slug \in ToSet(order)
        <3>1. PICK i \in 1 .. Len(order) : p = [slug |-> order[i], position |-> i - 1]
            BY DEF listed
        <3>2. p.slug = order[i]
            BY <3>1
        <3> QED BY <2>1, <2>2, <3>1, <3>2 DEF Project
    <2> DEFINE f == [i \in 1 .. Len(order) |-> [slug |-> order[i], position |-> i - 1]]
    <2>4. f \in Surjection(1 .. Len(order), listed)
        <3>1. DOMAIN order = 1 .. Len(order)
            OBVIOUS
        <3>2. \A p \in listed : \E i \in 1 .. Len(order) : f[i] = p
            BY <3>1 DEF listed
        <3>3. \A i \in 1 .. Len(order) : f[i] \in listed
            BY <3>1 DEF listed
        <3>4. f \in [1 .. Len(order) -> listed]
            BY <3>3
        <3> HIDE DEF f
        <3> QED BY <3>2, <3>4 DEF Surjection
    <2>5. IsFiniteSet(1 .. Len(order))
        BY FS_Interval
    <2> QED BY <2>3, <2>4, <2>5, FS_Surjection
<1>6. A \subseteq Project /\ IsFiniteSet(A) /\ \A p \in A : p.slug \in Known(list)
    <2>1. IsFiniteSet(others)
        <3>1. IsFiniteSet(ToSet(after)) /\ others \in SUBSET ToSet(after)
            BY <1>1, ListFinite
        <3> QED BY <3>1, FS_Subset
    <2>2. IsFiniteSet(A)
        <3> HIDE DEF listed, others
        <3> QED BY <1>2, <1>5, <2>1, FS_Union
    <2>3. others \subseteq Project /\ \A p \in others : p.slug \in Known(list)
        BY <1>3
    <2> HIDE DEF listed, others
    <2> QED BY <1>2, <1>5, <2>2, <2>3
<1>7. C \in SUBSET Project /\ IsFiniteSet(C)
    <2>1. C \in SUBSET A
        OBVIOUS
    <2>2. IsFiniteSet(C)
        BY <1>6, <2>1, FS_Subset
    <2> QED BY <1>6, <2>1, <2>2
<1>8. writes \in Seq(Project) /\ InOrder(writes) /\ ToSet(writes) = C
    <2> HIDE DEF C
    <2> QED BY <1>7, LoadedFacts
<1> HIDE DEF writes
<1>9. \A k \in DOMAIN writes : writes[k] \in C /\ writes[k] \in A
    BY <1>8 DEF ToSet
<1>10. ASSUME NEW p \in ToSet(after)
       PROVE  p \in A /\ \A a \in A : a.slug = p.slug => a.position < p.position \/ a = p
    <2>1. CASE p.slug \notin ToSet(order)
        <3>1. p \in others
            BY <2>1
        <3>2. \A a \in A : a.slug = p.slug => a \in ToSet(after)
            BY <1>2, <1>5, <2>1
        <3> QED BY <1>2, <1>4, <3>1, <3>2
    <2>2. CASE p.slug \in ToSet(order)
        <3> DEFINE at == Place(order, p.slug)
        <3>1. /\ at \in Nat /\ at < Len(order) /\ order[at + 1] = p.slug
              /\ \A i \in DOMAIN order : order[i] = p.slug => i - 1 <= at
            BY <2>2, PlaceFacts
        <3>2. p.position = at /\ p \in Project
            BY <1>1, <1>3, <2>2
        <3> HIDE DEF at
        <3>3. PICK i \in DOMAIN order : i - 1 = at /\ order[i] = p.slug
            <4>1. at + 1 - 1 = at /\ at + 1 \in DOMAIN order
                BY <3>1
            <4> QED BY <3>1, <4>1
        <3>4. p = [slug |-> order[i], position |-> i - 1] /\ p \in listed
            <4>1. p = [slug |-> p.slug, position |-> p.position]
                BY <3>2 DEF Project
            <4>2. p = [slug |-> order[i], position |-> i - 1]
                BY <3>2, <3>3, <4>1
            <4> QED BY <4>2
        <3>5. ASSUME NEW a \in A, a.slug = p.slug PROVE a.position < p.position \/ a = p
            <4>1. a \in listed
                BY <1>2, <2>2, <3>5
            <4>2. PICK k \in DOMAIN order : a = [slug |-> order[k], position |-> k - 1]
                BY <4>1
            <4>3. a.slug = order[k] /\ a.position = k - 1
                BY <4>2
            <4>4. k - 1 <= at /\ k - 1 \in Nat
                BY <3>1, <3>5, <4>3
            <4>5. k - 1 = at => a = p
                BY <3>3, <3>4, <3>5, <4>2, <4>3
            <4> QED BY <3>1, <3>2, <4>3, <4>4, <4>5
        <3> QED BY <1>2, <3>4, <3>5
    <2> QED BY <2>1, <2>2
<1>11. ASSUME NEW p \in ToSet(after)
       PROVE  \/ p \in ToSet(list) /\ \A k \in DOMAIN writes : writes[k].slug # p.slug
              \/ \E k \in DOMAIN writes :
                     /\ writes[k] = p
                     /\ \A l \in DOMAIN writes : l > k => writes[l].slug # p.slug
    <2>1. CASE \A k \in DOMAIN writes : writes[k].slug # p.slug
        <3>1. p \notin C
            BY <1>8, <2>1 DEF ToSet
        <3> QED BY <1>10, <2>1, <3>1
    <2>2. CASE \E k \in DOMAIN writes : writes[k].slug = p.slug
        <3>1. PICK a \in C : a.slug = p.slug
            BY <1>9, <2>2
        <3>2. p \in C
            BY <1>10, <3>1
        <3>3. PICK k \in DOMAIN writes : writes[k] = p
            BY <1>8, <3>2 DEF ToSet
        <3>4. ASSUME NEW l \in DOMAIN writes, l > k, writes[l].slug = p.slug PROVE FALSE
            <4>1. Before(p, writes[l])
                BY <1>8, <3>3, <3>4 DEF InOrder
            <4>2. writes[l].position < p.position \/ writes[l] = p
                BY <1>9, <1>10, <3>4
            <4>3. writes[l] \in Project /\ p \in Project
                BY <1>3, <1>6, <1>9
            <4>4. writes[l] # p
                BY <4>1, <4>3, BeforeOrders
            <4>5. {p.position, writes[l].position} \subseteq Nat
                BY <4>3 DEF Project
            <4> QED BY <3>4, <4>1, <4>2, <4>4, <4>5, SlugAssumption, <4>3 DEF Before, Project
        <3> QED BY <3>3, <3>4
    <2> QED BY <2>1, <2>2
<1>12. Writes(list, order) = writes
    BY DEF Writes, writes, A
<1> QED BY <1>6, <1>8, <1>9, <1>11, <1>12 DEF after

-----------------------------------------------------------------------------
(* The inductive invariant. *)

\* The actor's list has no slug twice, and it is in order unless next_position
\* has overflowed.
ListInv == (wrapped \/ InOrder(projects)) /\ OneEach(SlugsOf(projects))

\* There is a file per project, and each says what the list does, or will once
\* the rest of a reorder is written.
Written ==
    /\ {f.slug : f \in files} = Known(projects)
    /\ \A k \in DOMAIN todo : todo[k].slug \in Known(projects)
    /\ \A p \in ToSet(projects) :
           \/ p \in files /\ \A k \in DOMAIN todo : todo[k].slug # p.slug
           \/ \E k \in DOMAIN todo :
                  todo[k] = p /\ \A l \in DOMAIN todo : l > k => todo[l].slug # p.slug

\* A slug has one file; only a failed write keeps the files from the list.
FilesInv ==
    /\ IsFiniteSet(files) /\ \A f, g \in files : f.slug = g.slug => f = g
    /\ ~handling => todo = <<>>
    /\ ~failed => Written

Rows == {s \in Seq(Slugs) : OneEach(s)}

\* Every list of rows, on its way or shown, has no slug twice, and the rows on
\* screen are the committed ones, in another order only while a drag goes on.
RowsInv ==
    /\ updates \in Seq(Rows) /\ committed \in Rows /\ visual \in Rows
    /\ Len(visual) = Len(committed) /\ ToSet(visual) = ToSet(committed)
    /\ DivergeOnlyInDrag

RailInv == TypeOK /\ ListInv /\ FilesInv /\ RowsInv

\* What queueing and taking do to a queue.
LEMMA QueueFacts ==
    ASSUME NEW S, NEW s \in Seq(S)
    PROVE  /\ \A e \in S : Append(s, e) \in Seq(S) /\ Len(Append(s, e)) = Len(s) + 1
           /\ s # <<>> => Head(s) \in S /\ Tail(s) \in Seq(S) /\ Len(Tail(s)) = Len(s) - 1
           /\ Len(s) \in Nat
           /\ \A k \in 0 .. Len(s) : SubSeq(s, k + 1, Len(s)) \in Seq(S)
OBVIOUS

\* The known slugs are those of the list's members.
LEMMA KnownFacts ==
    ASSUME NEW list \in Seq(Project)
    PROVE  Known(list) = {p.slug : p \in ToSet(list)}
<1>1. DOMAIN SlugsOf(list) = DOMAIN list /\ \A i \in DOMAIN list : SlugsOf(list)[i] = list[i].slug
    BY SlugsFacts
<1>2. Known(list) = {list[i].slug : i \in DOMAIN list}
    BY <1>1 DEF Known, ToSet
<1>3. ToSet(list) = {list[i] : i \in DOMAIN list}
    BY DEF ToSet
<1>4. \A x \in Known(list) : \E p \in ToSet(list) : x = p.slug
    BY <1>2, <1>3
<1>5. \A p \in ToSet(list) : p.slug \in Known(list)
    BY <1>2, <1>3
<1> QED BY <1>4, <1>5

\* With nothing left to write, the files are the list's members.
LEMMA WrittenFacts ==
    ASSUME projects \in Seq(Project), todo = <<>>,
           \A f, g \in files : f.slug = g.slug => f = g
    PROVE  Written <=> files = ToSet(projects)
<1>1. Known(projects) = {p.slug : p \in ToSet(projects)} /\ DOMAIN todo = {}
    BY KnownFacts
<1>2. ASSUME Written PROVE files = ToSet(projects)
    <2>1. ToSet(projects) \subseteq files /\ {f.slug : f \in files} = {p.slug : p \in ToSet(projects)}
        BY <1>1, <1>2 DEF Written
    <2>2. ASSUME NEW f \in files PROVE f \in ToSet(projects)
        <3>1. PICK p \in ToSet(projects) : p.slug = f.slug
            BY <2>1
        <3> QED BY <2>1, <3>1
    <2> QED BY <2>1, <2>2
<1>3. ASSUME files = ToSet(projects) PROVE Written
    BY <1>1, <1>3 DEF Written
<1> QED BY <1>2, <1>3

\* What a daemon loads has no slug twice either.
LEMMA LoadedList ==
    ASSUME NEW S \in SUBSET Project, IsFiniteSet(S), \A f, g \in S : f.slug = g.slug => f = g
    PROVE  /\ Loaded(S) \in Seq(Project) /\ InOrder(Loaded(S)) /\ ToSet(Loaded(S)) = S
           /\ OneEach(SlugsOf(Loaded(S)))
<1> DEFINE list == Loaded(S)
<1>1. list \in Seq(Project) /\ InOrder(list) /\ ToSet(list) = S
    BY LoadedFacts
<1> HIDE DEF list
<1>2. OneEach(SlugsOf(list))
    <2> SUFFICES ASSUME NEW i \in DOMAIN list, NEW j \in DOMAIN list,
                        list[i].slug = list[j].slug, i < j
                 PROVE  FALSE
        BY <1>1, SlugsFacts DEF OneEach
    <2>1. list[i] = list[j] /\ list[i] \in Project
        BY <1>1 DEF ToSet
    <2>2. Before(list[i], list[j])
        BY <1>1 DEF InOrder
    <2> QED BY <2>1, <2>2, BeforeOrders
<1> QED BY <1>1, <1>2 DEF list

LEMMA InitInv == Init => RailInv
<1> SUFFICES ASSUME Init PROVE RailInv
    OBVIOUS
<1>1. PICK there \in SUBSET Slugs, edited \in Slugs \cup {None} :
          files = {[slug |-> s, position |-> IF s = edited THEN MaxPosition ELSE 0] : s \in there}
    BY DEF Init
<1>2. /\ files \in SUBSET Project /\ IsFiniteSet(files)
      /\ \A f, g \in files : f.slug = g.slug => f = g
    <2>1. files \in SUBSET Project
        BY <1>1, PositionAssumption DEF Project
    <2> DEFINE f == [s \in there |->
                        [slug |-> s, position |-> IF s = edited THEN MaxPosition ELSE 0]]
    <2>2. f \in Surjection(there, files)
        BY <1>1 DEF Surjection
    <2>3. IsFiniteSet(there)
        BY SlugAssumption, FS_Subset
    <2>4. \A g, h \in files : g.slug = h.slug => g = h
        BY <1>1
    <2> QED BY <2>1, <2>2, <2>3, <2>4, FS_Surjection
<1>3. /\ projects \in Seq(Project) /\ InOrder(projects) /\ ToSet(projects) = files
      /\ OneEach(SlugsOf(projects))
    BY <1>2, LoadedList DEF Init
<1>4. TypeOK
    <2>1. projects \in Seq(Project) /\ todo \in Seq(Project) /\ files \subseteq Project
        BY <1>2, <1>3 DEF Init
    <2>2. /\ updates \in Seq(Seq(Slugs)) /\ requests \in Seq(Seq(Slugs))
          /\ committed \in Seq(Slugs) /\ visual \in Seq(Slugs) /\ Len(updates) <= MaxUpdates
        BY BoundsAssumption DEF Init
    <2>5. restarts \in Nat
        BY DEF Init
    <2>3. {dragActive, expanded, inside, due, handling, failed, wrapped} \subseteq BOOLEAN
        BY DEF Init
    <2>4. dragged \in Slugs \cup {None} /\ timer \in {"none", "expand", "collapse"}
        BY DEF Init
    <2> QED BY <2>1, <2>2, <2>3, <2>4, <2>5 DEF TypeOK
<1>5. FilesInv
    <2>1. Written
        BY <1>2, <1>3, WrittenFacts DEF Init
    <2> QED BY <1>2, <2>1 DEF FilesInv, Init
<1>6. RowsInv
    BY DEF Init, RowsInv, Rows, OneEach, DivergeOnlyInDrag
<1> QED BY <1>3, <1>4, <1>5, <1>6 DEF RailInv, ListInv

\* A number is its own remainder below the divisor.
LEMMA SmallRemainder ==
    ASSUME NEW m \in Nat, NEW k \in 0 .. m
    PROVE  k % (m + 1) = k
OBVIOUS

\* A new project goes last.
LEMMA CreateKeepsList ==
    ASSUME TypeOK, ListInv, NEW slug \in Slugs, CreateProject(slug)
    PROVE  LET new == [slug |-> slug, position |-> NextPosition(projects)]
           IN  /\ projects' \in Seq(Project) /\ ListInv' /\ new \in Project
               /\ ToSet(projects') = ToSet(projects) \cup {new}
<1> DEFINE n == Len(projects)
           new == [slug |-> slug, position |-> NextPosition(projects)]
<1>1. projects \in Seq(Project) /\ n \in Nat /\ DOMAIN projects = 1 .. n
    BY DEF TypeOK
<1>2. \A i \in 1 .. n : projects[i] \in Project /\ projects[i].position \in Nat
    <2>1. \A i \in 1 .. n : projects[i] \in Project
        BY <1>1
    <2> QED BY <2>1 DEF Project
<1>3. /\ NextPosition(projects) \in Nat
      /\ ~wrapped' => \A i \in 1 .. n : projects[i].position < NextPosition(projects)
    <2>1. CASE n = 0
        BY <1>1, <2>1 DEF NextPosition
    <2>2. CASE n # 0
        <3> DEFINE I == {projects[i].position : i \in DOMAIN projects}
        <3>1. I \subseteq Nat /\ I # {}
            BY <1>1, <1>2, <2>2
        <3>2. PICK last \in Nat : \A i \in I : i <= last
            <4> DEFINE s == Loaded(ToSet(projects))
            <4>1. ToSet(projects) \in SUBSET Project /\ IsFiniteSet(ToSet(projects))
                BY <1>1, ListFinite DEF ToSet
            <4>2. s \in Seq(Project) /\ InOrder(s) /\ ToSet(s) = ToSet(projects)
                BY <4>1, LoadedFacts
            <4> HIDE DEF s
            <4>3. \A i \in 1 .. n : \E k \in 1 .. Len(s) : s[k] = projects[i]
                <5>1. \A i \in 1 .. n : projects[i] \in ToSet(s)
                    BY <1>1, <4>2 DEF ToSet
                <5>2. \A p \in ToSet(s) : \E k \in 1 .. Len(s) : s[k] = p
                    BY <4>2 DEF ToSet
                <5> QED BY <5>1, <5>2
            <4>4. \A k \in 1 .. Len(s) : s[k] \in Project /\ s[k].position \in Nat
                <5>1. \A k \in 1 .. Len(s) : s[k] \in Project
                    BY <4>2
                <5> QED BY <5>1 DEF Project
            <4>5. Len(s) \in 1 .. Len(s)
                BY <1>1, <2>2, <4>2, <4>3
            <4>6. ASSUME NEW k \in 1 .. Len(s) PROVE s[k].position <= s[Len(s)].position
                <5>1. k # Len(s) => Before(s[k], s[Len(s)])
                    BY <4>2, <4>5 DEF InOrder
                <5> DEFINE p == s[k]
                           q == s[Len(s)]
                <5>2. p.position \in Nat /\ q.position \in Nat /\ (Before(p, q) \/ p = q)
                    BY <4>4, <4>5, <5>1
                <5> HIDE DEF p, q
                <5>3. p.position <= q.position
                    BY <5>2 DEF Before
                <5> QED BY <5>3 DEF p, q
            <4>7. s[Len(s)].position \in Nat /\ \A i \in I : i <= s[Len(s)].position
                BY <1>1, <4>3, <4>4, <4>5, <4>6
            <4> QED BY <4>7
        <3>3. Max(I) \in I /\ \A i \in I : i <= Max(I)
            <4>1. I \subseteq 0 .. last
                BY <3>1, <3>2
            <4> HIDE DEF I
            <4> QED BY <3>1, <4>1, MaxFacts
        <3>4. NextPosition(projects) = (Max(I) + 1) % (MaxPosition + 1)
            BY <1>1, <2>2 DEF NextPosition
        <3>5. Max(I) \in Nat /\ \A i \in 1 .. n : projects[i].position <= Max(I)
            BY <1>1, <3>1, <3>3
        <3>6. NextPosition(projects) \in Nat
            BY <3>4, <3>5, PositionAssumption
        <3>7. ASSUME ~wrapped' PROVE NextPosition(projects) = Max(I) + 1
            <4>1. \A i \in 1 .. n : ~ (projects[i].position >= MaxPosition)
                BY <1>1, <3>7 DEF CreateProject
            <4>2. Max(I) < MaxPosition
                BY <1>1, <1>2, <3>3, <4>1, PositionAssumption
            <4> HIDE DEF I
            <4>3. Max(I) + 1 \in 0 .. MaxPosition
                BY <3>5, <4>2, PositionAssumption
            <4> QED BY <3>4, <4>3, SmallRemainder, PositionAssumption
        <3> HIDE DEF I
        <3> QED BY <1>2, <3>5, <3>6, <3>7
    <2> QED BY <2>1, <2>2
<1>4. new \in Project /\ projects' = Append(projects, new)
    BY <1>3 DEF CreateProject, Project
<1>5. /\ projects' \in Seq(Project) /\ DOMAIN projects' = 1 .. n + 1
      /\ \A i \in 1 .. n : projects'[i] = projects[i]
      /\ projects'[n + 1] = new
    <2> HIDE DEF new
    <2> QED BY <1>1, <1>4
<1>6. ToSet(projects') = ToSet(projects) \cup {new}
    <2> HIDE DEF new
    <2>1. ToSet(projects') = {projects'[i] : i \in 1 .. n + 1}
        BY <1>5 DEF ToSet
    <2>2. ToSet(projects') = {projects[i] : i \in 1 .. n} \cup {new}
        BY <1>1, <1>5, <2>1
    <2> QED BY <1>1, <2>2 DEF ToSet
<1>7. wrapped' \/ InOrder(projects')
    <2> SUFFICES ASSUME ~wrapped', NEW i \in 1 .. n + 1, NEW j \in 1 .. n + 1, i < j
                 PROVE  Before(projects'[i], projects'[j])
        BY <1>5 DEF InOrder
    <2>1. i \in 1 .. n /\ projects'[i] = projects[i]
        BY <1>1, <1>5
    <2>2. CASE j = n + 1
        BY <1>2, <1>3, <1>5, <2>1, <2>2 DEF Before
    <2>3. CASE j # n + 1
        <3>1. InOrder(projects)
            BY DEF CreateProject, ListInv
        <3>2. j \in 1 .. n /\ projects'[j] = projects[j]
            BY <1>1, <1>5, <2>3
        <3> QED BY <1>1, <2>1, <3>1, <3>2 DEF InOrder
    <2> QED BY <2>2, <2>3
<1>8. OneEach(SlugsOf(projects'))
    <2>1. \A i \in 1 .. n : projects[i].slug # slug
        BY <1>1, SlugsFacts DEF CreateProject, Known, ToSet
    <2>2. \A i, j \in 1 .. n : projects[i].slug = projects[j].slug => i = j
        BY <1>1, SlugsFacts DEF ListInv, OneEach
    <2> SUFFICES ASSUME NEW i \in 1 .. n + 1, NEW j \in 1 .. n + 1,
                        projects'[i].slug = projects'[j].slug
                 PROVE  i = j
        BY <1>5, SlugsFacts DEF OneEach
    <2> QED BY <1>1, <1>5, <2>1, <2>2
<1> QED BY <1>4, <1>5, <1>6, <1>7, <1>8 DEF ListInv

\* One taken out leaves the others in order.
LEMMA DeleteKeepsList ==
    ASSUME TypeOK, ListInv, NEW slug \in Slugs, DeleteProject(slug)
    PROVE  /\ projects' \in Seq(Project) /\ ListInv'
           /\ ToSet(projects') = {p \in ToSet(projects) : p.slug # slug}
<1> DEFINE n == Len(projects)
<1>1. projects \in Seq(Project) /\ n \in Nat /\ DOMAIN projects = 1 .. n
    BY DEF TypeOK
<1>2. PICK f \in 1 .. n : projects[f].slug = slug /\ projects' = RemoveAt(projects, f)
    BY <1>1 DEF DeleteProject
<1>3. /\ projects' \in Seq(Project) /\ DOMAIN projects' = 1 .. n - 1
      /\ \A i \in 1 .. n - 1 : projects'[i] = IF i < f THEN projects[i] ELSE projects[i + 1]
    <2> DEFINE rest == RemoveAt(projects, f)
    <2>1. /\ rest \in Seq(Project) /\ Len(rest) = n - 1
          /\ \A i \in 1 .. n - 1 : rest[i] = IF i < f THEN projects[i] ELSE projects[i + 1]
        BY <1>1, RemoveAtFacts
    <2>2. projects' = rest
        BY <1>2
    <2> HIDE DEF rest
    <2> QED BY <1>1, <2>1, <2>2
<1> DEFINE from(i) == IF i < f THEN i ELSE i + 1
<1>4. \A i \in 1 .. n - 1 : from(i) \in 1 .. n /\ from(i) # f /\ projects'[i] = projects[from(i)]
    BY <1>1, <1>3
<1>5. \A i, j \in 1 .. n - 1 : i < j => from(i) < from(j)
    BY <1>1
<1>6. \A k \in 1 .. n : k # f => \E i \in 1 .. n - 1 : from(i) = k
    <2> SUFFICES ASSUME NEW k \in 1 .. n, k # f PROVE \E i \in 1 .. n - 1 : from(i) = k
        OBVIOUS
    <2>1. CASE k < f
        <3>1. k \in 1 .. n - 1 /\ from(k) = k
            BY <1>1, <2>1
        <3> QED BY <3>1
    <2>2. CASE k > f
        <3>1. k - 1 \in 1 .. n - 1 /\ from(k - 1) = k
            BY <1>1, <2>2
        <3> QED BY <3>1
    <2> QED BY <1>1, <2>1, <2>2
<1> HIDE DEF from
<1>7. \A i, j \in 1 .. n : projects[i].slug = projects[j].slug => i = j
    BY <1>1, SlugsFacts DEF ListInv, OneEach
<1>8. wrapped' \/ InOrder(projects')
    BY <1>1, <1>3, <1>4, <1>5 DEF ListInv, InOrder, DeleteProject
<1>9. OneEach(SlugsOf(projects'))
    <2>1. \A i, j \in 1 .. n - 1 : projects'[i].slug = projects'[j].slug => from(i) = from(j)
        BY <1>4, <1>7
    <2>2. \A i, j \in 1 .. n - 1 : from(i) = from(j) => i = j
        <3> SUFFICES ASSUME NEW i \in 1 .. n - 1, NEW j \in 1 .. n - 1, i # j
                     PROVE  from(i) # from(j)
            OBVIOUS
        <3>1. from(i) < from(j) \/ from(j) < from(i)
            BY <1>1, <1>5
        <3>2. from(i) \in Nat /\ from(j) \in Nat
            BY <1>1, <1>4
        <3> QED BY <3>1, <3>2
    <2> QED BY <1>3, <2>1, <2>2, SlugsFacts DEF OneEach
<1>10. ToSet(projects') = {p \in ToSet(projects) : p.slug # slug}
    <2> DEFINE kept == {p \in ToSet(projects) : p.slug # slug}
    <2>1. ToSet(projects') = {projects'[i] : i \in 1 .. n - 1}
          /\ ToSet(projects) = {projects[i] : i \in 1 .. n}
        BY <1>1, <1>3 DEF ToSet
    <2>2. ASSUME NEW p \in kept PROVE p \in ToSet(projects')
        <3>1. PICK k \in 1 .. n : p = projects[k] /\ k # f
            BY <1>2, <2>1
        <3> QED BY <1>4, <1>6, <2>1, <3>1
    <2>3. ASSUME NEW p \in ToSet(projects') PROVE p \in kept
        <3>1. PICK i \in 1 .. n - 1 : p = projects'[i]
            BY <2>1
        <3>2. p = projects[from(i)] /\ from(i) \in 1 .. n /\ p.slug # slug
            BY <1>2, <1>4, <1>7, <3>1
        <3> QED BY <2>1, <3>2
    <2> QED BY <2>2, <2>3
<1> QED BY <1>3, <1>8, <1>9, <1>10 DEF ListInv

\* A reorder puts the list in order, and what it has to write brings the files
\* in line.
LEMMA ReorderKeepsList ==
    ASSUME TypeOK, ListInv, FilesInv, HandleReorder
    PROVE  projects' \in Seq(Project) /\ todo' \in Seq(Project) /\ ListInv' /\ FilesInv'
<1>1. /\ projects \in Seq(Project) /\ requests \in Seq(Seq(Slugs)) /\ requests # <<>>
      /\ ~handling /\ todo = <<>> /\ files' = files /\ failed' = failed
    BY DEF TypeOK, FilesInv, HandleReorder, diskVars
<1> DEFINE order == Head(requests)
<1>2. order \in Seq(Slugs) /\ OneEach(SlugsOf(projects))
    BY <1>1, QueueFacts DEF ListInv
<1>3. CASE ~ (ToSet(order) \subseteq Known(projects))
    <2>1. UNCHANGED <<projects, handling, todo, wrapped>>
        BY <1>3 DEF HandleReorder, listVars
    <2> QED BY <1>1, <2>1 DEF ListInv, FilesInv, Written
<1>4. CASE ToSet(order) \subseteq Known(projects)
    <2>1. projects' = Reordered(projects, order) /\ todo' = Writes(projects, order) /\ handling'
        BY <1>4 DEF HandleReorder
    <2> HIDE DEF order
    <2>2. /\ projects' \in Seq(Project) /\ InOrder(projects') /\ OneEach(SlugsOf(projects'))
          /\ Known(projects') = Known(projects)
        BY <1>1, <1>2, <2>1, ReorderedFacts
    <2>3. /\ todo' \in Seq(Project)
          /\ \A k \in DOMAIN todo' : todo'[k].slug \in Known(projects)
          /\ \A p \in ToSet(projects') :
                 \/ p \in ToSet(projects) /\ \A k \in DOMAIN todo' : todo'[k].slug # p.slug
                 \/ \E k \in DOMAIN todo' :
                        todo'[k] = p /\ \A l \in DOMAIN todo' : l > k => todo'[l].slug # p.slug
        <3> DEFINE after == Reordered(projects, order)
                   writes == Writes(projects, order)
        <3>1. /\ writes \in Seq(Project)
              /\ \A k \in DOMAIN writes : writes[k].slug \in Known(projects)
              /\ \A p \in ToSet(after) :
                     \/ p \in ToSet(projects) /\ \A k \in DOMAIN writes : writes[k].slug # p.slug
                     \/ \E k \in DOMAIN writes :
                            /\ writes[k] = p
                            /\ \A l \in DOMAIN writes : l > k => writes[l].slug # p.slug
            BY <1>1, <1>2, <1>4, WritesFacts
        <3>2. projects' = after /\ todo' = writes
            BY <2>1
        <3> HIDE DEF after, writes
        <3> QED BY <3>1, <3>2
    <2>4. ASSUME ~failed' PROVE Written'
        <3>1. Written /\ files = ToSet(projects)
            BY <1>1, <2>4, WrittenFacts DEF FilesInv
        <3> QED BY <1>1, <2>2, <2>3, <3>1 DEF Written
    <2>5. FilesInv'
        BY <1>1, <2>1, <2>4 DEF FilesInv
    <2> QED BY <2>2, <2>3, <2>5 DEF ListInv
<1> QED BY <1>3, <1>4

\* One file written is one less to write.
LEMMA WriteKeepsFiles ==
    ASSUME TypeOK, FilesInv, WriteFile
    PROVE  files' \subseteq Project /\ todo' \in Seq(Project) /\ FilesInv'
<1> DEFINE h == Head(todo)
           others == {f \in files : f.slug # h.slug}
<1>1. /\ todo \in Seq(Project) /\ files \subseteq Project /\ todo # <<>> /\ todo' = Tail(todo)
      /\ handling /\ handling' /\ projects' = projects
      /\ files' \in {files, others \cup {h}}
      /\ ~failed' => ~failed /\ files' = others \cup {h}
    BY DEF TypeOK, FilesInv, WriteFile, Persist, OthersThan
<1>2. /\ h \in Project /\ h = todo[1] /\ todo' \in Seq(Project) /\ 1 \in DOMAIN todo
      /\ \A k \in DOMAIN todo' : todo'[k] = todo[k + 1] /\ k + 1 \in DOMAIN todo
      /\ \A k \in DOMAIN todo : k # 1 => k - 1 \in DOMAIN todo' /\ todo'[k - 1] = todo[k]
    BY <1>1
<1> HIDE DEF h
<1>3. IsFiniteSet(files') /\ \A f, g \in files' : f.slug = g.slug => f = g
    <2>1. IsFiniteSet(files) /\ \A f, g \in files : f.slug = g.slug => f = g
        BY DEF FilesInv
    <2>2. IsFiniteSet(others \cup {h})
        <3>1. others \in SUBSET files
            OBVIOUS
        <3> HIDE DEF others
        <3>2. IsFiniteSet(others)
            BY <2>1, <3>1, FS_Subset
        <3> QED BY <3>2, FS_AddElement
    <2>3. \A f, g \in others \cup {h} : f.slug = g.slug => f = g
        BY <2>1
    <2> HIDE DEF others
    <2> QED BY <1>1, <2>1, <2>2, <2>3
<1>4. ASSUME ~failed' PROVE Written'
    <2>1. Written /\ files' = others \cup {h}
        BY <1>1, <1>4 DEF FilesInv
    <2>2. {f.slug : f \in files'} = Known(projects')
        <3>1. h.slug \in Known(projects) /\ {f.slug : f \in files} = Known(projects)
            BY <1>2, <2>1 DEF Written
        <3>2. \A x \in {f.slug : f \in files'} : x \in Known(projects)
            BY <2>1, <3>1
        <3>3. \A x \in {f.slug : f \in files} : x \in {f.slug : f \in files'}
            BY <2>1
        <3> QED BY <1>1, <3>1, <3>2, <3>3
    <2>3. \A k \in DOMAIN todo' : todo'[k].slug \in Known(projects')
        BY <1>1, <1>2, <2>1 DEF Written
    <2>4. ASSUME NEW p \in ToSet(projects')
          PROVE  \/ p \in files' /\ \A k \in DOMAIN todo' : todo'[k].slug # p.slug
                 \/ \E k \in DOMAIN todo' :
                        todo'[k] = p /\ \A l \in DOMAIN todo' : l > k => todo'[l].slug # p.slug
        <3>1. CASE p \in files /\ \A k \in DOMAIN todo : todo[k].slug # p.slug
            <4>1. p \in files'
                BY <1>2, <2>1, <3>1
            <4> QED BY <1>2, <3>1, <4>1
        <3>2. ASSUME NEW k \in DOMAIN todo, todo[k] = p,
                     \A l \in DOMAIN todo : l > k => todo[l].slug # p.slug
              PROVE  \/ p \in files' /\ \A l \in DOMAIN todo' : todo'[l].slug # p.slug
                     \/ \E m \in DOMAIN todo' :
                            todo'[m] = p /\ \A l \in DOMAIN todo' : l > m => todo'[l].slug # p.slug
            <4>0. DOMAIN todo \subseteq Nat \ {0} /\ DOMAIN todo' \subseteq Nat \ {0}
                BY <1>1, <1>2
            <4>1. CASE k = 1
                <5>1. p \in files'
                    BY <1>2, <2>1, <3>2, <4>1
                <5>2. \A l \in DOMAIN todo' : l + 1 > k /\ todo'[l].slug # p.slug
                    BY <1>2, <3>2, <4>0, <4>1
                <5> QED BY <5>1, <5>2
            <4>2. CASE k # 1
                <5>1. k - 1 \in DOMAIN todo' /\ todo'[k - 1] = p
                    BY <1>2, <3>2, <4>2
                <5>2. \A l \in DOMAIN todo' : l > k - 1 => todo'[l].slug # p.slug
                    BY <1>2, <3>2, <4>0
                <5> QED BY <5>1, <5>2
            <4> QED BY <4>1, <4>2
        <3> QED BY <1>1, <2>1, <3>1, <3>2 DEF Written
    <2> QED BY <2>2, <2>3, <2>4 DEF Written
<1> QED BY <1>1, <1>2, <1>3, <1>4 DEF FilesInv

\* What a crash leaves is what the next daemon has.
LEMMA RestartKeepsList ==
    ASSUME TypeOK, FilesInv, Restart
    PROVE  projects' \in Seq(Project) /\ todo' \in Seq(Project) /\ ListInv' /\ FilesInv'
<1>1. /\ projects' = Loaded(files) /\ files' = files /\ todo' = <<>> /\ files \in SUBSET Project
      /\ IsFiniteSet(files) /\ \A f, g \in files : f.slug = g.slug => f = g
    BY DEF TypeOK, FilesInv, Restart
<1>2. /\ projects' \in Seq(Project) /\ InOrder(projects') /\ ToSet(projects') = files
      /\ OneEach(SlugsOf(projects'))
    BY <1>1, LoadedList
<1>3. Written'
    <2>1. Known(projects') = {p.slug : p \in ToSet(projects')} /\ DOMAIN todo' = {}
        BY <1>1, <1>2, KnownFacts
    <2> QED BY <1>1, <1>2, <2>1 DEF Written
<1> QED BY <1>1, <1>2, <1>3 DEF ListInv, FilesInv

\* The steps, by what they may change of the list, the queues and the rows.
LEMMA NextCases ==
    ASSUME [Next]_vars
    PROVE  \/ \E slug \in Slugs : CreateProject(slug)
           \/ \E slug \in Slugs : DeleteProject(slug)
           \/ \E slug \in Slugs : DragBegin(slug)
           \/ \E to \in Nat : DragMotion(to)
           \/ \E order \in Seq(Slugs) : CommandReorder(order)
           \/ HandleReorder \/ WriteFile \/ FinishReorder \/ Restart
           \/ WindowEvent \/ Fetch \/ Rebuild \/ Drop \/ DragEnd
           \/ Enter \/ Motion \/ Leave \/ TimerFires \/ UNCHANGED vars
<1>1. \A order \in SeqOf(Slugs, MaxListed) : order \in Seq(Slugs)
    BY BoundsAssumption DEF SeqOf
<1>2. \A to \in 0 .. Cardinality(Slugs) - 1 : to \in Nat
    BY SlugAssumption, FS_CardinalityType
<1> QED BY <1>1, <1>2 DEF Next

\* A project created or deleted has its file written or deleted with it.
LEMMA OneFileNext ==
    ASSUME TypeOK, ListInv, FilesInv, NEW slug \in Slugs,
           CreateProject(slug) \/ DeleteProject(slug)
    PROVE  /\ projects' \in Seq(Project) /\ ListInv'
           /\ files' \subseteq Project /\ todo' \in Seq(Project) /\ FilesInv'
<1> DEFINE others == {f \in files : f.slug # slug}
           new == [slug |-> slug, position |-> NextPosition(projects)]
<1>1. /\ projects \in Seq(Project) /\ files \in SUBSET Project /\ IsFiniteSet(files)
      /\ \A f, g \in files : f.slug = g.slug => f = g
      /\ ~handling /\ todo = <<>> /\ todo' = <<>> /\ ~handling'
    BY DEF TypeOK, FilesInv, CreateProject, DeleteProject
<1>2. \E after :
          /\ after = others \/ (after = others \cup {new} /\ new \in Project)
          /\ files' \in {files, after}
          /\ ~failed' => ~failed /\ files' = after
          /\ projects' \in Seq(Project) /\ ListInv'
          /\ files = ToSet(projects) => after = ToSet(projects')
    <2>1. CASE CreateProject(slug)
        <3>1. /\ projects' \in Seq(Project) /\ ListInv' /\ new \in Project
              /\ ToSet(projects') = ToSet(projects) \cup {new}
            BY <2>1, CreateKeepsList
        <3>2. files = ToSet(projects) => others = files
            <4>1. \A p \in ToSet(projects) : p.slug \in Known(projects)
                BY <1>1, KnownFacts
            <4>2. slug \notin Known(projects)
                BY <2>1 DEF CreateProject
            <4> QED BY <4>1, <4>2
        <3>3. /\ files' \in {files, others \cup {new}}
              /\ ~failed' => ~failed /\ files' = others \cup {new}
            BY <2>1 DEF CreateProject, Persist, OthersThan
        <3> HIDE DEF others, new
        <3> QED BY <3>1, <3>2, <3>3
    <2>2. CASE DeleteProject(slug)
        <3>1. /\ projects' \in Seq(Project) /\ ListInv'
              /\ ToSet(projects') = {p \in ToSet(projects) : p.slug # slug}
            BY <2>2, DeleteKeepsList
        <3>2. /\ files' \in {files, others}
              /\ ~failed' => ~failed /\ files' = others
            BY <2>2 DEF DeleteProject, Persist, OthersThan
        <3>3. files = ToSet(projects) => others = ToSet(projects')
            BY <3>1
        <3> HIDE DEF others
        <3> QED BY <3>1, <3>2, <3>3
    <2> QED BY <2>1, <2>2
<1>3. PICK after :
          /\ after = others \/ (after = others \cup {new} /\ new \in Project)
          /\ files' \in {files, after}
          /\ ~failed' => ~failed /\ files' = after
          /\ projects' \in Seq(Project) /\ ListInv'
          /\ files = ToSet(projects) => after = ToSet(projects')
    BY <1>2
<1>4. /\ after \subseteq Project /\ IsFiniteSet(after)
      /\ \A f, g \in after : f.slug = g.slug => f = g
    <2>1. others \in SUBSET files /\ \A f \in others : f.slug # slug
        OBVIOUS
    <2>2. new.slug = slug
        OBVIOUS
    <2> HIDE DEF others, new
    <2>3. IsFiniteSet(others)
        BY <1>1, <2>1, FS_Subset
    <2>4. IsFiniteSet(others \cup {new})
        BY <2>3, FS_AddElement
    <2>5. after \subseteq Project /\ IsFiniteSet(after)
        BY <1>1, <1>3, <2>1, <2>3, <2>4
    <2>6. \A f, g \in others : f.slug = g.slug => f = g
        BY <1>1, <2>1
    <2>7. \A f, g \in others \cup {new} : f.slug = g.slug => f = g
        BY <2>1, <2>2, <2>6
    <2> QED BY <1>3, <2>5, <2>6, <2>7
<1> HIDE DEF others, new
<1>5. /\ files' \subseteq Project /\ IsFiniteSet(files')
      /\ \A f, g \in files' : f.slug = g.slug => f = g
    BY <1>1, <1>3, <1>4
<1>6. ASSUME ~failed' PROVE Written'
    <2>1. files = ToSet(projects)
        BY <1>1, <1>3, <1>6, WrittenFacts DEF FilesInv
    <2>2. files' = ToSet(projects')
        BY <1>3, <1>6, <2>1
    <2>3. Known(projects') = {p.slug : p \in ToSet(projects')} /\ DOMAIN todo' = {}
        BY <1>1, <1>3, KnownFacts
    <2> QED BY <2>2, <2>3 DEF Written
<1>7. todo' \in Seq(Project)
    BY <1>1
<1> QED BY <1>1, <1>3, <1>5, <1>6, <1>7 DEF FilesInv

\* The list keeps in order, and the files in line.
LEMMA ListNext ==
    ASSUME RailInv, [Next]_vars
    PROVE  /\ projects' \in Seq(Project) /\ ListInv'
           /\ files' \subseteq Project /\ todo' \in Seq(Project) /\ FilesInv'
<1>1. /\ TypeOK /\ ListInv /\ FilesInv
      /\ projects \in Seq(Project) /\ todo \in Seq(Project) /\ files \subseteq Project
    BY DEF RailInv, TypeOK
<1>2. CASE \E slug \in Slugs : CreateProject(slug) \/ DeleteProject(slug)
    BY <1>1, <1>2, OneFileNext
<1>3. CASE HandleReorder
    <2>1. files' = files
        BY <1>3 DEF HandleReorder, diskVars
    <2> QED BY <1>1, <1>3, <2>1, ReorderKeepsList
<1>4. CASE WriteFile
    <2>1. projects' = projects /\ wrapped' = wrapped
        BY <1>4 DEF WriteFile
    <2> QED BY <1>1, <1>4, <2>1, WriteKeepsFiles DEF ListInv
<1>5. CASE FinishReorder
    <2>1. UNCHANGED <<projects, files, todo, failed, wrapped>> /\ todo = <<>>
        BY <1>5 DEF FinishReorder, diskVars
    <2> QED BY <1>1, <2>1 DEF ListInv, FilesInv, Written
<1>6. CASE Restart
    <2>1. files' = files
        BY <1>6 DEF Restart
    <2> QED BY <1>1, <1>6, <2>1, RestartKeepsList
<1>7. CASE UNCHANGED <<projects, files, handling, todo, failed, wrapped>>
    BY <1>1, <1>7 DEF ListInv, FilesInv, Written
<1>8. \/ \E slug \in Slugs : CreateProject(slug) \/ DeleteProject(slug)
      \/ HandleReorder \/ WriteFile \/ FinishReorder \/ Restart
      \/ UNCHANGED <<projects, files, handling, todo, failed, wrapped>>
    BY NextCases DEF DragBegin, DragMotion, CommandReorder, WindowEvent, Fetch, Rebuild, Drop,
                     DragEnd, Enter, Motion, Leave, TimerFires, daemonVars, listVars, diskVars,
                     vars
<1> QED BY <1>2, <1>3, <1>4, <1>5, <1>6, <1>7, <1>8

\* What is under way: lists that are rows, requests that are lists of slugs.
LEMMA QueuesNext ==
    ASSUME RailInv, [Next]_vars
    PROVE  /\ updates' \in Seq(Rows) /\ Len(updates') <= MaxUpdates
           /\ requests' \in Seq(Seq(Slugs))
<1>1. /\ updates \in Seq(Rows) /\ requests \in Seq(Seq(Slugs)) /\ visual \in Seq(Slugs)
      /\ Len(updates) <= MaxUpdates /\ MaxUpdates \in Nat
    BY BoundsAssumption DEF RailInv, TypeOK, RowsInv, Rows
<1>2. CASE Fetch
    <2>1. SlugsOf(projects) \in Rows
        <3>1. projects \in Seq(Project)
            BY DEF RailInv, TypeOK
        <3> QED BY <3>1, SlugsFacts DEF RailInv, ListInv, Rows
    <2>2. updates' = Append(updates, SlugsOf(projects)) /\ Len(updates) < MaxUpdates
          /\ requests' = requests
        BY <1>2 DEF Fetch
    <2> QED BY <1>1, <2>1, <2>2, QueueFacts
<1>3. CASE Rebuild
    <2>1. updates # <<>> /\ updates' = Tail(updates) /\ requests' = requests
        BY <1>3 DEF Rebuild
    <2> QED BY <1>1, <2>1, QueueFacts
<1>4. CASE Drop
    <2>1. requests' = Append(requests, visual) /\ updates' = updates
        BY <1>4 DEF Drop
    <2> QED BY <1>1, <2>1, QueueFacts
<1>5. ASSUME NEW order \in Seq(Slugs), CommandReorder(order)
      PROVE  /\ updates' \in Seq(Rows) /\ Len(updates') <= MaxUpdates
             /\ requests' \in Seq(Seq(Slugs))
    <2>1. requests' = Append(requests, order) /\ updates' = updates
        BY <1>5 DEF CommandReorder
    <2> QED BY <1>1, <2>1, QueueFacts
<1>6. CASE HandleReorder
    <2>1. requests # <<>> /\ requests' = Tail(requests) /\ updates' = updates
        BY <1>6 DEF HandleReorder
    <2> QED BY <1>1, <2>1, QueueFacts
<1>7. CASE Restart
    <2>1. PICK lost \in 0 .. Len(requests) : requests' = SubSeq(requests, lost + 1, Len(requests))
        BY <1>7 DEF Restart
    <2>2. updates' = updates
        BY <1>7 DEF Restart
    <2> QED BY <1>1, <2>1, <2>2, QueueFacts
<1>8. CASE UNCHANGED <<updates, requests>>
    BY <1>1, <1>8
<1>9. \/ Fetch \/ Rebuild \/ Drop \/ HandleReorder \/ Restart \/ UNCHANGED <<updates, requests>>
      \/ \E order \in Seq(Slugs) : CommandReorder(order)
    BY NextCases DEF CreateProject, DeleteProject, WriteFile, FinishReorder, DragBegin, DragMotion,
                     WindowEvent, DragEnd, Enter, Motion, Leave, TimerFires, vars
<1> QED BY <1>2, <1>3, <1>4, <1>5, <1>6, <1>7, <1>8, <1>9

\* The rail's state and the drag keep their kinds of values.
LEMMA ControlNext ==
    ASSUME RailInv, [Next]_vars
    PROVE  /\ dragged' \in Slugs \cup {None} /\ timer' \in {"none", "expand", "collapse"}
           /\ {dragActive', expanded', inside', due', handling', failed', wrapped'} \subseteq BOOLEAN
           /\ restarts' \in Nat
<1>1. /\ dragged \in Slugs \cup {None} /\ timer \in {"none", "expand", "collapse"}
      /\ dragActive \in BOOLEAN /\ expanded \in BOOLEAN /\ inside \in BOOLEAN /\ due \in BOOLEAN
      /\ handling \in BOOLEAN /\ failed \in BOOLEAN /\ wrapped \in BOOLEAN
      /\ restarts \in Nat
    BY DEF RailInv, TypeOK
<1> USE DEF daemonVars, listVars, diskVars, panelVars, orderVars, hoverVars
<1>2. CASE \E slug \in Slugs : CreateProject(slug)
    BY <1>1, <1>2 DEF CreateProject, Persist
<1>3. CASE \E slug \in Slugs : DeleteProject(slug) \/ DragBegin(slug)
    BY <1>1, <1>3 DEF DeleteProject, DragBegin, Persist
<1>4. CASE \/ \E to \in Nat : DragMotion(to)
           \/ \E order \in Seq(Slugs) : CommandReorder(order)
    BY <1>1, <1>4 DEF DragMotion, CommandReorder
<1>5. CASE HandleReorder \/ WindowEvent \/ Fetch \/ Rebuild
    BY <1>1, <1>5 DEF HandleReorder, WindowEvent, Fetch, Rebuild
<1>6. CASE WriteFile \/ FinishReorder \/ Restart
    <2>1. CASE WriteFile
        BY <1>1, <2>1 DEF WriteFile, Persist
    <2>2. CASE FinishReorder
        BY <1>1, <2>2 DEF FinishReorder
    <2>3. CASE Restart
        <3>1. restarts' \in Nat
            BY <1>1, <2>3 DEF Restart
        <3> QED BY <1>1, <2>3, <3>1 DEF Restart
    <2> QED BY <1>6, <2>1, <2>2, <2>3
<1>7. CASE Drop \/ DragEnd \/ Enter \/ Motion \/ Leave
    BY <1>1, <1>7 DEF Drop, DragEnd, Enter, Motion, Leave
<1>8. CASE TimerFires
    <2>1. expanded' \in {TRUE, FALSE, expanded}
        BY <1>8 DEF TimerFires
    <2> QED BY <1>1, <1>8, <2>1 DEF TimerFires
<1>9. CASE UNCHANGED vars
    BY <1>1, <1>9 DEF vars
<1> QED BY <1>2, <1>3, <1>4, <1>5, <1>6, <1>7, <1>8, <1>9, NextCases

\* The rows on screen stay the committed ones, and in their order again when a
\* drag is over.
LEMMA RowsNext ==
    ASSUME RailInv, [Next]_vars
    PROVE  /\ committed' \in Rows /\ visual' \in Rows
           /\ Len(visual') = Len(committed') /\ ToSet(visual') = ToSet(committed')
           /\ DivergeOnlyInDrag'
<1>1. /\ committed \in Rows /\ visual \in Rows /\ DivergeOnlyInDrag /\ updates \in Seq(Rows)
      /\ Len(visual) = Len(committed) /\ ToSet(visual) = ToSet(committed)
    BY DEF RailInv, RowsInv
<1>2. CASE Rebuild
    <2>1. updates # <<>> /\ committed' = Head(updates) /\ visual' = Head(updates)
        BY <1>2 DEF Rebuild
    <2>2. Head(updates) \in Rows
        BY <1>1, <2>1, QueueFacts
    <2> QED BY <2>1, <2>2 DEF DivergeOnlyInDrag
<1>3. ASSUME NEW slug \in Slugs, DragBegin(slug)
      PROVE  UNCHANGED <<committed, visual>> /\ dragged' # None /\ dragActive'
    BY <1>3, SlugAssumption DEF DragBegin
<1>4. CASE \E slug \in Slugs : DragBegin(slug)
    BY <1>1, <1>3, <1>4 DEF DivergeOnlyInDrag
<1>5. ASSUME NEW to \in Nat, DragMotion(to)
      PROVE  /\ committed' \in Rows /\ visual' \in Rows
             /\ Len(visual') = Len(committed') /\ ToSet(visual') = ToSet(committed')
             /\ DivergeOnlyInDrag'
    <2>1. /\ visual' = MoveRow(visual, dragged, to) /\ committed' = committed
          /\ dragged' # None /\ dragActive'
        BY <1>5 DEF DragMotion, hoverVars
    <2>2. visual \in Seq(Slugs) /\ OneEach(visual)
        BY <1>1 DEF Rows
    <2>3. /\ visual' \in Seq(Slugs) /\ OneEach(visual') /\ Len(visual') = Len(visual)
          /\ ToSet(visual') = ToSet(visual)
        BY <2>1, <2>2, MoveRowFacts
    <2> QED BY <1>1, <2>1, <2>3 DEF Rows, DivergeOnlyInDrag
<1>6. CASE Drop
    BY <1>1, <1>6 DEF Drop, DivergeOnlyInDrag
<1>7. CASE DragEnd
    <2>1. committed' = committed
        BY <1>7 DEF DragEnd
    <2>2. CASE dragged = None
        BY <1>1, <1>7, <2>1, <2>2 DEF DragEnd, DivergeOnlyInDrag
    <2>3. CASE dragged # None
        <3>1. visual' = ShuffleBack(visual, committed)
            BY <1>7, <2>3 DEF DragEnd
        <3>2. visual' = committed
            BY <1>1, <3>1, ShuffleBackRestores DEF Rows
        <3> QED BY <1>1, <2>1, <3>2 DEF DivergeOnlyInDrag
    <2> QED BY <2>2, <2>3
<1>8. CASE UNCHANGED <<committed, visual, dragged, dragActive>>
    BY <1>1, <1>8 DEF DivergeOnlyInDrag
<1>9. \/ \E slug \in Slugs : DragBegin(slug)
      \/ \E to \in Nat : DragMotion(to)
      \/ Rebuild \/ Drop \/ DragEnd
      \/ UNCHANGED <<committed, visual, dragged, dragActive>>
    <2>1. CASE \/ \E slug \in Slugs : CreateProject(slug) \/ DeleteProject(slug)
               \/ \E order \in Seq(Slugs) : CommandReorder(order)
        BY <2>1 DEF CreateProject, DeleteProject, CommandReorder, panelVars, orderVars, hoverVars
    <2>2. CASE \/ HandleReorder \/ WriteFile \/ FinishReorder \/ Restart
               \/ WindowEvent \/ Fetch
        BY <2>2 DEF HandleReorder, WriteFile, FinishReorder, Restart, WindowEvent, Fetch,
                    panelVars, orderVars, hoverVars
    <2>3. CASE Enter \/ Motion \/ Leave \/ TimerFires \/ UNCHANGED vars
        BY <2>3 DEF Enter, Motion, Leave, TimerFires, panelVars, orderVars, hoverVars, vars
    <2> QED BY <2>1, <2>2, <2>3, NextCases
<1> QED BY <1>2, <1>4, <1>5, <1>6, <1>7, <1>8, <1>9

LEMMA RailInvNext == RailInv /\ [Next]_vars => RailInv'
<1> SUFFICES ASSUME RailInv, [Next]_vars PROVE RailInv'
    OBVIOUS
<1>1. /\ updates' \in Seq(Rows) /\ Len(updates') <= MaxUpdates /\ requests' \in Seq(Seq(Slugs))
    BY QueuesNext
<1>2. updates' \in Seq(Seq(Slugs))
    BY <1>1 DEF Rows
<1>3. committed' \in Seq(Slugs) /\ visual' \in Seq(Slugs)
    BY RowsNext DEF Rows
<1>4. TypeOK'
    BY <1>1, <1>2, <1>3, ListNext, ControlNext DEF TypeOK
<1>5. RowsInv'
    BY <1>1, RowsNext DEF RowsInv
<1> QED BY <1>4, <1>5, ListNext DEF RailInv

LEMMA RailInvariant == Spec => []RailInv
BY InitInv, RailInvNext, PTL DEF Spec

-----------------------------------------------------------------------------
(* The promises. *)

\* Every list, row order and request holds slugs, and what the actor keeps,
\* has yet to write or has on disk are projects.
THEOREM RailTyped == Spec => []TypeOK
<1>1. RailInv => TypeOK
    BY DEF RailInv
<1> QED BY <1>1, RailInvariant, PTL

\* The committed order and the one on screen "diverge only while a drag is
\* shuffling rows live" (main.rs:197), however many rows there are, wherever
\* the drag took its row and whatever lists rebuilt the rows under it.
THEOREM DivergeInDragOnly == Spec => []DivergeOnlyInDrag
<1>1. RailInv => DivergeOnlyInDrag
    BY DEF RailInv, RowsInv
<1> QED BY <1>1, RailInvariant, PTL

\* As long as no write fails, a crash at any moment, in the midst of a reorder's
\* writes too, loses and brings back no project; and but for that moment and an
\* overflow of next_position it changes neither a position nor the order shown.
THEOREM FilesKeepOrder == Spec => []RestartKeepsOrder
<1>1. ASSUME RailInv, ~failed
      PROVE  /\ {f.slug : f \in files} = Known(projects)
             /\ ~handling => files = ToSet(projects) /\ (wrapped \/ projects = Loaded(files))
    <2>1. /\ projects \in Seq(Project) /\ (wrapped \/ InOrder(projects)) /\ Written
          /\ \A f, g \in files : f.slug = g.slug => f = g
          /\ ~handling => todo = <<>>
        BY <1>1 DEF RailInv, TypeOK, ListInv, FilesInv
    <2>2. ~handling => files = ToSet(projects)
        BY <2>1, WrittenFacts
    <2> QED BY <2>1, <2>2, SortedIsLoaded DEF Written
<1>2. RailInv => RestartKeepsOrder
    BY <1>1 DEF RestartKeepsOrder
<1> QED BY <1>2, RailInvariant, PTL

\* An accepted reorder puts the listed projects first, each at its later place,
\* and the others behind them as they were, unless next_position has overflowed;
\* none is lost or repeated. One that names a project that is gone changes nothing.
THEOREM ReorderKeepsPromise == Spec => ReorderAsPromised
<1> DEFINE Kept == Len(requests') < Len(requests) /\ restarts' = restarts =>
                       IF ToSet(Head(requests)) \subseteq Known(projects)
                       THEN wrapped \/ Promised(SlugsOf(projects), Head(requests), SlugsOf(projects'))
                       ELSE projects' = projects
<1>1. RailInv /\ [Next]_vars => Kept
    <2> SUFFICES ASSUME RailInv, [Next]_vars,
                        Len(requests') < Len(requests) /\ restarts' = restarts
                 PROVE  IF ToSet(Head(requests)) \subseteq Known(projects)
                        THEN wrapped \/ Promised(SlugsOf(projects), Head(requests), SlugsOf(projects'))
                        ELSE projects' = projects
        OBVIOUS
    <2>1. requests \in Seq(Seq(Slugs)) /\ visual \in Seq(Slugs) /\ projects \in Seq(Project)
        BY DEF RailInv, TypeOK, Project
    <2>2. ASSUME NEW s \in Seq(Slugs) PROVE requests' # Append(requests, s)
        BY <2>1, QueueFacts
    <2>3. requests' # requests
        BY <2>1
    <2>4. HandleReorder
        <3>1. restarts' # restarts + 1
            BY DEF RailInv, TypeOK
        <3> QED BY <2>1, <2>2, <2>3, <3>1, NextCases
                DEF CreateProject, DeleteProject, WriteFile, FinishReorder, Restart, DragBegin,
                    DragMotion, CommandReorder, WindowEvent, Fetch, Rebuild, Drop, DragEnd,
                    Enter, Motion, Leave, TimerFires, vars
    <2>5. Head(requests) \in Seq(Slugs)
        BY <2>1, <2>4, QueueFacts DEF HandleReorder
    <2>6. CASE ToSet(Head(requests)) \subseteq Known(projects)
        <3>1. projects' = Reordered(projects, Head(requests))
            BY <2>4, <2>6 DEF HandleReorder
        <3>2. (wrapped \/ InOrder(projects)) /\ OneEach(SlugsOf(projects))
            BY DEF RailInv, ListInv
        <3>3. wrapped \/ Promised(SlugsOf(projects), Head(requests), SlugsOf(projects'))
            BY <2>1, <2>5, <3>1, <3>2, ReorderedFacts
        <3> QED BY <2>6, <3>3
    <2>7. CASE ~ (ToSet(Head(requests)) \subseteq Known(projects))
        BY <2>4, <2>7 DEF HandleReorder, listVars
    <2> QED BY <2>6, <2>7
<1>2. RailInv /\ [Next]_vars => [Kept]_vars
    BY <1>1
<1> HIDE DEF Kept
<1>3. Spec => [][Kept]_vars
    BY <1>2, RailInvariant, PTL DEF Spec
<1> QED BY <1>3 DEF ReorderAsPromised, Kept
=============================================================================
