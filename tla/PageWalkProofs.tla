--------------------------- MODULE PageWalkProofs ---------------------------
(***************************************************************************)
(* Theorems about PageWalk, for any number of walks and documents.  The    *)
(* ranks of the documents a query finds are 0, 1, ... without a gap, so a  *)
(* page that is not full has no document after it; and the rank of a       *)
(* document changes only with what comes before it.                        *)
(***************************************************************************)
EXTENDS PageWalk, NumberLemmas, FiniteSetTheorems, TLAPS

(* Clamped numbers are positive.                                           *)
LEMMA ClampPositive ==
    ASSUME NEW n \in Int
    PROVE  Clamp(n) \in Nat /\ Clamp(n) >= 1
BY DEF Clamp

(* Consecutive pages leave no gap, and from page 1 on they do not overlap. *)
LEMMA SkipSteps ==
    ASSUME NEW p \in Nat, NEW l \in Nat
    PROVE  /\ Skip(p, l) \in Nat
           /\ Skip(p + 1, l) \in Nat
           /\ Skip(p + 1, l) <= Skip(p, l) + Clamp(l)
           /\ p >= 1 => Skip(p + 1, l) = Skip(p, l) + Clamp(l)
<1>1. PICK L \in Nat : L = Clamp(l)
    BY ClampPositive
<1>2. CASE p = 0
    BY <1>1, <1>2 DEF Skip, Clamp
<1>3. CASE p >= 1
    <2>1. Clamp(p) = p /\ Clamp(p + 1) = p + 1
        BY <1>3 DEF Clamp
    <2>2. PICK q \in Nat : p = q + 1
        <3>1. p - 1 \in Nat /\ p = (p - 1) + 1
            BY <1>3
        <3> QED BY <3>1
    <2>3. Skip(p, l) = q * L /\ Skip(p + 1, l) = (q + 1) * L
        BY <1>1, <2>1, <2>2 DEF Skip
    <2>4. (q + 1) * L = q * L + L /\ q * L \in Nat
        OBVIOUS
    <2> QED BY <1>1, <2>3, <2>4
<1> QED BY <1>2, <1>3

(* Every set of documents is finite.                                       *)
LEMMA DocsFinite ==
    ASSUME NEW V \in SUBSET Doc
    PROVE  IsFiniteSet(V) /\ Cardinality(V) \in Nat
<1>1. IsFiniteSet(1..MaxDoc)
    BY FS_Interval, BoundAssumption
<1>2. IsFiniteSet(V)
    BY <1>1, FS_Subset DEF Doc
<1> QED BY <1>2, FS_CardinalityType

(* How many documents come before one is a number.                         *)
LEMMA BeforeType ==
    ASSUME NEW V \in SUBSET Doc, NEW d
    PROVE  Before(V, d) \in Nat
<1>1. {e \in V : e < d} \in SUBSET Doc
    OBVIOUS
<1> QED BY <1>1, DocsFinite DEF Before

(* A rank grows with what comes before.                                    *)
LEMMA BeforeMonotone ==
    ASSUME NEW V \in SUBSET Doc, NEW W \in SUBSET Doc, NEW d,
           {e \in V : e < d} \subseteq {e \in W : e < d}
    PROVE  Before(V, d) <= Before(W, d)
<1>1. IsFiniteSet({e \in W : e < d})
    BY DocsFinite
<1> QED BY <1>1, FS_Subset DEF Before

(* Ranks are strictly increasing and below the number of documents.        *)
LEMMA BeforeStrict ==
    ASSUME NEW V \in SUBSET Doc, NEW a \in V, NEW b \in V, a < b
    PROVE  Before(V, a) < Before(V, b)
<1> DEFINE A == {e \in V : e < a}
           B == {e \in V : e < b}
<1>1. a \in Int /\ b \in Int /\ V \subseteq Int
    BY DEF Doc
<1>2. IsFiniteSet(A) /\ IsFiniteSet(B) /\ Cardinality(A) \in Nat /\ Cardinality(B) \in Nat
    BY DocsFinite
<1>3. Cardinality(A \cup {a}) = Cardinality(A) + 1
    BY <1>1, <1>2, FS_AddElement
<1>4. A \cup {a} \in SUBSET B
    <2>1. \A e \in A : e < b
        BY <1>1
    <2> QED BY <2>1
<1>5. Cardinality(A \cup {a}) <= Cardinality(B)
    BY <1>2, <1>4, FS_Subset
<1> QED BY <1>2, <1>3, <1>5 DEF Before

(* A document of the view has fewer before it than the view has.           *)
LEMMA BeforeBelowSize ==
    ASSUME NEW V \in SUBSET Doc, NEW d \in V
    PROVE  Before(V, d) < Cardinality(V)
<1>1. d \in Int /\ V \subseteq Int
    BY DEF Doc
<1>2. {e \in V : e < d} \in SUBSET (V \ {d})
    BY <1>1
<1>3. IsFiniteSet(V) /\ Cardinality(V) \in Nat
    BY DocsFinite
<1>4. IsFiniteSet(V \ {d}) /\ Cardinality(V \ {d}) = Cardinality(V) - 1
    BY <1>3, FS_RemoveElement
<1>5. Before(V, d) <= Cardinality(V \ {d})
    BY <1>2, <1>4, FS_Subset DEF Before
<1>6. Before(V, d) \in Nat
    BY BeforeType
<1> QED BY <1>3, <1>4, <1>5, <1>6

(* Every number below the size is the rank of a document.                  *)
LEMMA RanksWithoutGap ==
    ASSUME NEW V \in SUBSET Doc, NEW k \in Nat, k < Cardinality(V)
    PROVE  \E e \in V : Before(V, e) = k
<1> DEFINE n == Cardinality(V)
           R == 0..(n - 1)
           f == [e \in V |-> Before(V, e)]
<1>1. IsFiniteSet(V) /\ n \in Nat
    BY DocsFinite
<1>2. f \in [V -> R]
    <2>1. \A e \in V : Before(V, e) \in R
        BY <1>1, BeforeType, BeforeBelowSize
    <2> QED BY <2>1
<1>3. \A a, b \in V : f[a] = f[b] => a = b
    <2> SUFFICES ASSUME NEW a \in V, NEW b \in V, a # b
                 PROVE  Before(V, a) # Before(V, b)
        OBVIOUS
    <2>1. a \in Int /\ b \in Int
        BY DEF Doc
    <2>2. Before(V, a) \in Nat /\ Before(V, b) \in Nat
        BY BeforeType
    <2>3. CASE a < b
        BY <2>2, <2>3, BeforeStrict
    <2>4. CASE b < a
        BY <2>2, <2>4, BeforeStrict
    <2> QED BY <2>1, <2>3, <2>4
<1>4. f \in Injection(V, R)
    BY <1>2, <1>3 DEF Injection, IsInjective
<1>5. IsFiniteSet(R) /\ Cardinality(R) = n
    <2>1. PICK m \in Nat : m = n
        BY <1>1
    <2>2. IsFiniteSet(0..(m - 1)) /\ Cardinality(0..(m - 1)) = m
        BY FS_Interval
    <2> QED BY <2>1, <2>2
<1>6. f \in Surjection(V, R)
    BY <1>4, <1>5, FS_Injection
<1>7. k \in R
    BY <1>1
<1> QED BY <1>6, <1>7 DEF Surjection

(* A page with a document after it is full.                                *)
LEMMA PageFull ==
    ASSUME NEW V \in SUBSET Doc, NEW p \in Nat, NEW l \in Nat, NEW d \in V,
           Before(V, d) >= Skip(p, l) + Clamp(l)
    PROVE  Cardinality(Page(V, p, l)) >= Clamp(l)
<1> DEFINE s == Skip(p, l)
           L == Clamp(l)
           P == Page(V, p, l)
           R == s..(s + L - 1)
           f == [e \in P |-> Before(V, e)]
<1>1. s \in Nat /\ L \in Nat /\ L >= 1
    BY SkipSteps, ClampPositive
<1>2. P \in SUBSET V /\ IsFiniteSet(P) /\ Cardinality(P) \in Nat
    <2>1. P \in SUBSET V
        BY DEF Page
    <2> QED BY <2>1, DocsFinite
<1>3. f \in [P -> R]
    <2>1. \A e \in P : Before(V, e) \in R
        BY <1>1, BeforeType DEF Page
    <2> QED BY <2>1
<1>4. \A k \in R : \E e \in P : f[e] = k
    <2> SUFFICES ASSUME NEW k \in R PROVE \E e \in P : Before(V, e) = k
        OBVIOUS
    <2>1. k \in Nat /\ k < Before(V, d) /\ s <= k /\ k < s + L
        BY <1>1, BeforeType
    <2>2. k < Cardinality(V)
        BY <2>1, BeforeBelowSize, BeforeType, DocsFinite
    <2>3. PICK e \in V : Before(V, e) = k
        BY <2>1, <2>2, RanksWithoutGap
    <2> QED BY <2>1, <2>3 DEF Page
<1>5. f \in Surjection(P, R)
    BY <1>3, <1>4 DEF Surjection
<1>6. Cardinality(R) <= Cardinality(P)
    BY <1>2, <1>5, FS_Surjection
<1>7. Cardinality(R) = L
    BY <1>1, FS_Interval
<1> QED BY <1>6, <1>7

(* The ranks of page p are below those of every later page.                *)
LEMMA SkipGrows ==
    ASSUME NEW p \in Nat \ {0}, NEW q \in Nat \ {0}, p < q, NEW l \in Nat
    PROVE  Skip(p, l) + Clamp(l) <= Skip(q, l)
<1>1. PICK L \in Nat : L = Clamp(l) /\ L >= 1
    BY ClampPositive
<1>2. Skip(p, l) = (p - 1) * L /\ Skip(q, l) = (q - 1) * L
    BY <1>1 DEF Skip, Clamp
<1>3. PICK i \in Nat, j \in Nat : p - 1 = i /\ q - 1 = i + 1 + j
    <2>1. p - 1 \in Nat /\ q - 1 - p \in Nat /\ q - 1 = (p - 1) + 1 + (q - 1 - p)
        OBVIOUS
    <2> QED BY <2>1
<1>4. (i + 1 + j) * L = i * L + L + j * L /\ j * L \in Nat /\ i * L \in Nat
    OBVIOUS
<1> QED BY <1>1, <1>2, <1>3, <1>4

(* Of a list that does not change, the pages from 1 on show every document *)
(* exactly once and in order, whatever the limit; page 0 is page 1         *)
(* (receipt.repository.ts:113, user.repository.ts:67-73).                  *)
THEOREM PagesPartition ==
    ASSUME NEW V \in SUBSET Doc, NEW l \in Nat
    PROVE  /\ \A d \in V : \E p \in Nat \ {0} : d \in Page(V, p, l)
           /\ \A p, q \in Nat \ {0} : p < q =>
                \A d \in Page(V, p, l), e \in Page(V, q, l) : d < e
           /\ Page(V, 0, l) = Page(V, 1, l)
<1>1. Clamp(l) \in Nat /\ Clamp(l) >= 1
    BY ClampPositive
<1>2. ASSUME NEW d \in V
      PROVE  \E p \in Nat \ {0} : d \in Page(V, p, l)
    <2> DEFINE S == {p \in Nat \ {0} : Before(V, d) < Skip(p, l) + Clamp(l)}
    <2>1. PICK b \in Nat : b = Before(V, d)
        BY BeforeType
    <2>2. b + 1 \in S
        <3>1. PICK L \in Nat : L = Clamp(l) /\ L >= 1
            BY <1>1
        <3>2. Skip(b + 1, l) = b * L
            BY <3>1 DEF Skip, Clamp
        <3>3. b * L >= b
            BY <3>1
        <3> QED BY <2>1, <3>1, <3>2, <3>3
    <2>3. PICK m \in S : \A p \in S : m <= p
        BY <2>2, LeastNumber
    <2>4. Skip(m, l) <= b
        <3>1. CASE m = 1
            BY <1>1, <3>1 DEF Skip, Clamp
        <3>2. CASE m # 1
            <4>1. m - 1 \in Nat \ {0} /\ m - 1 \notin S /\ (m - 1) + 1 = m
                BY <2>3, <3>2
            <4>2. b >= Skip(m - 1, l) + Clamp(l)
                BY <1>1, <2>1, <4>1, SkipSteps
            <4>3. Skip(m, l) <= Skip(m - 1, l) + Clamp(l)
                BY <4>1, SkipSteps
            <4> QED BY <1>1, <4>1, <4>2, <4>3, SkipSteps
        <3> QED BY <3>1, <3>2
    <2> QED BY <2>1, <2>3, <2>4 DEF Page
<1>3. ASSUME NEW p \in Nat \ {0}, NEW q \in Nat \ {0}, p < q,
             NEW d \in Page(V, p, l), NEW e \in Page(V, q, l)
      PROVE  d < e
    <2>1. Before(V, d) < Before(V, e)
        <3>1. Skip(p, l) \in Nat /\ Skip(q, l) \in Nat
            BY SkipSteps
        <3>2. Before(V, d) < Skip(p, l) + Clamp(l) /\ Skip(q, l) <= Before(V, e)
            BY DEF Page
        <3> QED BY <1>1, <1>3, <3>1, <3>2, SkipGrows, BeforeType
    <2>2. d \in V /\ e \in V /\ d \in Int /\ e \in Int
        BY DEF Page, Doc
    <2>3. CASE e <= d
        <3>1. {x \in V : x < e} \subseteq {x \in V : x < d}
            <4>1. V \subseteq Int
                BY DEF Doc
            <4>2. ASSUME NEW x \in Int, x < e PROVE x < d
                BY <2>2, <2>3, <4>2
            <4> QED BY <4>1, <4>2
        <3>2. Before(V, e) <= Before(V, d)
            <4>1. IsFiniteSet({x \in V : x < d})
                BY DocsFinite
            <4> QED BY <3>1, <4>1, FS_Subset DEF Before
        <3> QED BY <2>1, <3>2, BeforeType
    <2> QED BY <2>2, <2>3
<1>4. Page(V, 0, l) = Page(V, 1, l)
    BY DEF Page, Skip, Clamp
<1> QED BY <1>2, <1>3, <1>4
-----------------------------------------------------------------------------
USE DEF Walking

(* What a change of the collection preserves.  Documents enter a view by   *)
(* an update (M), or as the newest of all.                                 *)
LEMMA ChangeStep ==
    ASSUME IndInv, NEW S, NEW m \in [Doc -> Month], NEW M \in SUBSET Doc,
           Change(S, m, M),
           now' \in Month, count' \in count..MaxDoc, S \subseteq 1..count',
           \A k \in Month : \A e \in Found(S, m, k) :
               e \in Found(stored, month, k) \/ e \in M \/ e > count
    PROVE  IndInv'
<1>1. UNCHANGED <<phase, asked, page, seen, repeated>> /\ stored' = S /\ month' = m
    BY DEF Change, client
<1>2. MaxDoc \in Nat /\ count \in 0..MaxDoc /\ TypeOK
    BY BoundAssumption DEF IndInv, TypeOK
<1>3. 1..count' \subseteq Doc /\ 1..count \subseteq 1..count' /\ count' \in 0..MaxDoc
    BY <1>2 DEF Doc
<1>4. ASSUME NEW w \in Walk
      PROVE  /\ View(w) \in SUBSET Doc
             /\ View(w)' = Found(S, m, asked[w].month)
             /\ View(w)' \in SUBSET Doc
             /\ asked[w] \in Ask /\ asked[w].month \in Month
             /\ asked[w].first \in {0, 1} /\ asked[w].limit \in Nat
             /\ page[w] \in Nat
    <2>1. asked[w] \in Ask /\ page[w] \in Nat
        BY <1>2 DEF TypeOK
    <2>2. asked[w].month \in Month /\ asked[w].first \in {0, 1} /\ asked[w].limit \in 0..MaxLimit
        BY <2>1 DEF Ask
    <2>3. asked[w].limit \in Nat
        BY <2>2, BoundAssumption
    <2>4. View(w)' = Found(S, m, asked[w].month)
        BY <1>1 DEF View
    <2>5. stored \subseteq 1..count /\ View(w) \subseteq 1..count
        BY <1>2 DEF TypeOK, View, Found
    <2>6. View(w)' \subseteq 1..count'
        BY <2>4 DEF Found
    <2> QED BY <2>1, <2>2, <2>3, <2>4, <2>5, <2>6, <1>3
<1>5. ASSUME NEW w \in Walk
      PROVE  /\ phase[w] = "walking" =>
                 /\ stayed'[w] = stayed[w] \cap View(w)'
                 /\ departed'[w] = departed[w] \cup (View(w) \ View(w)')
                 /\ movedIn'[w] = movedIn[w] \cup (M \cap (View(w)' \ View(w)))
             /\ phase[w] # "walking" =>
                 /\ stayed'[w] = stayed[w]
                 /\ departed'[w] = departed[w]
                 /\ movedIn'[w] = movedIn[w]
    BY <1>4 DEF Change
<1>6. TypeOK'
    <2>1. stayed' \in [Walk -> SUBSET Doc]
        <3>1. \A w \in Walk : stayed'[w] \in SUBSET Doc
            BY <1>2, <1>5 DEF TypeOK
        <3> QED BY <3>1 DEF Change
    <2>2. departed' \in [Walk -> SUBSET Doc]
        <3>1. \A w \in Walk : departed'[w] \in SUBSET Doc
            BY <1>2, <1>4, <1>5 DEF TypeOK
        <3> QED BY <3>1 DEF Change
    <2>3. movedIn' \in [Walk -> SUBSET Doc]
        <3>1. \A w \in Walk : movedIn'[w] \in SUBSET Doc
            BY <1>2, <1>4, <1>5 DEF TypeOK
        <3> QED BY <3>1 DEF Change
    <2>4. seen' \in [Walk -> SUBSET (1..count')]
        BY <1>1, <1>2, <1>3 DEF TypeOK
    <2>5. /\ phase' \in [Walk -> {"idle", "walking", "done"}] /\ asked' \in [Walk -> Ask]
          /\ page' \in [Walk -> Nat] /\ repeated' \in [Walk -> SUBSET Doc]
        BY <1>1, <1>2 DEF TypeOK
    <2> QED BY <1>1, <1>3, <2>1, <2>2, <2>3, <2>4, <2>5 DEF TypeOK
<1>7. FreshWalk'
    BY <1>1 DEF IndInv, FreshWalk
<1>8. StayedFound'
    BY <1>1, <1>4, <1>5 DEF IndInv, StayedFound
<1>9. UnreadAhead'
    <2> SUFFICES ASSUME NEW w \in Walk, phase[w] = "walking",
                        NEW d \in stayed'[w] \ seen[w],
                        ~ \E e \in departed'[w] : e < d
                 PROVE  Before(View(w)', d) >= Skip(page[w], asked[w].limit)
        BY <1>1 DEF UnreadAhead, Before
    <2>1. d \in stayed[w] \ seen[w] /\ ~ \E e \in departed[w] : e < d
        BY <1>5
    <2>2. Before(View(w), d) >= Skip(page[w], asked[w].limit)
        BY <2>1 DEF IndInv, UnreadAhead
    <2>3. {e \in View(w) : e < d} \subseteq {e \in View(w)' : e < d}
        BY <1>5
    <2>4. Before(View(w), d) <= Before(View(w)', d)
        BY <1>4, <2>3, BeforeMonotone
    <2>5. Before(View(w), d) \in Nat /\ Before(View(w)', d) \in Nat
        BY <1>4, BeforeType
    <2>6. Skip(page[w], asked[w].limit) \in Nat
        BY <1>4, SkipSteps
    <2> QED BY <2>2, <2>4, <2>5, <2>6
<1>10. ReadBehind'
    <2> SUFFICES ASSUME NEW w \in Walk, phase[w] = "walking", asked[w].first = 1
                 PROVE  /\ page[w] >= 1
                        /\ \A d \in seen[w] :
                            \/ \E e \in movedIn'[w] : e < d
                            \/ Before(View(w)', d) < Skip(page[w], asked[w].limit)
        BY <1>1 DEF ReadBehind, Before
    <2>1. page[w] >= 1
        BY DEF IndInv, ReadBehind
    <2>2. ASSUME NEW d \in seen[w], ~ \E e \in movedIn'[w] : e < d
          PROVE  Before(View(w)', d) < Skip(page[w], asked[w].limit)
        <3>1. ~ \E e \in movedIn[w] : e < d
            BY <1>5, <2>2
        <3>2. Before(View(w), d) < Skip(page[w], asked[w].limit)
            BY <3>1 DEF IndInv, ReadBehind
        <3>3. d \in 1..count
            BY <1>2 DEF TypeOK
        <3>4. {e \in View(w)' : e < d} \subseteq {e \in View(w) : e < d}
            <4> SUFFICES ASSUME NEW e \in View(w)', e < d PROVE e \in View(w)
                OBVIOUS
            <4>1. e \in View(w) \/ e \in M \/ e > count
                BY <1>4 DEF View
            <4>2. e \in Int /\ ~ (e > count)
                BY <1>2, <1>4, <3>3 DEF Doc
            <4>3. e \in M => e \in View(w)
                BY <1>5, <2>2
            <4> QED BY <4>1, <4>2, <4>3
        <3>5. Before(View(w)', d) <= Before(View(w), d)
            BY <1>4, <3>4, BeforeMonotone
        <3>6. Before(View(w), d) \in Nat /\ Before(View(w)', d) \in Nat
            BY <1>4, BeforeType
        <3>7. Skip(page[w], asked[w].limit) \in Nat
            BY <1>4, SkipSteps
        <3> QED BY <3>2, <3>5, <3>6, <3>7
    <2> QED BY <2>1, <2>2
<1>11. MissedNeedsDeparture'
    BY <1>1, <1>5 DEF IndInv, MissedNeedsDeparture
<1>12. RepeatedNeedsMove'
    BY <1>1, <1>5 DEF IndInv, RepeatedNeedsMove
<1> QED BY <1>6, <1>7, <1>8, <1>9, <1>10, <1>11, <1>12 DEF IndInv
-----------------------------------------------------------------------------
(* Reading a page shows exactly the documents ranked from its first to its *)
(* last place.                                                             *)
LEMMA ReadStep ==
    ASSUME IndInv, NEW w \in Walk, ReadPage(w)
    PROVE  IndInv'
<1> DEFINE shown == Page(View(w), page[w], asked[w].limit)
           p == page[w]
           l == asked[w].limit
<1>1. /\ phase[w] = "walking"
      /\ seen'     = [seen EXCEPT ![w] = @ \cup shown]
      /\ repeated' = [repeated EXCEPT ![w] = @ \cup (shown \cap seen[w])]
      /\ page'     = [page EXCEPT ![w] = @ + 1]
      /\ phase'    = IF Cardinality(shown) < Clamp(l)
                     THEN [phase EXCEPT ![w] = "done"] ELSE phase
      /\ UNCHANGED <<now, count, stored, month, asked, stayed, departed, movedIn>>
    BY DEF ReadPage, collection, history
<1>2. TypeOK
    BY DEF IndInv
<1>3. \A v \in Walk : View(v) \in SUBSET Doc /\ View(v) \subseteq 1..count /\ View(v)' = View(v)
    <2>1. stored \subseteq 1..count /\ 1..count \subseteq Doc
        BY <1>2, BoundAssumption DEF TypeOK, Doc
    <2> QED BY <1>1, <2>1 DEF View, Found
<1>4. p \in Nat /\ l \in Nat
    <2>1. asked[w] \in Ask /\ p \in Nat
        BY <1>2 DEF TypeOK
    <2> QED BY <2>1, BoundAssumption DEF Ask
<1>5. shown \subseteq View(w)
    BY DEF Page
<1>6. TypeOK'
    <2>1. repeated' \in [Walk -> SUBSET Doc] /\ seen' \in [Walk -> SUBSET (1..count)]
        BY <1>1, <1>2, <1>3, <1>5 DEF TypeOK
    <2>2. page' \in [Walk -> Nat] /\ phase' \in [Walk -> {"idle", "walking", "done"}]
        BY <1>1, <1>2, <1>4 DEF TypeOK
    <2> QED BY <1>1, <1>2, <2>1, <2>2 DEF TypeOK
<1>7. \A v \in Walk \ {w} : /\ phase'[v] = phase[v] /\ page'[v] = page[v]
                            /\ seen'[v] = seen[v] /\ repeated'[v] = repeated[v]
    BY <1>1, <1>2 DEF TypeOK
<1>8. /\ phase'[w] \in {"walking", "done"} /\ page'[w] = p + 1
      /\ seen'[w] = seen[w] \cup shown
      /\ repeated'[w] = repeated[w] \cup (shown \cap seen[w])
    BY <1>1, <1>2 DEF TypeOK
<1>9. \A d : /\ Before(View(w), d) \in Nat
             /\ Skip(p, l) \in Nat /\ Skip(p + 1, l) \in Nat /\ Clamp(l) \in Nat
             /\ Skip(p + 1, l) <= Skip(p, l) + Clamp(l)
             /\ p >= 1 => Skip(p + 1, l) = Skip(p, l) + Clamp(l)
    <2>1. \A d : Before(View(w), d) \in Nat
        BY <1>3, BeforeType
    <2>2. l \in Int /\ Clamp(l) \in Nat
        BY <1>4, ClampPositive
    <2> QED BY <1>4, <2>1, <2>2, SkipSteps
<1>10. ASSUME NEW d \in stayed[w] \ seen'[w], ~ \E e \in departed[w] : e < d
       PROVE  d \in View(w) /\ Before(View(w), d) >= Skip(p, l) + Clamp(l)
    <2>1. d \in View(w) /\ d \notin shown
        BY <1>1, <1>8 DEF IndInv, StayedFound
    <2>2. Before(View(w), d) >= Skip(p, l)
        BY <1>1, <1>8, <1>10 DEF IndInv, UnreadAhead
    <2> QED BY <1>9, <2>1, <2>2 DEF Page
<1>11. FreshWalk'
    BY <1>7, <1>8 DEF IndInv, FreshWalk
<1>12. StayedFound'
    BY <1>1, <1>3, <1>7 DEF IndInv, StayedFound
<1>13. UnreadAhead'
    <2> SUFFICES ASSUME NEW v \in Walk, phase'[v] = "walking",
                        NEW d \in stayed[v] \ seen'[v],
                        ~ \E e \in departed[v] : e < d
                 PROVE  Before(View(v), d) >= Skip(page'[v], asked[v].limit)
        BY <1>1, <1>3 DEF UnreadAhead, Before
    <2>1. CASE v = w
        BY <1>8, <1>9, <1>10, <2>1
    <2>2. CASE v # w
        BY <1>7, <2>2 DEF IndInv, UnreadAhead
    <2> QED BY <2>1, <2>2
<1>14. ReadBehind'
    <2> SUFFICES ASSUME NEW v \in Walk, phase'[v] = "walking", asked[v].first = 1
                 PROVE  /\ page'[v] >= 1
                        /\ \A d \in seen'[v] :
                            \/ \E e \in movedIn[v] : e < d
                            \/ Before(View(v), d) < Skip(page'[v], asked[v].limit)
        BY <1>1, <1>3 DEF ReadBehind, Before
    <2>1. CASE v = w
        <3>1. p >= 1
            BY <1>1, <2>1 DEF IndInv, ReadBehind
        <3>2. \A d \in seen[w] : \/ \E e \in movedIn[w] : e < d
                                 \/ Before(View(w), d) < Skip(p, l)
            BY <1>1, <2>1 DEF IndInv, ReadBehind
        <3>3. \A d \in shown : Before(View(w), d) < Skip(p, l) + Clamp(l)
            BY DEF Page
        <3> QED BY <1>4, <1>8, <1>9, <2>1, <3>1, <3>2, <3>3
    <2>2. CASE v # w
        BY <1>7, <2>2 DEF IndInv, ReadBehind
    <2> QED BY <2>1, <2>2
<1>15. MissedNeedsDeparture'
    <2> SUFFICES ASSUME NEW v \in Walk, phase'[v] = "done",
                        NEW d \in stayed[v] \ seen'[v]
                 PROVE  \E e \in departed[v] : e < d
        BY <1>1 DEF MissedNeedsDeparture
    <2>1. CASE v = w
        <3> SUFFICES ASSUME ~ \E e \in departed[w] : e < d PROVE FALSE
            BY <2>1
        <3>1. d \in View(w) /\ Before(View(w), d) >= Skip(p, l) + Clamp(l)
            BY <1>10, <2>1
        <3>2. Cardinality(shown) >= Clamp(l)
            BY <1>3, <1>4, <3>1, PageFull
        <3>3. Cardinality(shown) < Clamp(l)
            BY <1>1, <1>2, <2>1 DEF TypeOK
        <3>4. Cardinality(shown) \in Nat
            BY <1>3, <1>5, DocsFinite
        <3> QED BY <1>9, <3>2, <3>3, <3>4
    <2>2. CASE v # w
        BY <1>7, <2>2 DEF IndInv, MissedNeedsDeparture
    <2> QED BY <2>1, <2>2
<1>16. RepeatedNeedsMove'
    <2> SUFFICES ASSUME NEW v \in Walk, NEW d \in repeated'[v], asked[v].first = 1
                 PROVE  \E e \in movedIn[v] : e < d
        <3>1. \A v \in Walk : asked[v].first \in {0, 1}
            BY <1>2 DEF TypeOK, Ask
        <3> QED BY <1>1, <3>1 DEF RepeatedNeedsMove
    <2>1. CASE v = w /\ d \in shown \cap seen[w]
        <3>1. Before(View(w), d) >= Skip(p, l)
            BY <2>1 DEF Page
        <3>2. ~ (Before(View(w), d) < Skip(p, l))
            BY <1>9, <3>1
        <3> QED BY <1>1, <2>1, <3>2 DEF IndInv, ReadBehind
    <2>2. CASE d \in repeated[v]
        BY <2>2 DEF IndInv, RepeatedNeedsMove
    <2> QED BY <1>7, <1>8, <2>1, <2>2
<1> QED BY <1>6, <1>11, <1>12, <1>13, <1>14, <1>15, <1>16 DEF IndInv

(* A walk begins with nothing read, at a rank nothing lies before.         *)
LEMMA BeginStep ==
    ASSUME IndInv, NEW w \in Walk, NEW ask \in Ask, Begin(w, ask)
    PROVE  IndInv'
<1>1. /\ phase[w] = "idle" /\ seen[w] = {} /\ repeated[w] = {}
      /\ phase'  = [phase EXCEPT ![w] = "walking"]
      /\ asked'  = [asked EXCEPT ![w] = ask]
      /\ page'   = [page EXCEPT ![w] = ask.first]
      /\ stayed' = [stayed EXCEPT ![w] = Found(stored, month, ask.month)]
      /\ UNCHANGED <<now, count, stored, month, seen, repeated, departed, movedIn>>
    BY DEF Begin, collection, IndInv, FreshWalk
<1>2. TypeOK
    BY DEF IndInv
<1>3. ask.first \in {0, 1} /\ ask.limit \in Nat
    BY BoundAssumption DEF Ask
<1>4. Found(stored, month, ask.month) \in SUBSET Doc
    <2>1. stored \subseteq 1..count /\ 1..count \subseteq Doc
        BY <1>2, BoundAssumption DEF TypeOK, Doc
    <2> QED BY <2>1 DEF Found
<1>5. \A v \in Walk \ {w} : /\ phase'[v] = phase[v] /\ page'[v] = page[v]
                            /\ asked'[v] = asked[v] /\ stayed'[v] = stayed[v]
                            /\ View(v)' = View(v)
    BY <1>1, <1>2 DEF TypeOK, View, Found
<1>6. /\ phase'[w] = "walking" /\ page'[w] = ask.first /\ asked'[w] = ask
      /\ stayed'[w] = View(w)' /\ View(w)' = Found(stored, month, ask.month)
    BY <1>1, <1>2 DEF TypeOK, View
<1>7. TypeOK'
    BY <1>1, <1>2, <1>3, <1>4 DEF TypeOK
<1>8. FreshWalk'
    BY <1>1, <1>5, <1>6 DEF IndInv, FreshWalk
<1>9. StayedFound'
    BY <1>5, <1>6 DEF IndInv, StayedFound
<1>10. UnreadAhead'
    <2> SUFFICES ASSUME NEW v \in Walk, phase'[v] = "walking",
                        NEW d \in stayed'[v] \ seen[v],
                        ~ \E e \in departed[v] : e < d
                 PROVE  Before(View(v)', d) >= Skip(page'[v], asked'[v].limit)
        BY <1>1 DEF UnreadAhead, Before
    <2>1. CASE v = w
        <3>1. Before(View(w)', d) \in Nat
            BY <1>4, <1>6, BeforeType
        <3>2. Skip(ask.first, ask.limit) = 0
            <4>1. Clamp(ask.first) = 1 /\ Clamp(ask.limit) \in Nat
                BY <1>3, ClampPositive DEF Clamp
            <4> QED BY <4>1 DEF Skip
        <3> QED BY <1>6, <2>1, <3>1, <3>2
    <2>2. CASE v # w
        BY <1>5, <2>2 DEF IndInv, UnreadAhead
    <2> QED BY <2>1, <2>2
<1>11. ReadBehind'
    <2> SUFFICES ASSUME NEW v \in Walk, phase'[v] = "walking", asked'[v].first = 1
                 PROVE  /\ page'[v] >= 1
                        /\ \A d \in seen[v] :
                            \/ \E e \in movedIn[v] : e < d
                            \/ Before(View(v)', d) < Skip(page'[v], asked'[v].limit)
        BY <1>1 DEF ReadBehind, Before
    <2>1. CASE v = w
        BY <1>1, <1>6, <2>1
    <2>2. CASE v # w
        BY <1>5, <2>2 DEF IndInv, ReadBehind
    <2> QED BY <2>1, <2>2
<1>12. MissedNeedsDeparture'
    BY <1>1, <1>5, <1>6 DEF IndInv, MissedNeedsDeparture
<1>13. RepeatedNeedsMove'
    BY <1>1, <1>5, <1>6 DEF IndInv, RepeatedNeedsMove
<1> QED BY <1>7, <1>8, <1>9, <1>10, <1>11, <1>12, <1>13 DEF IndInv
-----------------------------------------------------------------------------
(* The invariant holds before any document and any walk ...                *)
LEMMA InitInv ==
    ASSUME Init
    PROVE  IndInv
<1>1. TypeOK
    BY BoundAssumption DEF Init, TypeOK, Ask, Start
<1> QED BY <1>1 DEF Init, IndInv, FreshWalk, StayedFound, UnreadAhead, ReadBehind,
                  MissedNeedsDeparture, RepeatedNeedsMove

(* ... and every change of the collection and every page keeps it.         *)
LEMMA StepInv ==
    ASSUME IndInv, [Next]_vars
    PROVE  IndInv'
<1>1. TypeOK /\ MaxDoc \in Nat
    BY BoundAssumption DEF IndInv
<1>2. ASSUME NEW k \in Month, Insert(k)
      PROVE  IndInv'
    <2> DEFINE n == count + 1
               m == [month EXCEPT ![n] = k]
    <2>1. count' = n /\ n \in Doc /\ n \in count..MaxDoc /\ now' \in Month
        BY <1>1, <1>2 DEF Insert, TypeOK, Doc
    <2>2. m \in [Doc -> Month]
        BY <1>1 DEF TypeOK
    <2>3. stored \cup {n} \subseteq 1..count'
        BY <1>1, <2>1 DEF TypeOK
    <2>4. \A j \in Month : \A e \in Found(stored \cup {n}, m, j) :
              e \in Found(stored, month, j) \/ e \in {} \/ e > count
        <3> SUFFICES ASSUME NEW j \in Month, NEW e \in stored \cup {n}, ~ (e > count),
                            m[e] = j
                     PROVE  e \in Found(stored, month, j)
            BY DEF Found
        <3>1. e \in stored /\ e # n /\ e \in Doc
            BY <1>1, <2>1 DEF TypeOK, Doc
        <3>2. month[e] = j
            BY <1>1, <3>1 DEF TypeOK
        <3> QED BY <3>1, <3>2 DEF Found
    <2>5. Change(stored \cup {n}, m, {})
        BY <1>2 DEF Insert
    <2> HIDE DEF m, n
    <2> QED BY <2>1, <2>2, <2>3, <2>4, <2>5, ChangeStep
<1>3. ASSUME NEW d \in Doc, Remove(d)
      PROVE  IndInv'
    <2>1. now' \in Month /\ count' \in count..MaxDoc /\ stored \ {d} \subseteq 1..count'
        BY <1>1, <1>3 DEF Remove, TypeOK
    <2>2. \A j \in Month : \A e \in Found(stored \ {d}, month, j) :
              e \in Found(stored, month, j) \/ e \in {} \/ e > count
        BY DEF Found
    <2>3. Change(stored \ {d}, month, {}) /\ month \in [Doc -> Month]
        BY <1>1, <1>3 DEF Remove, TypeOK
    <2> QED BY <2>1, <2>2, <2>3, ChangeStep
<1>4. ASSUME NEW d \in Doc, NEW k \in Month, Redate(d, k)
      PROVE  IndInv'
    <2> DEFINE m == [month EXCEPT ![d] = k]
    <2>1. now' \in Month /\ count' \in count..MaxDoc /\ stored \subseteq 1..count'
        BY <1>1, <1>4 DEF Redate, TypeOK
    <2>2. m \in [Doc -> Month]
        BY <1>1 DEF TypeOK
    <2>3. \A j \in Month : \A e \in Found(stored, m, j) :
              e \in Found(stored, month, j) \/ e \in {d} \/ e > count
        <3> SUFFICES ASSUME NEW j \in Month, NEW e \in stored, e # d,
                            m[e] = j
                     PROVE  month[e] = j
            BY DEF Found
        <3>1. e \in Doc
            BY <1>1 DEF TypeOK, Doc
        <3> QED BY <1>1, <3>1 DEF TypeOK
    <2>4. Change(stored, m, {d}) /\ {d} \in SUBSET Doc
        BY <1>4 DEF Redate
    <2> HIDE DEF m
    <2> QED BY <2>1, <2>2, <2>3, <2>4, ChangeStep
<1>5. ASSUME NEW d \in Doc, RedateToNow(d)
      PROVE  IndInv'
    BY <1>1, <1>4, <1>5 DEF RedateToNow, TypeOK
<1>6. CASE Tick
    <2>1. TypeOK' /\ UNCHANGED <<count, stored, month, client, history>>
        BY <1>1, <1>6 DEF Tick, TypeOK, client, history
    <2> QED BY <2>1 DEF client, history, IndInv, FreshWalk, StayedFound, UnreadAhead,
                        ReadBehind, MissedNeedsDeparture, RepeatedNeedsMove, View, Before
<1>7. CASE UNCHANGED vars
    BY <1>7 DEF vars, collection, client, history, IndInv, TypeOK, FreshWalk, StayedFound,
                UnreadAhead, ReadBehind, MissedNeedsDeparture, RepeatedNeedsMove, View, Before
<1> QED BY <1>2, <1>3, <1>4, <1>5, <1>6, <1>7, ReadStep, BeginStep DEF Next

(* The inductive invariant holds in every state.                           *)
THEOREM Invariance == Spec => []IndInv
<1> QED BY InitInv, StepInv, PTL DEF Spec

(* A walk misses a document that was there all the time only if one before *)
(* it was deleted or dated elsewhere.                                      *)
THEOREM Missed == Spec => []MissedNeedsDeparture
<1>1. IndInv => MissedNeedsDeparture
    BY DEF IndInv
<1> QED BY <1>1, Invariance, PTL

(* A walk from page 1 repeats a document only if an update moved one into  *)
(* the list before it.                                                     *)
THEOREM Repeated == Spec => []RepeatedNeedsMove
<1>1. IndInv => RepeatedNeedsMove
    BY DEF IndInv
<1> QED BY <1>1, Invariance, PTL
=============================================================================
