--------------------------- MODULE GroupingProofs ---------------------------
(***************************************************************************)
(* What the grouping of the admin report (Group in Services) computes, for *)
(* every sequence of rows: by induction over the rows already grouped.     *)
(***************************************************************************)
EXTENDS Services, NumberLemmas, TLAPS

(* The recursion of Grouping is well defined: each value is AddRow of the  *)
(* one before it.                                                          *)
LEMMA GroupingDefined ==
    ASSUME NEW s \in Seq(Receipt), NEW known
    PROVE  /\ Grouping(s, known)[0] = <<>>
           /\ \A n \in 1..Len(s) :
                Grouping(s, known)[n] = AddRow(known, Grouping(s, known)[n - 1], s[n])
<1> DEFINE Upto(m, f) ==
        f = [n \in 0..m |-> IF n = 0 THEN <<>> ELSE AddRow(known, f[n - 1], s[n])]
           T == {m \in Nat : \E f : Upto(m, f)}
<1>0. Len(s) \in Nat
  OBVIOUS
<1>1. 0 \in T
  <2> DEFINE f == [n \in 0..0 |-> <<>>]
  <2>1. Upto(0, f)
    OBVIOUS
  <2> QED
    BY <2>1
<1>2. ASSUME NEW m \in Nat, m \in T PROVE m + 1 \in T
  <2>1. PICK f : Upto(m, f)
    BY <1>2
  <2> DEFINE y == AddRow(known, f[m], s[m + 1])
             g == [n \in 0..(m + 1) |-> IF n = m + 1 THEN y ELSE f[n]]
  <2> HIDE DEF y
  <2>2. ASSUME NEW n \in 0..(m + 1)
        PROVE  g[n] = IF n = 0 THEN <<>> ELSE AddRow(known, g[n - 1], s[n])
    <3>1. CASE n = m + 1
      <4>1. n - 1 = m /\ n # 0 /\ m \in 0..(m + 1) /\ m # m + 1
        BY <3>1
      <4>2. g[n] = y /\ g[n - 1] = f[m]
        BY <3>1, <4>1
      <4> QED
        BY <3>1, <4>1, <4>2 DEF y
    <3>2. CASE n = 0
      BY <2>1, <3>2
    <3>3. CASE n # 0 /\ n # m + 1
      <4>1. n \in 0..m /\ n - 1 \in 0..(m + 1) /\ n - 1 # m + 1
        BY <3>3
      <4>2. g[n] = f[n] /\ g[n - 1] = f[n - 1]
        BY <3>3, <4>1
      <4>3. f[n] = AddRow(known, f[n - 1], s[n])
        BY <2>1, <3>3, <4>1
      <4> QED
        BY <3>3, <4>2, <4>3
    <3> QED
      BY <3>1, <3>2, <3>3
  <2> HIDE DEF g
  <2>3. Upto(m + 1, g)
    BY <2>2 DEF g
  <2> QED
    BY <2>3
<1> HIDE DEF T
<1>3. 0..Len(s) \subseteq T
  BY <1>0, <1>1, <1>2, UpTo
<1>4. \E f : Upto(Len(s), f)
  BY <1>0, <1>3 DEF T
<1>5. Grouping(s, known) = CHOOSE f : Upto(Len(s), f)
  BY Zenon DEF Grouping
<1> DEFINE G == Grouping(s, known)
<1> HIDE DEF Upto, G
<1>6. Upto(Len(s), G)
  BY <1>4, <1>5, Zenon DEF G
<1> QED
  BY <1>0, <1>6 DEF Upto, G
-----------------------------------------------------------------------------
(* A row of somebody else does not disturb the rows of a ...               *)
LEMMA RowsKept ==
    ASSUME NEW s \in Seq(Receipt), NEW x \in Receipt, NEW a, a # Owner[x],
           NEW u \in Seq(Receipt), RowsOf(a, s, u)
    PROVE  RowsOf(a, Append(s, x), u)
<1> DEFINE t == Append(s, x)
<1>1. /\ DOMAIN s = 1..Len(s) /\ DOMAIN t = 1..(Len(s) + 1) /\ Len(s) \in Nat
      /\ \A i \in DOMAIN s : t[i] = s[i]
      /\ t[Len(s) + 1] = x
  OBVIOUS
<1>2. PICK pos \in [DOMAIN u -> DOMAIN s] :
        /\ \A j, k \in DOMAIN u : j < k => pos[j] < pos[k]
        /\ {pos[j] : j \in DOMAIN u} = {i \in DOMAIN s : Owner[s[i]] = a}
        /\ \A j \in DOMAIN u : u[j] = s[pos[j]]
  BY DEF RowsOf
<1> HIDE DEF t
<1>3. {i \in DOMAIN t : Owner[t[i]] = a} = {i \in DOMAIN s : Owner[s[i]] = a}
  BY <1>1
<1>4. pos \in [DOMAIN u -> DOMAIN t] /\ \A j \in DOMAIN u : u[j] = t[pos[j]]
  BY <1>1, <1>2
<1>5. RowsOf(a, t, u)
  BY <1>2, <1>3, <1>4 DEF RowsOf
<1> QED
  BY <1>5 DEF t

(* ... and a row of a becomes the last of them.                            *)
LEMMA RowsExtended ==
    ASSUME NEW s \in Seq(Receipt), NEW x \in Receipt,
           NEW u \in Seq(Receipt), RowsOf(Owner[x], s, u)
    PROVE  RowsOf(Owner[x], Append(s, x), Append(u, x))
<1> DEFINE t == Append(s, x)
           v == Append(u, x)
           n == Len(s) + 1
           m == Len(u) + 1
<1>1. /\ DOMAIN s = 1..Len(s) /\ DOMAIN t = 1..n /\ Len(s) \in Nat /\ t[n] = x
      /\ \A i \in DOMAIN s : t[i] = s[i]
  OBVIOUS
<1>2. /\ DOMAIN u = 1..Len(u) /\ DOMAIN v = 1..m /\ Len(u) \in Nat /\ v[m] = x
      /\ \A i \in DOMAIN u : v[i] = u[i]
  OBVIOUS
<1>3. PICK pos \in [DOMAIN u -> DOMAIN s] :
        /\ \A j, k \in DOMAIN u : j < k => pos[j] < pos[k]
        /\ {pos[j] : j \in DOMAIN u} = {i \in DOMAIN s : Owner[s[i]] = Owner[x]}
        /\ \A j \in DOMAIN u : u[j] = s[pos[j]]
  BY DEF RowsOf
<1> DEFINE q == [j \in 1..m |-> IF j = m THEN n ELSE pos[j]]
<1> HIDE DEF t, v
<1>4. q \in [DOMAIN v -> DOMAIN t]
  BY <1>1, <1>2, <1>3
<1>5. \A j, k \in DOMAIN v : j < k => q[j] < q[k]
  <2> SUFFICES ASSUME NEW j \in 1..m, NEW k \in 1..m, j < k PROVE q[j] < q[k]
    BY <1>2
  <2>1. j \in DOMAIN u /\ q[j] = pos[j] /\ pos[j] \in 1..Len(s)
    BY <1>1, <1>2, <1>3
  <2>2. CASE k = m
    BY <1>1, <2>1, <2>2
  <2>3. CASE k # m
    <3>1. k \in DOMAIN u /\ q[k] = pos[k]
      BY <1>2, <2>3
    <3> QED
      BY <1>3, <2>1, <3>1
  <2> QED
    BY <2>2, <2>3
<1>6. {q[j] : j \in DOMAIN v} = {i \in DOMAIN t : Owner[t[i]] = Owner[x]}
  <2>1. ASSUME NEW j \in DOMAIN v PROVE q[j] \in DOMAIN t /\ Owner[t[q[j]]] = Owner[x]
    <3>1. CASE j = m
      BY <1>1, <1>2, <3>1
    <3>2. CASE j # m
      <4>1. j \in DOMAIN u /\ q[j] = pos[j]
        BY <1>2, <3>2
      <4>2. pos[j] \in DOMAIN s /\ Owner[s[pos[j]]] = Owner[x]
        BY <1>3, <4>1
      <4> QED
        BY <1>1, <4>1, <4>2
    <3> QED
      BY <3>1, <3>2
  <2>2. ASSUME NEW i \in DOMAIN t, Owner[t[i]] = Owner[x]
        PROVE  \E j \in DOMAIN v : q[j] = i
    <3>1. CASE i = n
      BY <1>2, <3>1
    <3>2. CASE i # n
      <4>1. i \in DOMAIN s /\ Owner[s[i]] = Owner[x]
        BY <1>1, <2>2, <3>2
      <4>2. PICK j \in DOMAIN u : pos[j] = i
        BY <1>3, <4>1
      <4>3. j \in 1..m /\ j # m
        BY <1>2
      <4> QED
        BY <1>2, <4>2, <4>3
    <3> QED
      BY <3>1, <3>2
  <2> HIDE DEF q
  <2> QED
    BY <2>1, <2>2
<1>7. \A j \in DOMAIN v : v[j] = t[q[j]]
  <2> SUFFICES ASSUME NEW j \in 1..m PROVE v[j] = t[q[j]]
    BY <1>2
  <2>1. CASE j = m
    BY <1>1, <1>2, <2>1
  <2>2. CASE j # m
    <3>1. j \in DOMAIN u /\ q[j] = pos[j]
      BY <1>2, <2>2
    <3> QED
      BY <1>1, <1>2, <1>3, <3>1
  <2> QED
    BY <2>1, <2>2
<1> HIDE DEF q, n, m
<1>8. RowsOf(Owner[x], t, v)
  BY <1>4, <1>5, <1>6, <1>7 DEF RowsOf
<1> QED
  BY <1>8 DEF t, v

(* The rows of somebody of whom there was none.                            *)
LEMMA RowsStarted ==
    ASSUME NEW s \in Seq(Receipt), NEW x \in Receipt, Owner[x] \notin UserCodes(s)
    PROVE  RowsOf(Owner[x], Append(s, x), <<x>>)
<1>1. RowsOf(Owner[x], s, <<>>)
  <2>1. {i \in DOMAIN s : Owner[s[i]] = Owner[x]} = {}
    BY DEF UserCodes
  <2> DEFINE pos == [j \in {} |-> 0]
  <2>2. DOMAIN <<>> = {}
    OBVIOUS
  <2>3. pos \in [DOMAIN <<>> -> DOMAIN s] /\ {pos[j] : j \in DOMAIN <<>>} = {}
    BY <2>2
  <2> QED
    BY <2>1, <2>2, <2>3 DEF RowsOf
<1>2. <<x>> = Append(<<>>, x) /\ <<>> \in Seq(Receipt)
  OBVIOUS
<1> QED
  BY <1>1, <1>2, RowsExtended

(* Who came first stays first.                                             *)
LEMMA FirstStaysFirst ==
    ASSUME NEW s \in Seq(Receipt), NEW x \in Receipt, NEW a, NEW b,
           AppearsBefore(a, b, s)
    PROVE  AppearsBefore(a, b, Append(s, x))
<1>1. PICK i \in DOMAIN s : Owner[s[i]] = a /\ \A j \in 1..i : Owner[s[j]] # b
  BY DEF AppearsBefore
<1>2. i \in 1..Len(s) /\ 1..i \subseteq 1..Len(s)
  OBVIOUS
<1>3. i \in DOMAIN Append(s, x) /\ \A j \in 1..i : Append(s, x)[j] = s[j]
  BY <1>2
<1>4. i \in 1..i
  BY <1>2
<1> QED
  BY <1>1, <1>3, <1>4 DEF AppearsBefore

(* Whoever has a row comes before somebody who had none.                   *)
LEMMA OldBeforeNew ==
    ASSUME NEW s \in Seq(Receipt), NEW x \in Receipt, Owner[x] \notin UserCodes(s),
           NEW a \in UserCodes(s)
    PROVE  AppearsBefore(a, Owner[x], Append(s, x))
<1>1. PICK i \in DOMAIN s : Owner[s[i]] = a
  BY DEF UserCodes
<1>2. i \in 1..Len(s) /\ 1..i \subseteq DOMAIN s
  OBVIOUS
<1>3. AppearsBefore(a, Owner[x], s)
  BY <1>1, <1>2 DEF AppearsBefore, UserCodes
<1> QED
  BY <1>3, FirstStaysFirst
-----------------------------------------------------------------------------
GroupOf == [owner : Account, name : Account \cup {Nobody}, approve : Receipt,
            items : Seq(Receipt)]

(* One more row, one more owner at most.                                   *)
LEMMA UserCodesGrow ==
    ASSUME NEW s \in Seq(Receipt), NEW x \in Receipt
    PROVE  UserCodes(Append(s, x)) = UserCodes(s) \cup {Owner[x]}
<1> DEFINE t == Append(s, x)
<1>1. /\ DOMAIN s = 1..Len(s) /\ DOMAIN t = 1..(Len(s) + 1) /\ Len(s) \in Nat
      /\ t[Len(s) + 1] = x /\ \A i \in DOMAIN s : t[i] = s[i]
  OBVIOUS
<1> HIDE DEF t
<1>2. \A i \in DOMAIN t : i \in DOMAIN s \/ i = Len(s) + 1
  BY <1>1
<1>3. UserCodes(t) = UserCodes(s) \cup {Owner[x]}
  BY <1>1, <1>2 DEF UserCodes
<1> QED
  BY <1>3 DEF t

(* What the loop over the rows keeps: the groups are those of the rows     *)
(* read so far, and their names are the ones that are known.               *)
Grouped(s, known, groups) ==
    /\ groups \in Seq(GroupOf)
    /\ Faithful(s, groups)
    /\ \A k \in DOMAIN groups :
        /\ groups[k].items # <<>>
        /\ groups[k].name = NameIn(known, groups[k].owner)

(* The first row of a member opens a group at the end ...                  *)
LEMMA OpenGroup ==
    ASSUME NEW s \in Seq(Receipt), NEW x \in Receipt, NEW known, NEW g,
           Grouped(s, known, g), Owner[x] \notin UserCodes(s)
    PROVE  Grouped(Append(s, x), known, AddRow(known, g, x))
<1> DEFINE a == Owner[x]
           t == Append(s, x)
           new == [owner |-> a, name |-> NameIn(known, a), approve |-> x, items |-> <<x>>]
           h == Append(g, new)
<1>1. g \in Seq(GroupOf) /\ a \in Account
  BY DataAssumption DEF Grouped
<1>2. \A k \in DOMAIN g : g[k].owner # a /\ g[k].owner \in UserCodes(s)
  BY DEF Grouped, Faithful
<1>3. AddRow(known, g, x) = h
  <2>1. {k \in DOMAIN g : g[k].owner = Owner[x]} = {}
    BY <1>2
  <2> QED
    BY <2>1, Zenon DEF AddRow
<1>4. new \in GroupOf
  BY <1>1 DEF GroupOf, NameIn
<1>5. /\ new.owner = a /\ new.name = NameIn(known, a)
      /\ new.approve = new.items[1] /\ new.items = <<x>> /\ new.items # <<>>
  OBVIOUS
<1> HIDE DEF new
<1>6. /\ h \in Seq(GroupOf) /\ DOMAIN g = 1..Len(g) /\ DOMAIN h = 1..(Len(g) + 1)
      /\ Len(g) \in Nat /\ h[Len(g) + 1] = new
      /\ \A k \in DOMAIN g : h[k] = g[k]
  BY <1>1, <1>4
<1> HIDE DEF h
<1>7. \A k \in DOMAIN h : k \in DOMAIN g \/ k = Len(g) + 1
  BY <1>6
<1>8. UserCodes(t) = UserCodes(s) \cup {a}
  BY UserCodesGrow
<1>9. {h[k].owner : k \in DOMAIN h} = UserCodes(t)
  <2>1. {g[k].owner : k \in DOMAIN g} = UserCodes(s)
    BY DEF Grouped, Faithful
  <2>2. \A k \in DOMAIN g : k \in DOMAIN h
    BY <1>6
  <2>3. Len(g) + 1 \in DOMAIN h
    BY <1>6
  <2> QED
    BY <1>5, <1>6, <1>7, <1>8, <2>1, <2>2, <2>3
<1>10. ASSUME NEW k \in DOMAIN h
       PROVE  /\ RowsOf(h[k].owner, t, h[k].items) /\ h[k].approve = h[k].items[1]
              /\ h[k].items # <<>> /\ h[k].name = NameIn(known, h[k].owner)
  <2>1. CASE k \in DOMAIN g
    <3>1. g[k] \in GroupOf /\ h[k] = g[k]
      BY <1>1, <1>6, <2>1
    <3>2. /\ RowsOf(g[k].owner, s, g[k].items) /\ g[k].approve = g[k].items[1]
          /\ g[k].items # <<>> /\ g[k].name = NameIn(known, g[k].owner)
      BY <2>1 DEF Grouped, Faithful
    <3>3. g[k].items \in Seq(Receipt)
      BY <3>1 DEF GroupOf
    <3>4. RowsOf(g[k].owner, t, g[k].items)
      BY <1>2, <2>1, <3>2, <3>3, RowsKept
    <3> QED
      BY <3>1, <3>2, <3>4
  <2>2. CASE k = Len(g) + 1
    BY <1>5, <1>6, <2>2, RowsStarted
  <2> QED
    BY <1>7, <2>1, <2>2
<1>11. ASSUME NEW k \in DOMAIN h, NEW l \in DOMAIN h, k < l
       PROVE  AppearsBefore(h[k].owner, h[l].owner, t)
  <2>1. k \in DOMAIN g /\ h[k] = g[k]
    BY <1>6, <1>11
  <2>2. CASE l \in DOMAIN g
    <3>1. AppearsBefore(g[k].owner, g[l].owner, s)
      BY <1>11, <2>1, <2>2 DEF Grouped, Faithful
    <3> QED
      BY <1>6, <2>1, <2>2, <3>1, FirstStaysFirst
  <2>3. CASE l = Len(g) + 1
    <3>1. g[k].owner \in UserCodes(s)
      BY <1>2, <2>1
    <3> QED
      BY <1>5, <1>6, <2>1, <2>3, <3>1, OldBeforeNew
  <2> QED
    BY <1>7, <2>2, <2>3
<1> HIDE DEF t
<1>12. Grouped(t, known, h)
  BY <1>6, <1>9, <1>10, <1>11 DEF Grouped, Faithful
<1> QED
  BY <1>3, <1>12 DEF t

(* ... and every other row of the member joins it.                         *)
LEMMA JoinGroup ==
    ASSUME NEW s \in Seq(Receipt), NEW x \in Receipt, NEW known, NEW g,
           Grouped(s, known, g), Owner[x] \in UserCodes(s)
    PROVE  Grouped(Append(s, x), known, AddRow(known, g, x))
<1> DEFINE a == Owner[x]
           t == Append(s, x)
           K == {k \in DOMAIN g : g[k].owner = a}
           h == [k \in DOMAIN g |->
                    IF k \in K THEN [g[k] EXCEPT !.items = Append(@, x)] ELSE g[k]]
<1>1. g \in Seq(GroupOf) /\ a \in Account /\ DOMAIN g = 1..Len(g) /\ Len(g) \in Nat
  BY DataAssumption DEF Grouped
<1>2. AddRow(known, g, x) = h
  <2>1. K # {}
    BY DEF Grouped, Faithful
  <2> QED
    BY <2>1, Zenon DEF AddRow
<1>3. ASSUME NEW k \in DOMAIN g
      PROVE  /\ h[k] \in GroupOf /\ h[k].items # <<>>
             /\ h[k].owner = g[k].owner /\ h[k].name = g[k].name
             /\ RowsOf(h[k].owner, t, h[k].items) /\ h[k].approve = h[k].items[1]
  <2>1. /\ RowsOf(g[k].owner, s, g[k].items) /\ g[k].approve = g[k].items[1]
        /\ g[k].items # <<>>
    BY DEF Grouped, Faithful
  <2>2. g[k] \in GroupOf /\ g[k].items \in Seq(Receipt)
    <3>1. g[k] \in GroupOf
      BY <1>1
    <3> QED
      BY <3>1 DEF GroupOf
  <2>3. CASE k \in K
    <3>1. /\ h[k] = [g[k] EXCEPT !.items = Append(g[k].items, x)]
          /\ g[k].owner = a
      BY <2>3
    <3>2. /\ Append(g[k].items, x) \in Seq(Receipt) /\ Append(g[k].items, x) # <<>>
          /\ Append(g[k].items, x)[1] = g[k].items[1]
      BY <2>1, <2>2
    <3>3. RowsOf(a, t, Append(g[k].items, x))
      BY <2>1, <2>2, <3>1, RowsExtended
    <3> HIDE DEF h
    <3>4. /\ h[k] \in GroupOf /\ h[k].items = Append(g[k].items, x)
          /\ h[k].owner = g[k].owner /\ h[k].name = g[k].name
          /\ h[k].approve = g[k].approve
      BY <2>2, <3>1, <3>2 DEF GroupOf
    <3> QED
      BY <2>1, <3>1, <3>2, <3>3, <3>4
  <2>4. CASE k \notin K
    <3>1. h[k] = g[k] /\ g[k].owner # a
      BY <2>4
    <3>2. RowsOf(g[k].owner, t, g[k].items)
      BY <2>1, <2>2, <3>1, RowsKept
    <3> HIDE DEF h
    <3> QED
      BY <2>1, <2>2, <3>1, <3>2
  <2> QED
    BY <2>3, <2>4
<1>4. DOMAIN h = DOMAIN g
  OBVIOUS
<1> HIDE DEF h, t
<1>5. h \in Seq(GroupOf)
  <2>1. h = [k \in 1..Len(g) |-> h[k]]
    BY <1>1, <1>4 DEF h
  <2> QED
    BY <1>1, <1>3, <2>1
<1>6. {h[k].owner : k \in DOMAIN h} = UserCodes(t)
  <2>1. {g[k].owner : k \in DOMAIN g} = UserCodes(s)
    BY DEF Grouped, Faithful
  <2>2. UserCodes(t) = UserCodes(s)
    <3>1. UserCodes(t) = UserCodes(s) \cup {a}
      BY UserCodesGrow DEF t
    <3> HIDE DEF K
    <3> QED
      BY <3>1
  <2>3. \A k \in DOMAIN g : h[k].owner = g[k].owner
    BY <1>3
  <2>4. {h[k].owner : k \in DOMAIN h} = {g[k].owner : k \in DOMAIN g}
    BY <1>4, <2>3
  <2> QED
    BY <2>1, <2>2, <2>4
<1>7. \A k, l \in DOMAIN h : k < l => AppearsBefore(h[k].owner, h[l].owner, t)
  BY <1>3, <1>4, FirstStaysFirst DEF Grouped, Faithful, t
<1>8. \A k \in DOMAIN h : h[k].name = NameIn(known, h[k].owner)
  BY <1>3, <1>4 DEF Grouped
<1>9. Grouped(t, known, h)
  BY <1>3, <1>4, <1>5, <1>6, <1>7, <1>8 DEF Grouped, Faithful
<1> QED
  BY <1>2, <1>9 DEF t

(* The report groups any rows faithfully, with the names that are known    *)
(* (receipt.service.ts:85-126).                                            *)
THEOREM GroupFaithful ==
    ASSUME NEW s \in Seq(Receipt), NEW known
    PROVE  Grouped(s, known, Group(s, known))
<1> DEFINE g == Grouping(s, known)
           prefix(n) == SubSeq(s, 1, n)
           T == {n \in 0..Len(s) : Grouped(prefix(n), known, g[n])}
<1>1. Len(s) \in Nat
  OBVIOUS
<1>2. 0 \in T
  <2>1. g[0] = <<>> /\ prefix(0) = <<>>
    BY GroupingDefined
  <2>2. Grouped(<<>>, known, <<>>)
    BY DEF Grouped, Faithful, UserCodes
  <2> HIDE DEF g, prefix
  <2> QED
    BY <1>1, <2>1, <2>2
<1>3. ASSUME NEW n \in 0..Len(s), n \in T, n < Len(s) PROVE n + 1 \in T
  <2>1. n + 1 \in 1..Len(s) /\ (n + 1) - 1 = n
    BY <1>3
  <2>2. g[n + 1] = AddRow(known, g[n], s[n + 1])
    BY <2>1, GroupingDefined
  <2>3. prefix(n) \in Seq(Receipt) /\ s[n + 1] \in Receipt
    BY <2>1
  <2>4. prefix(n + 1) = Append(prefix(n), s[n + 1])
    BY <2>1
  <2>5. Grouped(prefix(n), known, g[n])
    BY <1>3
  <2> HIDE DEF g, prefix
  <2>6. Grouped(prefix(n + 1), known, g[n + 1])
    BY <2>2, <2>3, <2>4, <2>5, OpenGroup, JoinGroup
  <2> QED
    BY <1>1, <2>1, <2>6
<1> HIDE DEF T
<1>4. Len(s) \in T
  <2>1. \A n \in 0..Len(s) : n \in T /\ n < Len(s) => n + 1 \in T
    BY <1>3
  <2>2. 0..Len(s) \subseteq T
    BY <1>1, <1>2, <2>1, UpTo
  <2> QED
    BY <1>1, <2>2
<1>5. prefix(Len(s)) = s
  OBVIOUS
<1> QED
  BY <1>4, <1>5 DEF T, Group
=============================================================================
