---------------------------- MODULE InventoryProofs ----------------------------
(***************************************************************************)
(* Theorems about InventoryView, for every set of resources and every      *)
(* batch size, about the finder over it, for every score, and about the    *)
(* scan it shows beside what the CLI prints.  mergeResources and Dedupe    *)
(* fold and the finder ranks, so the proofs need induction: over sets of   *)
(* naturals, as the provers take no predicates.                            *)
(***************************************************************************)
EXTENDS InventoryFinder, InventoryDedupe, FiniteSetTheorems, SequenceTheorems,
        WellFoundedInduction, TLAPS

-------------------------------------------------------------------------------
(* Induction, and functions defined by it. *)

LEMMA Least ==
    ASSUME NEW T, T \subseteq Nat, T # {}
    PROVE  \E x \in T : \A y \in T : x <= y
<1>1. PICK x \in T : \A y \in T : ~(<<y, x>> \in OpToRel(<, Nat))
  BY NatLessThanWellFounded, WFMin
<1>2. \A y \in T : ~(y < x)
  <2> TAKE y \in T
  <2>1. <<y, x>> \in Nat \X Nat
    OBVIOUS
  <2> QED
    BY <1>1, <2>1 DEF OpToRel
<1> QED
  BY <1>2

LEMMA Induction ==
    ASSUME NEW S, 0 \in S, \A n \in Nat : n \in S => n + 1 \in S
    PROVE  \A n \in Nat : n \in S
<1> SUFFICES ASSUME Nat \ S # {} PROVE FALSE
  OBVIOUS
<1>1. PICK x \in Nat \ S : \A y \in Nat \ S : x <= y
  BY Least
<1>2. x # 0 /\ x - 1 \in Nat
  BY <1>1
<1>3. x - 1 \in S
  BY <1>1, <1>2
<1>4. (x - 1) + 1 \in S
  BY <1>2, <1>3
<1> QED
  BY <1>1, <1>4

Steps(A, n) == [A \X (1..n) -> A]

IsIteration(f, A, a, n, step) ==
    /\ f \in [0..n -> A]
    /\ f[0] = a
    /\ \A i \in 1..n : f[i] = step[<<f[i - 1], i>>]

\* The first n values of an iteration exist.
LEMMA Iteration ==
    ASSUME NEW A, NEW a \in A, NEW n \in Nat, NEW step \in Steps(A, n)
    PROVE  \E f : IsIteration(f, A, a, n, step)
<1> USE DEF Steps
<1> DEFINE Good(k, f) == f[0] = a /\ \A i \in 1..k : f[i] = step[<<f[i - 1], i>>]
           S == {k \in Nat : k <= n => \E f \in [0..k -> A] : Good(k, f)}
<1>1. 0 \in S
  <2>1. [i \in 0..0 |-> a] \in [0..0 -> A] /\ Good(0, [i \in 0..0 |-> a])
    OBVIOUS
  <2> QED
    BY <2>1
<1>2. ASSUME NEW k \in Nat, k \in S PROVE k + 1 \in S
  <2> SUFFICES ASSUME k + 1 <= n PROVE \E f \in [0..(k + 1) -> A] : Good(k + 1, f)
    OBVIOUS
  <2>1. PICK f \in [0..k -> A] : Good(k, f)
    BY <1>2
  <2> DEFINE g == [i \in 0..(k + 1) |-> IF i = k + 1 THEN step[<<f[k], k + 1>>] ELSE f[i]]
  <2>2. f[k] \in A /\ <<f[k], k + 1>> \in A \X (1..n)
    OBVIOUS
  <2>3. step[<<f[k], k + 1>>] \in A
    BY <2>2
  <2>4. g \in [0..(k + 1) -> A]
    BY <2>3
  <2>5. g[0] = a
    BY <2>1
  <2>6. ASSUME NEW i \in 1..(k + 1) PROVE g[i] = step[<<g[i - 1], i>>]
    <3>1. CASE i = k + 1
      <4>1. g[i] = step[<<f[k], k + 1>>] /\ g[i - 1] = f[k] /\ i - 1 = k
        BY <3>1
      <4> QED
        BY <3>1, <4>1
    <3>2. CASE i # k + 1
      BY <2>1, <3>2
    <3> QED
      BY <3>1, <3>2
  <2> QED
    BY <2>4, <2>5, <2>6
<1>3. n \in S
  <2> HIDE DEF S
  <2> QED
    BY <1>1, <1>2, Induction
<1> QED
  BY <1>3 DEF IsIteration

\* A set of the first numbers is as large as its last.
LEMMA Initial ==
    ASSUME NEW n \in Nat, NEW S \in SUBSET (1..n), \A i \in 1..n, j \in S : i < j => i \in S
    PROVE  Cardinality(S) \in 0..n /\ S = 1..Cardinality(S)
<1>1. CASE S = 1..n
  <2>1. Cardinality(1..n) = n
    BY FS_Interval
  <2> QED
    BY <1>1, <2>1
<1>2. CASE S # 1..n
  <2>0. \E x \in 1..n : x \notin S
    BY <1>2
  <2>1. (1..n) \ S \subseteq Nat /\ (1..n) \ S # {}
    BY <2>0
  <2>2. PICK m \in (1..n) \ S : \A y \in (1..n) \ S : m <= y
    BY <2>1, Least
  <2>4. \A i \in 1..(m - 1) : i \in S
    BY <2>2
  <2>5. \A i \in S : i \in 1..(m - 1)
    BY <2>2
  <2>6. S = 1..(m - 1)
    BY <2>4, <2>5
  <2>3. Cardinality(1..(m - 1)) = m - 1
    BY FS_Interval
  <2> QED
    BY <2>2, <2>3, <2>6
<1> QED
  BY <1>1, <1>2

-------------------------------------------------------------------------------
(* Tables. *)

Rows == {Row(r) : r \in Resource}

Ordered(rows) ==
    \A i, j \in 1..Len(rows) : i < j => ~lessResource(rows[j].res, rows[i].res)

Distinct(rows) ==
    \A i, j \in 1..Len(rows) : resourceKey(rows[i].res) = resourceKey(rows[j].res) => i = j

Entries(rows) == {rows[i].res : i \in 1..Len(rows)}

IsTable(rows) == rows \in Seq(Rows) /\ Ordered(rows) /\ Distinct(rows)

LEMMA RowOf ==
    ASSUME NEW r \in Resource
    PROVE  Row(r) \in Rows /\ Row(r).res = r /\ Row(r).text = searchTextFor(r)
  BY DEF Rows, Row

LEMMA RowFacts ==
    ASSUME NEW x \in Rows
    PROVE  x.res \in Resource /\ x.text = searchTextFor(x.res) /\ x = Row(x.res)
<1>1. PICK r \in Resource : x = Row(r)
  BY DEF Rows
<1> QED
  BY <1>1, RowOf

LEMMA TableFacts ==
    ASSUME NEW rows \in Seq(Rows)
    PROVE  /\ Len(rows) \in Nat /\ DOMAIN rows = 1..Len(rows)
           /\ \A i \in 1..Len(rows) : rows[i] \in Rows /\ rows[i].res \in Resource
           /\ Entries(rows) \subseteq Resource
<1>1. Len(rows) \in Nat /\ DOMAIN rows = 1..Len(rows)
  OBVIOUS
<1>2. \A i \in 1..Len(rows) : rows[i] \in Rows
  OBVIOUS
<1>3. \A i \in 1..Len(rows) : rows[i].res \in Resource
  BY <1>2, RowFacts
<1> QED
  BY <1>1, <1>2, <1>3 DEF Entries

\* Not being less is transitive: the order is total but for ties.
LEMMA NotLess ==
    ASSUME NEW a \in Resource, NEW b \in Resource, NEW c \in Resource,
           ~lessResource(b, a), ~lessResource(c, b)
    PROVE  ~lessResource(c, a)
  BY ViewAssumption DEF lessResource

LEMMA LessOnce ==
    ASSUME NEW a \in Resource, NEW b \in Resource, lessResource(a, b)
    PROVE  ~lessResource(b, a)
  BY ViewAssumption DEF lessResource

-------------------------------------------------------------------------------
(* Dropping rows. *)

LEMMA KeepingDef ==
    ASSUME NEW rows \in Seq(Rows), NEW drops
    PROVE  /\ Keeping(rows, drops)[0] = <<>>
           /\ \A n \in 1..Len(rows) :
                /\ n \in drops => Keeping(rows, drops)[n] = Keeping(rows, drops)[n - 1]
                /\ n \notin drops =>
                     Keeping(rows, drops)[n] = Append(Keeping(rows, drops)[n - 1], rows[n])
<1> DEFINE A == Seq(Rows)
           N == Len(rows)
           P(f) == f = [n \in 0..N |->
                          IF n = 0 THEN <<>>
                          ELSE IF n \in drops THEN f[n - 1]
                          ELSE Append(f[n - 1], rows[n])]
           step == [p \in A \X (1..N) |->
                      IF p[2] \in drops THEN p[1] ELSE Append(p[1], rows[p[2]])]
<1>1. N \in Nat /\ \A n \in 1..N : rows[n] \in Rows
  OBVIOUS
<1>2. step \in [A \X (1..N) -> A]
  <2> SUFFICES ASSUME NEW p \in A \X (1..N)
               PROVE  (IF p[2] \in drops THEN p[1] ELSE Append(p[1], rows[p[2]])) \in A
    OBVIOUS
  <2>1. p[1] \in Seq(Rows) /\ rows[p[2]] \in Rows
    BY <1>1
  <2> QED
    BY <2>1
<1>3. <<>> \in A
  OBVIOUS
<1>4. PICK f : IsIteration(f, A, <<>>, N, step)
  <2>1. step \in Steps(A, N)
    BY <1>2 DEF Steps
  <2> HIDE DEF step, A, N
  <2> QED
    BY <1>1, <1>3, <2>1, Iteration
<1>5. P(f)
  <2>1. \A i \in 1..N :
          step[<<f[i - 1], i>>] = IF i \in drops THEN f[i - 1] ELSE Append(f[i - 1], rows[i])
    <3> SUFFICES ASSUME NEW i \in 1..N
                 PROVE  step[<<f[i - 1], i>>] =
                          IF i \in drops THEN f[i - 1] ELSE Append(f[i - 1], rows[i])
      OBVIOUS
    <3>1. <<f[i - 1], i>> \in A \X (1..N)
      <4>1. i - 1 \in 0..N /\ f \in [0..N -> A]
        BY <1>1, <1>4 DEF IsIteration
      <4> QED
        BY <4>1
    <3> QED
      BY <3>1
  <2>2. \A i \in 0..N : f[i] = IF i = 0 THEN <<>>
                                ELSE IF i \in drops THEN f[i - 1] ELSE Append(f[i - 1], rows[i])
    <3> HIDE DEF step, A
    <3> TAKE i \in 0..N
    <3>1. i = 0 \/ i \in 1..N
      BY <1>1
    <3>2. CASE i = 0
      BY <1>4, <3>2 DEF IsIteration
    <3>3. CASE i \in 1..N
      BY <1>1, <1>4, <2>1, <3>3 DEF IsIteration
    <3> QED
      BY <3>1, <3>2, <3>3
  <2> QED
    BY <1>4, <2>2 DEF IsIteration
<1>6. Keeping(rows, drops) = CHOOSE g : P(g)
  BY DEF Keeping
<1> HIDE DEF P, step, A
<1>7. P(Keeping(rows, drops))
  BY <1>5, <1>6
<1> DEFINE g == Keeping(rows, drops)
<1> DEFINE F == [n \in 0..N |-> IF n = 0 THEN <<>>
                                 ELSE IF n \in drops THEN g[n - 1] ELSE Append(g[n - 1], rows[n])]
<1>8. g = F
  BY <1>7 DEF P
<1> HIDE DEF g
<1>9. \A n \in 0..N : F[n] = IF n = 0 THEN <<>>
                              ELSE IF n \in drops THEN g[n - 1] ELSE Append(g[n - 1], rows[n])
  OBVIOUS
<1> HIDE DEF F
<1>10. g[0] = <<>> /\ \A n \in 1..N :
        g[n] = IF n \in drops THEN g[n - 1] ELSE Append(g[n - 1], rows[n])
  BY <1>1, <1>8, <1>9
<1> QED
  BY <1>10 DEF g

LEMMA EmptyTable == IsTable(<<>>) /\ Entries(<<>>) = {}
  BY DEF IsTable, Ordered, Distinct, Entries

LEMMA AppendRow ==
    ASSUME NEW t, IsTable(t), NEW x \in Rows,
           \A i \in 1..Len(t) : /\ ~lessResource(x.res, t[i].res)
                                /\ resourceKey(t[i].res) # resourceKey(x.res)
    PROVE  /\ IsTable(Append(t, x))
           /\ Entries(Append(t, x)) = Entries(t) \union {x.res}
<1> DEFINE s == Append(t, x)  m == Len(t)
<1>1. t \in Seq(Rows) /\ Ordered(t) /\ Distinct(t) /\ m \in Nat
  BY DEF IsTable
<1>2. /\ s \in Seq(Rows) /\ Len(s) = m + 1
      /\ \A i \in 1..m : s[i] = t[i]
      /\ s[m + 1] = x
  BY <1>1, AppendProperties
<1>3. \A i \in 1..(m + 1) : i \in 1..m \/ i = m + 1
  BY <1>1
<1>4. \A i \in 1..m : i \in 1..(m + 1) /\ i < m + 1
  BY <1>1
<1> HIDE DEF s, m
<1>5. Ordered(s)
  <2> SUFFICES ASSUME NEW i \in 1..(m + 1), NEW j \in 1..(m + 1), i < j
               PROVE  ~lessResource(s[j].res, s[i].res)
    BY <1>2 DEF Ordered
  <2>1. i \in 1..m
    BY <1>1, <1>3
  <2>2. CASE j \in 1..m
    BY <1>1, <1>2, <2>1, <2>2 DEF Ordered, m
  <2>3. CASE j = m + 1
    BY <1>2, <2>1, <2>3 DEF m
  <2> QED
    BY <1>3, <2>2, <2>3
<1>6. Distinct(s)
  <2> SUFFICES ASSUME NEW i \in 1..(m + 1), NEW j \in 1..(m + 1),
                      resourceKey(s[i].res) = resourceKey(s[j].res)
               PROVE  i = j
    BY <1>2 DEF Distinct
  <2>1. CASE i \in 1..m /\ j \in 1..m
    BY <1>1, <1>2, <2>1 DEF Distinct, m
  <2>2. CASE i \in 1..m /\ j = m + 1
    BY <1>2, <2>2 DEF m
  <2>3. CASE i = m + 1 /\ j \in 1..m
    BY <1>2, <2>3 DEF m
  <2> QED
    BY <1>3, <2>1, <2>2, <2>3
<1>7. Entries(s) = Entries(t) \union {x.res}
  <2>1. Entries(s) = {s[i].res : i \in 1..(m + 1)} /\ Entries(t) = {t[i].res : i \in 1..m}
    BY <1>2 DEF Entries, m
  <2>2. m + 1 \in 1..(m + 1)
    BY <1>1
  <2> QED
    BY <1>2, <1>3, <1>4, <2>1, <2>2
<1> QED
  BY <1>2, <1>5, <1>6, <1>7 DEF IsTable, s

\* What is kept of a table is a table.
LEMMA KeepingTable ==
    ASSUME NEW rows, IsTable(rows), NEW drops
    PROVE  \A n \in 0..Len(rows) :
             /\ IsTable(Keeping(rows, drops)[n])
             /\ Entries(Keeping(rows, drops)[n]) = {rows[i].res : i \in (1..n) \ drops}
<1> DEFINE k == Keeping(rows, drops)
           S == {n \in Nat : n <= Len(rows) =>
                   /\ IsTable(k[n])
                   /\ Entries(k[n]) = {rows[i].res : i \in (1..n) \ drops}}
<1>1. /\ rows \in Seq(Rows) /\ Len(rows) \in Nat /\ Ordered(rows) /\ Distinct(rows)
      /\ \A i \in 1..Len(rows) : rows[i] \in Rows
  BY TableFacts DEF IsTable
<1>2. /\ k[0] = <<>>
      /\ \A n \in 1..Len(rows) :
           /\ n \in drops => k[n] = k[n - 1]
           /\ n \notin drops => k[n] = Append(k[n - 1], rows[n])
  BY <1>1, KeepingDef
<1> HIDE DEF k
<1>3. 0 \in S
  BY <1>2, EmptyTable
<1>4. ASSUME NEW n \in Nat, n \in S PROVE n + 1 \in S
  <2> SUFFICES ASSUME n + 1 <= Len(rows)
               PROVE  /\ IsTable(k[n + 1])
                      /\ Entries(k[n + 1]) = {rows[i].res : i \in (1..(n + 1)) \ drops}
    OBVIOUS
  <2>1. n + 1 \in 1..Len(rows) /\ (n + 1) - 1 = n
    BY <1>1
  <2>2. IsTable(k[n]) /\ Entries(k[n]) = {rows[i].res : i \in (1..n) \ drops}
    BY <1>1, <1>4
  <2>3. \A i \in 1..(n + 1) : i \in 1..n \/ i = n + 1
    OBVIOUS
  <2>4. \A i \in 1..n : i \in 1..(n + 1) /\ i \in 1..Len(rows) /\ i < n + 1
    BY <1>1
  <2>5. CASE n + 1 \in drops
    <3>1. k[n + 1] = k[n]
      BY <1>2, <2>1, <2>5
    <3>2. (1..(n + 1)) \ drops = (1..n) \ drops
      BY <2>3, <2>4, <2>5
    <3> QED
      BY <2>2, <3>1, <3>2
  <2>6. CASE n + 1 \notin drops
    <3>1. k[n + 1] = Append(k[n], rows[n + 1])
      BY <1>2, <2>1, <2>6
    <3>2. ASSUME NEW i \in 1..Len(k[n])
          PROVE  /\ ~lessResource(rows[n + 1].res, k[n][i].res)
                 /\ resourceKey(k[n][i].res) # resourceKey(rows[n + 1].res)
      <4>1. k[n][i].res \in Entries(k[n])
        BY DEF Entries
      <4>2. PICK j \in 1..n : k[n][i].res = rows[j].res
        BY <2>2, <4>1
      <4>3. j \in 1..Len(rows) /\ j < n + 1
        BY <2>4
      <4> QED
        BY <1>1, <2>1, <4>2, <4>3 DEF Ordered, Distinct
    <3>3. /\ IsTable(k[n + 1])
          /\ Entries(k[n + 1]) = Entries(k[n]) \union {rows[n + 1].res}
      BY <1>1, <2>1, <2>2, <3>1, <3>2, AppendRow
    <3>4. (1..(n + 1)) \ drops = ((1..n) \ drops) \union {n + 1}
      BY <2>3, <2>4, <2>6
    <3> QED
      BY <2>2, <3>3, <3>4
  <2> QED
    BY <2>5, <2>6
<1> HIDE DEF S
<1>5. \A n \in Nat : n \in S
  BY <1>3, <1>4, Induction
<1>6. \A n \in 0..Len(rows) : n \in Nat /\ n <= Len(rows) /\ n \in S
  BY <1>1, <1>5
<1>7. \A n \in 0..Len(rows) :
        /\ IsTable(k[n])
        /\ Entries(k[n]) = {rows[i].res : i \in (1..n) \ drops}
  BY <1>6 DEF S
<1> QED
  BY <1>7 DEF k

LEMMA WithoutTable ==
    ASSUME NEW rows, IsTable(rows), NEW drops
    PROVE  /\ IsTable(Without(rows, drops))
           /\ Entries(Without(rows, drops)) = {rows[i].res : i \in (1..Len(rows)) \ drops}
<1>1. Len(rows) \in 0..Len(rows)
  BY TableFacts DEF IsTable
<1> QED
  BY <1>1, KeepingTable DEF Without

\* Nothing dropped is nothing changed.
LEMMA WithoutNothing ==
    ASSUME NEW rows \in Seq(Rows)
    PROVE  Without(rows, {}) = rows
<1> DEFINE k == Keeping(rows, {})
           S == {n \in Nat : n <= Len(rows) =>
                   /\ k[n] \in Seq(Rows) /\ Len(k[n]) = n
                   /\ \A i \in 1..n : k[n][i] = rows[i]}
<1>1. Len(rows) \in Nat /\ \A i \in 1..Len(rows) : rows[i] \in Rows
  OBVIOUS
<1>2. k[0] = <<>> /\ \A n \in 1..Len(rows) : k[n] = Append(k[n - 1], rows[n])
  BY KeepingDef
<1> HIDE DEF k
<1>3. 0 \in S
  <2>1. k[0] \in Seq(Rows) /\ Len(k[0]) = 0
    BY <1>2
  <2>2. \A i \in 1..0 : FALSE
    OBVIOUS
  <2> QED
    BY <2>1, <2>2
<1>4. ASSUME NEW n \in Nat, n \in S PROVE n + 1 \in S
  <2> SUFFICES ASSUME n + 1 <= Len(rows)
               PROVE  /\ k[n + 1] \in Seq(Rows) /\ Len(k[n + 1]) = n + 1
                      /\ \A i \in 1..(n + 1) : k[n + 1][i] = rows[i]
    OBVIOUS
  <2>1. /\ k[n] \in Seq(Rows) /\ Len(k[n]) = n
        /\ \A i \in 1..n : k[n][i] = rows[i]
    BY <1>1, <1>4
  <2>2. n + 1 \in 1..Len(rows) /\ (n + 1) - 1 = n
    BY <1>1
  <2>3. k[n + 1] = Append(k[n], rows[n + 1]) /\ rows[n + 1] \in Rows
    BY <1>1, <1>2, <2>2
  <2>4. /\ Append(k[n], rows[n + 1]) \in Seq(Rows)
        /\ Len(Append(k[n], rows[n + 1])) = n + 1
        /\ \A i \in 1..n : Append(k[n], rows[n + 1])[i] = k[n][i]
        /\ Append(k[n], rows[n + 1])[n + 1] = rows[n + 1]
    BY <2>1, <2>3, AppendProperties
  <2>5. \A i \in 1..(n + 1) : i \in 1..n \/ i = n + 1
    OBVIOUS
  <2> QED
    BY <2>1, <2>3, <2>4, <2>5
<1> HIDE DEF S
<1>5. \A n \in Nat : n \in S
  BY <1>3, <1>4, Induction
<1>6. /\ k[Len(rows)] \in Seq(Rows) /\ Len(k[Len(rows)]) = Len(rows)
      /\ \A i \in 1..Len(rows) : k[Len(rows)][i] = rows[i]
  BY <1>1, <1>5 DEF S
<1>7. k[Len(rows)] = rows
  BY <1>6, SeqEqual
<1> QED
  BY <1>7 DEF Without, k

-------------------------------------------------------------------------------
(* Inserting rows. *)

Before(rows, r) == {i \in DOMAIN rows : ~lessResource(r, rows[i].res)}

LEMMA InsertRowType ==
    ASSUME NEW rows \in Seq(Rows), NEW r \in Resource
    PROVE  /\ Cardinality(Before(rows, r)) \in 0..Len(rows)
           /\ InsertRow(rows, r) \in Seq(Rows)
           /\ Len(InsertRow(rows, r)) = Len(rows) + 1
<1> DEFINE m == Len(rows)  c == Cardinality(Before(rows, r))
<1>1. m \in Nat /\ DOMAIN rows = 1..m /\ \A i \in 1..m : rows[i] \in Rows
  OBVIOUS
<1>2. c \in 0..m
  <2>1. IsFiniteSet(1..m) /\ Cardinality(1..m) = m
    <3> HIDE DEF m
    <3> QED
      BY <1>1, FS_Interval
  <2>2. Before(rows, r) \in SUBSET (1..m)
    BY <1>1 DEF Before
  <2>3. c \in Nat /\ c <= m
    BY <2>1, <2>2, FS_Subset, FS_CardinalityType
  <2> QED
    BY <1>1, <2>3
<1>3. InsertRow(rows, r) =
        [i \in 1..(m + 1) |-> IF i <= c THEN rows[i] ELSE IF i = c + 1 THEN Row(r) ELSE rows[i - 1]]
  BY DEF InsertRow, Before
<1>4. Row(r) \in Rows
  BY RowOf
<1> HIDE DEF m, c
<1>5. ASSUME NEW i \in 1..(m + 1)
      PROVE  (IF i <= c THEN rows[i] ELSE IF i = c + 1 THEN Row(r) ELSE rows[i - 1]) \in Rows
  <2>1. CASE i <= c
    BY <1>1, <1>2, <2>1
  <2>2. CASE i = c + 1
    BY <1>2, <1>4, <2>2
  <2>3. CASE ~(i <= c) /\ i # c + 1
    <3>1. i - 1 \in 1..m
      BY <1>1, <1>2, <2>3
    <3> QED
      BY <1>1, <2>3, <3>1
  <2> QED
    BY <2>1, <2>2, <2>3
<1>6. InsertRow(rows, r) \in [1..(m + 1) -> Rows]
  BY <1>3, <1>5
<1>7. m + 1 \in Nat
  BY <1>1
<1>8. InsertRow(rows, r) \in Seq(Rows) /\ Len(InsertRow(rows, r)) = m + 1
  BY <1>6, <1>7
<1> QED
  BY <1>2, <1>8 DEF m, c

LEMMA InsertingDef ==
    ASSUME NEW rows \in Seq(Rows), NEW fresh \in Seq(Resource)
    PROVE  /\ Inserting(rows, fresh)[0] = rows
           /\ \A n \in 1..Len(fresh) :
                Inserting(rows, fresh)[n] = InsertRow(Inserting(rows, fresh)[n - 1], fresh[n])
<1> DEFINE A == Seq(Rows)
           N == Len(fresh)
           P(f) == f = [n \in 0..N |-> IF n = 0 THEN rows ELSE InsertRow(f[n - 1], fresh[n])]
           step == [p \in A \X (1..N) |-> InsertRow(p[1], fresh[p[2]])]
<1>1. N \in Nat /\ \A n \in 1..N : fresh[n] \in Resource
  OBVIOUS
<1>2. step \in [A \X (1..N) -> A]
  <2> SUFFICES ASSUME NEW p \in A \X (1..N)
               PROVE  InsertRow(p[1], fresh[p[2]]) \in A
    OBVIOUS
  <2>1. p[1] \in Seq(Rows) /\ fresh[p[2]] \in Resource
    BY <1>1
  <2> QED
    BY <2>1, InsertRowType
<1>3. rows \in A
  OBVIOUS
<1>4. PICK f : IsIteration(f, A, rows, N, step)
  <2>1. step \in Steps(A, N)
    BY <1>2 DEF Steps
  <2> HIDE DEF step, A, N
  <2> QED
    BY <1>1, <1>3, <2>1, Iteration
<1>5. P(f)
  <2>1. \A i \in 1..N : step[<<f[i - 1], i>>] = InsertRow(f[i - 1], fresh[i])
    <3> SUFFICES ASSUME NEW i \in 1..N
                 PROVE  step[<<f[i - 1], i>>] = InsertRow(f[i - 1], fresh[i])
      OBVIOUS
    <3>1. <<f[i - 1], i>> \in A \X (1..N)
      <4>1. i - 1 \in 0..N /\ f \in [0..N -> A]
        BY <1>1, <1>4 DEF IsIteration
      <4> QED
        BY <4>1
    <3> QED
      BY <3>1
  <2>2. \A i \in 0..N : f[i] = IF i = 0 THEN rows ELSE InsertRow(f[i - 1], fresh[i])
    <3> HIDE DEF step, A
    <3> TAKE i \in 0..N
    <3>1. i = 0 \/ i \in 1..N
      BY <1>1
    <3>2. CASE i = 0
      BY <1>4, <3>2 DEF IsIteration
    <3>3. CASE i \in 1..N
      BY <1>1, <1>4, <2>1, <3>3 DEF IsIteration
    <3> QED
      BY <3>1, <3>2, <3>3
  <2> QED
    BY <1>4, <2>2 DEF IsIteration
<1>6. Inserting(rows, fresh) = CHOOSE g : P(g)
  BY DEF Inserting
<1> HIDE DEF P, step, A
<1>7. P(Inserting(rows, fresh))
  BY <1>5, <1>6
<1> DEFINE g == Inserting(rows, fresh)
           F == [n \in 0..N |-> IF n = 0 THEN rows ELSE InsertRow(g[n - 1], fresh[n])]
<1>8. g = F
  BY <1>7 DEF P
<1> HIDE DEF g
<1>9. \A n \in 0..N : F[n] = IF n = 0 THEN rows ELSE InsertRow(g[n - 1], fresh[n])
  OBVIOUS
<1> HIDE DEF F
<1>10. g[0] = rows /\ \A n \in 1..N : g[n] = InsertRow(g[n - 1], fresh[n])
  BY <1>1, <1>8, <1>9
<1> QED
  BY <1>10 DEF g

\* A row with a key of its own, put behind the rows that are not greater, leaves
\* the table in order.
LEMMA InsertRowTable ==
    ASSUME NEW rows, IsTable(rows), NEW r \in Resource,
           \A i \in 1..Len(rows) : resourceKey(rows[i].res) # resourceKey(r)
    PROVE  /\ IsTable(InsertRow(rows, r))
           /\ Entries(InsertRow(rows, r)) = Entries(rows) \union {r}
<1> DEFINE m == Len(rows)  c == Cardinality(Before(rows, r))  s == InsertRow(rows, r)
<1>1. /\ rows \in Seq(Rows) /\ m \in Nat /\ DOMAIN rows = 1..m
      /\ Ordered(rows) /\ Distinct(rows)
      /\ \A i \in 1..m : rows[i] \in Rows /\ rows[i].res \in Resource
  BY TableFacts DEF IsTable
<1>2. c \in 0..m /\ s \in Seq(Rows) /\ Len(s) = m + 1
  BY <1>1, InsertRowType
<1>3. Before(rows, r) = 1..c
  <2>1. Before(rows, r) \in SUBSET (1..m)
    BY <1>1 DEF Before
  <2>2. \A i \in 1..m, j \in Before(rows, r) : i < j => i \in Before(rows, r)
    <3> SUFFICES ASSUME NEW i \in 1..m, NEW j \in 1..m, i < j, ~lessResource(r, rows[j].res)
                 PROVE  ~lessResource(r, rows[i].res)
      BY <1>1 DEF Before
    <3>1. ~lessResource(rows[j].res, rows[i].res)
      BY <1>1 DEF Ordered
    <3> QED
      BY <1>1, <3>1, NotLess
  <2> QED
    BY <1>1, <2>1, <2>2, Initial
<1>4. s = [i \in 1..(m + 1) |->
             IF i <= c THEN rows[i] ELSE IF i = c + 1 THEN Row(r) ELSE rows[i - 1]]
  BY DEF InsertRow, Before
<1>5. Row(r).res = r
  BY RowOf
<1> HIDE DEF m, c, s
<1>6. c \in Nat /\ c + 1 \in 1..(m + 1)
  BY <1>1, <1>2
<1>7. /\ \A i \in 1..c : i \in 1..m /\ i \in 1..(m + 1) /\ s[i] = rows[i]
      /\ s[c + 1].res = r
      /\ \A i \in (c + 2)..(m + 1) : i - 1 \in (c + 1)..m /\ i - 1 \in 1..m /\ s[i] = rows[i - 1]
  <2>1. \A i \in 1..c : i \in 1..m /\ i \in 1..(m + 1) /\ i <= c
    BY <1>1, <1>2
  <2>2. \A i \in (c + 2)..(m + 1) : /\ i - 1 \in (c + 1)..m /\ i - 1 \in 1..m /\ i \in 1..(m + 1)
                                    /\ ~(i <= c) /\ i # c + 1
    BY <1>1, <1>2
  <2>3. \A i \in 1..c : s[i] = rows[i]
    BY <1>4, <2>1
  <2>4. s[c + 1].res = r
    BY <1>4, <1>5, <1>6
  <2>5. \A i \in (c + 2)..(m + 1) : s[i] = rows[i - 1]
    BY <1>4, <2>2
  <2> QED
    BY <2>1, <2>2, <2>3, <2>4, <2>5
<1>8. \A i \in 1..(m + 1) : i \in 1..c \/ i = c + 1 \/ i \in (c + 2)..(m + 1)
  BY <1>1, <1>6
<1>9. \A i \in 1..c : ~lessResource(r, rows[i].res)
  BY <1>3 DEF Before
<1>10. \A i \in (c + 1)..m : i \in 1..m /\ ~lessResource(rows[i].res, r)
  <2> TAKE i \in (c + 1)..m
  <2>1. i \in 1..m /\ i \notin 1..c
    BY <1>1, <1>6
  <2>2. lessResource(r, rows[i].res)
    BY <1>1, <1>3, <2>1 DEF Before
  <2> QED
    BY <1>1, <2>1, <2>2, LessOnce
<1>11. Ordered(s)
  <2> SUFFICES ASSUME NEW i \in 1..(m + 1), NEW j \in 1..(m + 1), i < j
               PROVE  ~lessResource(s[j].res, s[i].res)
    BY <1>2 DEF Ordered
  <2>1. CASE i \in 1..c /\ j \in 1..c
    BY <1>1, <1>7, <2>1 DEF Ordered, m
  <2>2. CASE i \in 1..c /\ j = c + 1
    BY <1>7, <1>9, <2>2
  <2>3. CASE i \in 1..c /\ j \in (c + 2)..(m + 1)
    <3>1. i < j - 1 /\ i \in 1..m /\ j - 1 \in 1..m
      BY <1>1, <1>6, <1>7, <2>3
    <3>2. s[i] = rows[i] /\ s[j] = rows[j - 1]
      BY <1>7, <2>3
    <3> QED
      BY <1>1, <3>1, <3>2 DEF Ordered, m
  <2>4. CASE i = c + 1 /\ j \in (c + 2)..(m + 1)
    BY <1>7, <1>10, <2>4
  <2>5. CASE i \in (c + 2)..(m + 1) /\ j \in (c + 2)..(m + 1)
    <3>1. i - 1 < j - 1 /\ i - 1 \in 1..m /\ j - 1 \in 1..m
      BY <1>1, <1>6, <1>7, <2>5
    <3>2. s[i] = rows[i - 1] /\ s[j] = rows[j - 1]
      BY <1>7, <2>5
    <3> QED
      BY <1>1, <3>1, <3>2 DEF Ordered, m
  <2>6. ~(i = c + 1 /\ j \in 1..c) /\ ~(i \in (c + 2)..(m + 1) /\ j \in 1..c)
        /\ ~(i = c + 1 /\ j = c + 1) /\ ~(i \in (c + 2)..(m + 1) /\ j = c + 1)
    BY <1>6
  <2> QED
    BY <1>8, <2>1, <2>2, <2>3, <2>4, <2>5, <2>6
<1>12. Distinct(s)
  <2> SUFFICES ASSUME NEW i \in 1..(m + 1), NEW j \in 1..(m + 1),
                      resourceKey(s[i].res) = resourceKey(s[j].res)
               PROVE  i = j
    BY <1>2 DEF Distinct
  <2> DEFINE at(x) == IF x \in 1..c THEN x ELSE x - 1
  <2>1. \A x \in 1..(m + 1) : x # c + 1 => at(x) \in 1..m /\ s[x] = rows[at(x)]
    <3> TAKE x \in 1..(m + 1)
    <3> HAVE x # c + 1
    <3>1. CASE x \in 1..c
      BY <1>7, <3>1
    <3>2. CASE x \in (c + 2)..(m + 1)
      <4>1. x \notin 1..c
        BY <1>6, <3>2
      <4> QED
        BY <1>7, <3>2, <4>1
    <3> QED
      BY <1>8, <3>1, <3>2
  <2>2. \A x \in 1..(m + 1) : x # c + 1 => resourceKey(s[x].res) # resourceKey(r)
    BY <2>1 DEF m
  <2>3. CASE i = c + 1 \/ j = c + 1
    BY <1>7, <2>2, <2>3
  <2>4. CASE i # c + 1 /\ j # c + 1
    <3>1. at(i) = at(j)
      <4> HIDE DEF at
      <4> QED
        BY <1>1, <2>1, <2>4 DEF Distinct, m
    <3> QED
      BY <1>6, <1>8, <2>4, <3>1
  <2> QED
    BY <2>3, <2>4
<1>13. Entries(s) = Entries(rows) \union {r}
  <2>1. Entries(s) = {s[i].res : i \in 1..(m + 1)} /\ Entries(rows) = {rows[i].res : i \in 1..m}
    BY <1>2 DEF Entries, m
  <2>2. \A i \in 1..m : \E j \in 1..(m + 1) : s[j] = rows[i]
    <3> TAKE i \in 1..m
    <3>1. CASE i \in 1..c
      BY <1>7, <3>1
    <3>2. CASE i \notin 1..c
      <4>1. i + 1 \in (c + 2)..(m + 1) /\ (i + 1) - 1 = i /\ i + 1 \in 1..(m + 1)
        BY <1>1, <1>6, <3>2
      <4> QED
        BY <1>7, <4>1
    <3> QED
      BY <3>1, <3>2
  <2>3. \A j \in 1..(m + 1) : s[j].res = r \/ \E i \in 1..m : s[j] = rows[i]
    BY <1>7, <1>8
  <2> QED
    BY <1>6, <1>7, <2>1, <2>2, <2>3
<1> QED
  BY <1>2, <1>11, <1>12, <1>13 DEF IsTable, s, m

Fresh(fresh, rows) ==
    /\ fresh \in Seq(Resource)
    /\ \A i, j \in 1..Len(fresh) : resourceKey(fresh[i]) = resourceKey(fresh[j]) => i = j
    /\ \A i \in 1..Len(fresh), r \in Entries(rows) : resourceKey(fresh[i]) # resourceKey(r)

\* New entries with keys of their own, inserted one by one, leave a table that
\* holds the rows and them.
LEMMA InsertingTable ==
    ASSUME NEW rows, IsTable(rows), NEW fresh, Fresh(fresh, rows)
    PROVE  \A n \in 0..Len(fresh) :
             /\ IsTable(Inserting(rows, fresh)[n])
             /\ Entries(Inserting(rows, fresh)[n]) = Entries(rows) \union {fresh[i] : i \in 1..n}
<1> DEFINE k == Inserting(rows, fresh)
           S == {n \in Nat : n <= Len(fresh) =>
                   /\ IsTable(k[n])
                   /\ Entries(k[n]) = Entries(rows) \union {fresh[i] : i \in 1..n}}
<1>1. /\ rows \in Seq(Rows) /\ fresh \in Seq(Resource) /\ Len(fresh) \in Nat
      /\ \A i \in 1..Len(fresh) : fresh[i] \in Resource
  BY DEF IsTable, Fresh
<1>2. k[0] = rows /\ \A n \in 1..Len(fresh) : k[n] = InsertRow(k[n - 1], fresh[n])
  BY <1>1, InsertingDef
<1> HIDE DEF k
<1>3. 0 \in S
  <2>1. {fresh[i] : i \in 1..0} = {}
    OBVIOUS
  <2> QED
    BY <1>2, <2>1
<1>4. ASSUME NEW n \in Nat, n \in S PROVE n + 1 \in S
  <2> SUFFICES ASSUME n + 1 <= Len(fresh)
               PROVE  /\ IsTable(k[n + 1])
                      /\ Entries(k[n + 1]) =
                           Entries(rows) \union {fresh[i] : i \in 1..(n + 1)}
    OBVIOUS
  <2>1. n + 1 \in 1..Len(fresh) /\ (n + 1) - 1 = n
    BY <1>1
  <2>2. IsTable(k[n]) /\ Entries(k[n]) = Entries(rows) \union {fresh[i] : i \in 1..n}
    BY <1>1, <1>4
  <2>3. \A i \in 1..(n + 1) : i \in 1..n \/ i = n + 1
    OBVIOUS
  <2>4. \A i \in 1..n : i \in 1..(n + 1) /\ i \in 1..Len(fresh) /\ i # n + 1
    BY <1>1
  <2>5. k[n + 1] = InsertRow(k[n], fresh[n + 1])
    BY <1>2, <2>1
  <2>6. \A i \in 1..Len(k[n]) : resourceKey(k[n][i].res) # resourceKey(fresh[n + 1])
    <3> TAKE i \in 1..Len(k[n])
    <3>1. k[n][i].res \in Entries(rows) \union {fresh[x] : x \in 1..n}
      BY <2>2 DEF Entries
    <3>2. CASE k[n][i].res \in Entries(rows)
      BY <2>1, <3>2 DEF Fresh
    <3>3. CASE \E x \in 1..n : k[n][i].res = fresh[x]
      BY <2>1, <2>4, <3>3 DEF Fresh
    <3> QED
      BY <3>1, <3>2, <3>3
  <2>7. /\ IsTable(k[n + 1])
        /\ Entries(k[n + 1]) = Entries(k[n]) \union {fresh[n + 1]}
    BY <1>1, <2>1, <2>2, <2>5, <2>6, InsertRowTable
  <2>8. {fresh[i] : i \in 1..(n + 1)} = {fresh[i] : i \in 1..n} \union {fresh[n + 1]}
    BY <2>3, <2>4
  <2> QED
    BY <2>2, <2>7, <2>8
<1> HIDE DEF S
<1>5. \A n \in Nat : n \in S
  BY <1>3, <1>4, Induction
<1>6. \A n \in 0..Len(fresh) : n \in Nat /\ n <= Len(fresh) /\ n \in S
  BY <1>1, <1>5
<1>7. \A n \in 0..Len(fresh) :
        /\ IsTable(k[n])
        /\ Entries(k[n]) = Entries(rows) \union {fresh[i] : i \in 1..n}
  BY <1>6 DEF S
<1> QED
  BY <1>7 DEF k

\* All of them.
LEMMA InsertedTable ==
    ASSUME NEW rows, IsTable(rows), NEW fresh, Fresh(fresh, rows)
    PROVE  /\ IsTable(Inserting(rows, fresh)[Len(fresh)])
           /\ Entries(Inserting(rows, fresh)[Len(fresh)]) =
                Entries(rows) \union {fresh[i] : i \in 1..Len(fresh)}
<1>1. Len(fresh) \in 0..Len(fresh)
  BY DEF Fresh
<1> QED
  BY <1>1, InsertingTable

-------------------------------------------------------------------------------
(* One resource of a batch. *)

\* The index holds the keys of the table, each at its row.
IndexOf(index, rows) ==
    /\ DOMAIN index = Keys(rows)
    /\ \A i \in 1..Len(rows) : index[resourceKey(rows[i].res)] = i

Indexed == IndexOf(byARN, sorted)

LEMMA IndexFacts ==
    ASSUME sorted \in Seq(Rows), Indexed
    PROVE  \A k \in DOMAIN byARN : /\ byARN[k] \in 1..Len(sorted)
                                   /\ resourceKey(sorted[byARN[k]].res) = k
  BY DEF Indexed, IndexOf, Keys

Accs == {a \in [rows : Seq(Rows), fresh : Seq(Resource), drops : SUBSET (1..Len(sorted))] :
           Len(a.rows) = Len(sorted)}

\* What the fold does with a resource.
Ignores(acc, r) ==
    /\ Fold(acc, r) = acc
    /\ \/ \E i \in 1..Len(acc.fresh) : /\ resourceKey(acc.fresh[i]) = resourceKey(r)
                                       /\ Richness(r) <= Richness(acc.fresh[i])
       \/ /\ \A i \in 1..Len(acc.fresh) : resourceKey(acc.fresh[i]) # resourceKey(r)
          /\ resourceKey(r) \in DOMAIN byARN
          /\ Richness(r) < Richness(acc.rows[byARN[resourceKey(r)]].res)

Enriches(acc, r) ==
    \E i \in 1..Len(acc.fresh) :
      /\ resourceKey(acc.fresh[i]) = resourceKey(r)
      /\ Richness(acc.fresh[i]) < Richness(r)
      /\ Fold(acc, r) = [rows |-> acc.rows, fresh |-> [acc.fresh EXCEPT ![i] = r],
                         drops |-> acc.drops]

Adds(acc, r) ==
    /\ \A i \in 1..Len(acc.fresh) : resourceKey(acc.fresh[i]) # resourceKey(r)
    /\ resourceKey(r) \notin DOMAIN byARN
    /\ Fold(acc, r) = [rows |-> acc.rows, fresh |-> Append(acc.fresh, r), drops |-> acc.drops]

Replaces(acc, r) ==
    LET idx == byARN[resourceKey(r)] IN
    /\ \A i \in 1..Len(acc.fresh) : resourceKey(acc.fresh[i]) # resourceKey(r)
    /\ resourceKey(r) \in DOMAIN byARN
    /\ Richness(acc.rows[idx].res) <= Richness(r)
    /\ acc.rows[idx].res.svc = r.svc
    /\ acc.rows[idx].res.name = r.name
    /\ Fold(acc, r) = [rows |-> [acc.rows EXCEPT ![idx] = Row(r)], fresh |-> acc.fresh,
                       drops |-> acc.drops]

Moves(acc, r) ==
    LET idx == byARN[resourceKey(r)] IN
    /\ \A i \in 1..Len(acc.fresh) : resourceKey(acc.fresh[i]) # resourceKey(r)
    /\ resourceKey(r) \in DOMAIN byARN
    /\ Richness(acc.rows[idx].res) <= Richness(r)
    /\ Fold(acc, r) = [rows |-> acc.rows, fresh |-> Append(acc.fresh, r),
                       drops |-> acc.drops \union {idx}]

AddFresh(acc, r) == [acc EXCEPT !.fresh = Append(@, r)]
AddDrop(acc, i) == [acc EXCEPT !.drops = @ \union {i}]

LEMMA AddFreshDef ==
    ASSUME NEW rows, NEW fresh, NEW drops, NEW acc,
           acc = [rows |-> rows, fresh |-> fresh, drops |-> drops], NEW r
    PROVE  AddFresh(acc, r) = [rows |-> rows, fresh |-> Append(fresh, r), drops |-> drops]
<1>1. acc.fresh = fresh
  OBVIOUS
<1> QED
  BY <1>1 DEF AddFresh

LEMMA AddDropDef ==
    ASSUME NEW rows, NEW fresh, NEW drops, NEW acc,
           acc = [rows |-> rows, fresh |-> fresh, drops |-> drops], NEW i
    PROVE  AddDrop(acc, i) = [rows |-> rows, fresh |-> fresh, drops |-> drops \union {i}]
<1>1. acc.drops = drops
  OBVIOUS
<1> QED
  BY <1>1 DEF AddDrop

LEMMA FoldCases ==
    ASSUME sorted \in Seq(Rows), Indexed, NEW acc \in Accs, NEW r \in Resource
    PROVE  Ignores(acc, r) \/ Enriches(acc, r) \/ Adds(acc, r) \/ Replaces(acc, r) \/ Moves(acc, r)
<1> DEFINE key == resourceKey(r)
           twin == {i \in DOMAIN acc.fresh : resourceKey(acc.fresh[i]) = key}
           idx == byARN[key]
           old == acc.rows[idx].res
           New == [acc EXCEPT !.fresh = Append(@, r)]
           i == CHOOSE i \in twin : TRUE
<1>1. /\ acc.rows \in Seq(Rows) /\ acc.fresh \in Seq(Resource)
      /\ acc = [rows |-> acc.rows, fresh |-> acc.fresh, drops |-> acc.drops]
      /\ DOMAIN acc.fresh = 1..Len(acc.fresh)
      /\ Len(acc.rows) = Len(sorted)
  <2>1. acc \in [rows : Seq(Rows), fresh : Seq(Resource), drops : SUBSET (1..Len(sorted))]
    BY DEF Accs
  <2>2. Len(acc.rows) = Len(sorted)
    BY DEF Accs
  <2> QED
    BY <2>1, <2>2
<1>0. PICK R, F, D : acc = [rows |-> R, fresh |-> F, drops |-> D]
  BY <1>1
<1>5. acc.rows = R /\ acc.fresh = F /\ acc.drops = D
  BY <1>0
<1>2. Fold(acc, r) =
        IF twin # {} THEN
            IF Richness(r) > Richness(acc.fresh[i]) THEN [acc EXCEPT !.fresh[i] = r] ELSE acc
        ELSE IF key \notin DOMAIN byARN THEN New
        ELSE IF Richness(r) < Richness(old) THEN acc
        ELSE IF old.svc = r.svc /\ old.name = r.name
        THEN [acc EXCEPT !.rows[idx] = Row(r)]
        ELSE [New EXCEPT !.drops = @ \union {idx}]
  BY DEF Fold
<1>3. CASE twin # {}
  <2>1. i \in twin
    BY <1>3
  <2> HIDE DEF i
  <2>2. i \in 1..Len(acc.fresh) /\ resourceKey(acc.fresh[i]) = key /\ acc.fresh[i] \in Resource
    BY <1>1, <2>1
  <2>3. Richness(r) \in Nat /\ Richness(acc.fresh[i]) \in Nat
    BY <2>2, ViewAssumption
  <2>4. CASE Richness(r) > Richness(acc.fresh[i])
    <3>1. Fold(acc, r) = [acc EXCEPT !.fresh[i] = r]
      BY <1>2, <1>3, <2>4
    <3>2. [acc EXCEPT !.fresh[i] = r] =
            [rows |-> R, fresh |-> [F EXCEPT ![i] = r], drops |-> D]
      BY <1>0, <1>5
    <3>3. Richness(acc.fresh[i]) < Richness(r)
      BY <2>3, <2>4
    <3> QED
      BY <2>2, <1>5, <3>1, <3>2, <3>3 DEF Enriches
  <2>5. CASE ~(Richness(r) > Richness(acc.fresh[i]))
    <3>1. Fold(acc, r) = acc
      BY <1>2, <1>3, <2>5
    <3>2. Richness(r) <= Richness(acc.fresh[i])
      BY <2>3, <2>5
    <3> QED
      BY <2>2, <3>1, <3>2 DEF Ignores
  <2> QED
    BY <2>4, <2>5
<1>4. CASE twin = {}
  <2>1. \A x \in 1..Len(acc.fresh) : resourceKey(acc.fresh[x]) # key
    BY <1>1, <1>4
  <2>2. New = [rows |-> R, fresh |-> Append(F, r), drops |-> D]
    <3>1. New = AddFresh(acc, r)
      BY DEF AddFresh
    <3> QED
      BY <1>0, <3>1, AddFreshDef
  <2>3. CASE key \notin DOMAIN byARN
    <3>1. Fold(acc, r) = New
      BY <1>2, <1>4, <2>3
    <3> QED
      BY <2>1, <2>2, <2>3, <1>5, <3>1 DEF Adds
  <2>4. CASE key \in DOMAIN byARN
    <3>1. idx \in 1..Len(acc.rows)
      BY <1>1, <2>4, IndexFacts
    <3>2. old \in Resource
      BY <1>1, <3>1, TableFacts
    <3>3. Richness(r) \in Nat /\ Richness(old) \in Nat
      BY <3>2, ViewAssumption
    <3>4. CASE Richness(r) < Richness(old)
      <4>1. Fold(acc, r) = acc
        BY <1>2, <1>4, <2>4, <3>4
      <4> QED
        BY <2>1, <2>4, <3>4, <4>1 DEF Ignores
    <3>5. CASE ~(Richness(r) < Richness(old))
      <4>1. Richness(old) <= Richness(r)
        BY <3>3, <3>5
      <4>2. CASE old.svc = r.svc /\ old.name = r.name
        <5>1. Fold(acc, r) = [acc EXCEPT !.rows[idx] = Row(r)]
          BY <1>2, <1>4, <2>4, <3>5, <4>2
        <5>2. [acc EXCEPT !.rows[idx] = Row(r)] =
                [rows |-> [R EXCEPT ![idx] = Row(r)], fresh |-> F, drops |-> D]
          BY <1>0, <1>5
        <5> QED
          BY <2>1, <2>4, <4>1, <4>2, <5>1, <1>5, <5>2 DEF Replaces
      <4>3. CASE ~(old.svc = r.svc /\ old.name = r.name)
        <5>1. Fold(acc, r) = [New EXCEPT !.drops = @ \union {idx}]
          BY <1>2, <1>4, <2>4, <3>5, <4>3
        <5>2. [New EXCEPT !.drops = @ \union {idx}] =
                [rows |-> R, fresh |-> Append(F, r), drops |-> D \union {idx}]
          <6> HIDE DEF New, idx
          <6>1. [New EXCEPT !.drops = @ \union {idx}] = AddDrop(New, idx)
            BY DEF AddDrop
          <6> QED
            BY <2>2, <6>1, AddDropDef
        <5> QED
          BY <2>1, <2>4, <4>1, <5>1, <1>5, <5>2 DEF Moves
      <4> QED
        BY <4>2, <4>3
    <3> QED
      BY <3>4, <3>5
  <2> QED
    BY <2>3, <2>4
<1> QED
  BY <1>3, <1>4

LEMMA FoldType ==
    ASSUME sorted \in Seq(Rows), Indexed, NEW acc \in Accs, NEW r \in Resource
    PROVE  Fold(acc, r) \in Accs
<1> DEFINE idx == byARN[resourceKey(r)]
<1>1. /\ acc.rows \in Seq(Rows) /\ acc.fresh \in Seq(Resource)
      /\ acc.drops \subseteq 1..Len(sorted) /\ Len(acc.rows) = Len(sorted)
  BY DEF Accs
<1>2. ASSUME NEW rows \in Seq(Rows), NEW fresh \in Seq(Resource),
             NEW drops \in SUBSET (1..Len(sorted)), Len(rows) = Len(sorted)
      PROVE  [rows |-> rows, fresh |-> fresh, drops |-> drops] \in Accs
  BY <1>2 DEF Accs
<1>3. Row(r) \in Rows
  BY RowOf
<1>4. CASE Ignores(acc, r)
  BY <1>4 DEF Ignores
<1>5. CASE Enriches(acc, r)
  <2>1. PICK i \in 1..Len(acc.fresh) :
          Fold(acc, r) = [rows |-> acc.rows, fresh |-> [acc.fresh EXCEPT ![i] = r],
                          drops |-> acc.drops]
    BY <1>5 DEF Enriches
  <2>2. [acc.fresh EXCEPT ![i] = r] \in Seq(Resource)
    BY <1>1, ExceptSeq
  <2> QED
    BY <1>1, <1>2, <2>1, <2>2
<1>6. CASE Adds(acc, r)
  <2>1. Append(acc.fresh, r) \in Seq(Resource)
    BY <1>1
  <2> QED
    BY <1>1, <1>2, <1>6, <2>1 DEF Adds
<1>7. CASE Replaces(acc, r)
  <2>1. idx \in 1..Len(acc.rows)
    BY <1>1, <1>7, IndexFacts DEF Replaces
  <2>2. /\ [acc.rows EXCEPT ![idx] = Row(r)] \in Seq(Rows)
        /\ Len([acc.rows EXCEPT ![idx] = Row(r)]) = Len(sorted)
    BY <1>1, <1>3, <2>1, ExceptSeq
  <2> QED
    BY <1>1, <1>2, <1>7, <2>2 DEF Replaces
<1>8. CASE Moves(acc, r)
  <2>1. idx \in 1..Len(sorted)
    BY <1>8, IndexFacts DEF Moves
  <2>2. Append(acc.fresh, r) \in Seq(Resource) /\ acc.drops \union {idx} \subseteq 1..Len(sorted)
    BY <1>1, <2>1
  <2> QED
    BY <1>1, <1>2, <1>8, <2>2 DEF Moves
<1> QED
  BY <1>4, <1>5, <1>6, <1>7, <1>8, FoldCases

\* cur describes what the table and the resources E describe, as well as they do,
\* and from E when E is as rich.
Covers(cur, E) ==
    /\ cur \subseteq Entries(sorted) \union E
    /\ \A s \in Entries(sorted) \union E :
         \E r \in cur : /\ resourceKey(r) = resourceKey(s)
                        /\ Richness(s) <= Richness(r)
                        /\ (s \in E /\ Richness(s) = Richness(r)) => r \in E

LEMMA CoversIgnored ==
    ASSUME NEW E \in SUBSET Resource, NEW cur, Covers(cur, E), NEW r \in Resource,
           NEW q \in cur, q \in Resource, resourceKey(q) = resourceKey(r),
           Richness(r) < Richness(q) \/ (Richness(r) <= Richness(q) /\ q \in E)
    PROVE  Covers(cur, E \union {r})
<1>1. Richness(r) \in Nat /\ Richness(q) \in Nat
  BY ViewAssumption
<1>2. ASSUME NEW s \in Entries(sorted) \union (E \union {r})
      PROVE  \E x \in cur : /\ resourceKey(x) = resourceKey(s)
                            /\ Richness(s) <= Richness(x)
                            /\ (s \in E \union {r} /\ Richness(s) = Richness(x))
                                 => x \in E \union {r}
  <2>1. CASE s = r
    <3>1. Richness(r) <= Richness(q) /\ (Richness(r) = Richness(q) => q \in E)
      BY <1>1
    <3> QED
      BY <2>1, <3>1
  <2>2. CASE s # r
    <3>1. s \in Entries(sorted) \union E /\ (s \in E \union {r} => s \in E)
      BY <2>2
    <3> QED
      BY <3>1 DEF Covers
  <2> QED
    BY <2>1, <2>2
<1>3. cur \subseteq Entries(sorted) \union (E \union {r})
  BY DEF Covers
<1> QED
  BY <1>2, <1>3 DEF Covers

LEMMA CoversTaken ==
    ASSUME sorted \in Seq(Rows), NEW E \in SUBSET Resource, NEW cur, Covers(cur, E),
           NEW r \in Resource, NEW new, r \in new, new \subseteq cur \union {r},
           \A q \in cur \ new : /\ resourceKey(q) = resourceKey(r)
                                /\ Richness(q) <= Richness(r)
    PROVE  Covers(new, E \union {r})
<1>1. Entries(sorted) \subseteq Resource
  BY TableFacts
<1>2. cur \subseteq Resource
  BY <1>1 DEF Covers
<1>3. ASSUME NEW s \in Entries(sorted) \union (E \union {r})
      PROVE  \E x \in new : /\ resourceKey(x) = resourceKey(s)
                            /\ Richness(s) <= Richness(x)
                            /\ (s \in E \union {r} /\ Richness(s) = Richness(x))
                                 => x \in E \union {r}
  <2>0. s \in Resource /\ Richness(s) \in Nat /\ Richness(r) \in Nat
    BY <1>1, ViewAssumption
  <2>1. CASE s = r
    BY <2>0, <2>1
  <2>2. CASE s # r
    <3>1. s \in Entries(sorted) \union E /\ (s \in E \union {r} => s \in E)
      BY <2>2
    <3>2. PICK x \in cur : /\ resourceKey(x) = resourceKey(s)
                           /\ Richness(s) <= Richness(x)
                           /\ (s \in E /\ Richness(s) = Richness(x)) => x \in E
      BY <3>1 DEF Covers
    <3>3. CASE x \in new
      BY <3>1, <3>2, <3>3
    <3>4. CASE x \notin new
      <4>1. resourceKey(x) = resourceKey(r) /\ Richness(x) <= Richness(r)
        BY <3>4
      <4>2. Richness(x) \in Nat
        BY <1>2, ViewAssumption
      <4>3. Richness(s) <= Richness(r)
        BY <2>0, <3>2, <4>1, <4>2
      <4> QED
        BY <3>2, <4>1, <4>3
    <3> QED
      BY <3>3, <3>4
  <2> QED
    BY <2>1, <2>2
<1>4. new \subseteq Entries(sorted) \union (E \union {r})
  BY DEF Covers
<1> QED
  BY <1>3, <1>4 DEF Covers

Cur(acc) ==
    {acc.rows[i].res : i \in (1..Len(sorted)) \ acc.drops}
      \union {acc.fresh[i] : i \in 1..Len(acc.fresh)}

SamePlaces(acc) ==
    \A i \in 1..Len(sorted) : /\ resourceKey(acc.rows[i].res) = resourceKey(sorted[i].res)
                              /\ acc.rows[i].res.name = sorted[i].res.name

\* The new entries have keys of their own, and come from the batch.
FreshDistinct(acc) ==
    \A i, j \in 1..Len(acc.fresh) :
      resourceKey(acc.fresh[i]) = resourceKey(acc.fresh[j]) => i = j

FromBatch(acc, E) == \A i \in 1..Len(acc.fresh) : acc.fresh[i] \in E

\* The rows dropped are those with a new entry.
DropsMatch(acc) ==
    /\ \A i \in 1..Len(acc.fresh), j \in 1..Len(sorted) :
         resourceKey(acc.fresh[i]) = resourceKey(sorted[j].res) => j \in acc.drops
    /\ \A j \in acc.drops :
         \E i \in 1..Len(acc.fresh) : resourceKey(acc.fresh[i]) = resourceKey(sorted[j].res)

\* The invariant of the loop of mergeResources, for the entries E it has seen:
\* rows stay in their places, each new entry has a key of its own, and per key
\* the richest and newest is among them.
FoldInv(acc, E) ==
    /\ acc \in Accs
    /\ SamePlaces(acc)
    /\ FreshDistinct(acc)
    /\ FromBatch(acc, E)
    /\ DropsMatch(acc)
    /\ Covers(Cur(acc), E)

LEMMA AccFacts ==
    ASSUME NEW acc \in Accs
    PROVE  /\ acc.rows \in Seq(Rows) /\ Len(acc.rows) = Len(sorted)
           /\ acc.fresh \in Seq(Resource) /\ Len(acc.fresh) \in Nat
           /\ acc.drops \subseteq 1..Len(sorted)
           /\ \A i \in 1..Len(acc.fresh) : acc.fresh[i] \in Resource
           /\ \A i \in 1..Len(sorted) : acc.rows[i].res \in Resource
<1>1. /\ acc.rows \in Seq(Rows) /\ Len(acc.rows) = Len(sorted)
      /\ acc.fresh \in Seq(Resource)
      /\ acc.drops \subseteq 1..Len(sorted)
  BY DEF Accs
<1>2. \A i \in 1..Len(sorted) : acc.rows[i].res \in Resource
  BY <1>1, TableFacts
<1>3. Len(acc.fresh) \in Nat /\ \A i \in 1..Len(acc.fresh) : acc.fresh[i] \in Resource
  BY <1>1
<1> QED
  BY <1>1, <1>2, <1>3

\* What is behind a key the index holds and no new entry has.
LEMMA ShownFacts ==
    ASSUME sorted \in Seq(Rows), Indexed, NEW E, NEW acc, FoldInv(acc, E), NEW r \in Resource,
           \A i \in 1..Len(acc.fresh) : resourceKey(acc.fresh[i]) # resourceKey(r),
           resourceKey(r) \in DOMAIN byARN
    PROVE  LET idx == byARN[resourceKey(r)] IN
           /\ idx \in (1..Len(sorted)) \ acc.drops
           /\ resourceKey(sorted[idx].res) = resourceKey(r)
           /\ resourceKey(acc.rows[idx].res) = resourceKey(r)
           /\ acc.rows[idx].res \in Cur(acc)
           /\ acc.rows[idx].res \in Resource
<1> DEFINE idx == byARN[resourceKey(r)]
<1>1. idx \in 1..Len(sorted) /\ resourceKey(sorted[idx].res) = resourceKey(r)
  BY IndexFacts
<1> HIDE DEF idx
<1>2. idx \notin acc.drops
  BY <1>1 DEF FoldInv, DropsMatch
<1>3. resourceKey(acc.rows[idx].res) = resourceKey(r)
  BY <1>1 DEF FoldInv, SamePlaces
<1>4. acc.rows[idx].res \in Cur(acc)
  BY <1>1, <1>2 DEF Cur
<1>5. acc.rows[idx].res \in Resource
  BY <1>1, AccFacts DEF FoldInv
<1> QED
  BY <1>1, <1>2, <1>3, <1>4, <1>5 DEF idx

LEMMA FoldIgnores ==
    ASSUME sorted \in Seq(Rows), Indexed, NEW E \in SUBSET Resource, NEW acc, FoldInv(acc, E),
           NEW r \in Resource, Ignores(acc, r)
    PROVE  FoldInv(acc, E \union {r})
<1>1. acc \in Accs /\ Covers(Cur(acc), E)
  BY DEF FoldInv
<1>2. \E q \in Cur(acc) : /\ q \in Resource /\ resourceKey(q) = resourceKey(r)
                          /\ Richness(r) < Richness(q) \/ (Richness(r) <= Richness(q) /\ q \in E)
  <2>1. CASE \E i \in 1..Len(acc.fresh) : /\ resourceKey(acc.fresh[i]) = resourceKey(r)
                                          /\ Richness(r) <= Richness(acc.fresh[i])
    <3>1. PICK i \in 1..Len(acc.fresh) : /\ resourceKey(acc.fresh[i]) = resourceKey(r)
                                         /\ Richness(r) <= Richness(acc.fresh[i])
      BY <2>1
    <3>2. acc.fresh[i] \in Cur(acc)
      BY DEF Cur
    <3>3. acc.fresh[i] \in Resource /\ acc.fresh[i] \in E
      BY <1>1, AccFacts DEF FoldInv, FromBatch
    <3> QED
      BY <3>1, <3>2, <3>3
  <2>2. CASE /\ \A i \in 1..Len(acc.fresh) : resourceKey(acc.fresh[i]) # resourceKey(r)
             /\ resourceKey(r) \in DOMAIN byARN
             /\ Richness(r) < Richness(acc.rows[byARN[resourceKey(r)]].res)
    <3> DEFINE q == acc.rows[byARN[resourceKey(r)]].res
    <3>1. q \in Cur(acc) /\ q \in Resource /\ resourceKey(q) = resourceKey(r)
      BY <2>2, ShownFacts
    <3> QED
      BY <2>2, <3>1
  <2> QED
    BY <2>1, <2>2 DEF Ignores
<1>3. Covers(Cur(acc), E \union {r})
  BY <1>1, <1>2, CoversIgnored
<1>4. FromBatch(acc, E \union {r})
  BY DEF FoldInv, FromBatch
<1> QED
  BY <1>3, <1>4 DEF FoldInv

LEMMA FoldEnriches ==
    ASSUME sorted \in Seq(Rows), Indexed, NEW E \in SUBSET Resource, NEW acc, FoldInv(acc, E),
           NEW r \in Resource, Enriches(acc, r)
    PROVE  FoldInv(Fold(acc, r), E \union {r})
<1> DEFINE next == Fold(acc, r)
<1>1. acc \in Accs /\ next \in Accs /\ Covers(Cur(acc), E)
  BY FoldType DEF FoldInv
<1>2. PICK x \in 1..Len(acc.fresh) :
        /\ resourceKey(acc.fresh[x]) = resourceKey(r)
        /\ Richness(acc.fresh[x]) < Richness(r)
        /\ next = [rows |-> acc.rows, fresh |-> [acc.fresh EXCEPT ![x] = r], drops |-> acc.drops]
  BY DEF Enriches
<1> HIDE DEF next
<1>3. /\ next.rows = acc.rows /\ next.drops = acc.drops
      /\ next.fresh = [acc.fresh EXCEPT ![x] = r]
  BY <1>2
<1>4. /\ Len(next.fresh) = Len(acc.fresh)
      /\ next.fresh[x] = r
      /\ \A i \in 1..Len(acc.fresh) : i # x => next.fresh[i] = acc.fresh[i]
  <2>1. acc.fresh \in Seq(Resource)
    BY <1>1, AccFacts
  <2> QED
    BY <1>3, <2>1, ExceptSeq
<1>5. \A i \in 1..Len(acc.fresh) : resourceKey(next.fresh[i]) = resourceKey(acc.fresh[i])
  BY <1>2, <1>4
<1>6. SamePlaces(next)
  BY <1>3 DEF FoldInv, SamePlaces
<1>7. FreshDistinct(next)
  BY <1>4, <1>5 DEF FoldInv, FreshDistinct
<1>8. FromBatch(next, E \union {r})
  BY <1>4 DEF FoldInv, FromBatch
<1>9. DropsMatch(next)
  BY <1>3, <1>4, <1>5 DEF FoldInv, DropsMatch
<1>10. Covers(Cur(next), E \union {r})
  <2>1. r \in Cur(next)
    BY <1>4 DEF Cur
  <2>2. Cur(next) \subseteq Cur(acc) \union {r}
    <3>1. \A i \in 1..Len(next.fresh) : next.fresh[i] \in Cur(acc) \union {r}
      BY <1>4 DEF Cur
    <3>2. \A i \in (1..Len(sorted)) \ next.drops : next.rows[i].res \in Cur(acc)
      BY <1>3 DEF Cur
    <3> QED
      BY <3>1, <3>2 DEF Cur
  <2>3. \A q \in Cur(acc) \ Cur(next) : q = acc.fresh[x]
    <3>1. \A i \in 1..Len(acc.fresh) : i # x => acc.fresh[i] \in Cur(next)
      BY <1>4 DEF Cur
    <3>2. \A i \in (1..Len(sorted)) \ acc.drops : acc.rows[i].res \in Cur(next)
      BY <1>3 DEF Cur
    <3> QED
      BY <3>1, <3>2 DEF Cur
  <2>4. Richness(acc.fresh[x]) <= Richness(r)
    <3>1. acc.fresh[x] \in Resource
      BY <1>1, AccFacts
    <3> QED
      BY <1>2, <3>1, ViewAssumption
  <2> QED
    BY <1>1, <1>2, <2>1, <2>2, <2>3, <2>4, CoversTaken
<1> QED
  BY <1>1, <1>6, <1>7, <1>8, <1>9, <1>10 DEF FoldInv, next

\* A new entry whose key no other has, and the row it replaces, if any.
LEMMA FoldAppends ==
    ASSUME sorted \in Seq(Rows), Indexed, NEW E \in SUBSET Resource, NEW acc, FoldInv(acc, E),
           NEW r \in Resource, NEW next \in Accs, next.rows = acc.rows,
           next.fresh = Append(acc.fresh, r),
           \A i \in 1..Len(acc.fresh) : resourceKey(acc.fresh[i]) # resourceKey(r),
           acc.drops \subseteq next.drops,
           \A j \in 1..Len(sorted) :
             resourceKey(sorted[j].res) = resourceKey(r) => j \in next.drops,
           \A j \in next.drops \ acc.drops :
             /\ resourceKey(sorted[j].res) = resourceKey(r)
             /\ Richness(acc.rows[j].res) <= Richness(r)
    PROVE  FoldInv(next, E \union {r})
<1> DEFINE m == Len(acc.fresh)
<1>1. acc \in Accs /\ Covers(Cur(acc), E)
  BY DEF FoldInv
<1>2. acc.fresh \in Seq(Resource) /\ m \in Nat /\ next.drops \subseteq 1..Len(sorted)
  BY <1>1, AccFacts
<1>3. /\ Len(next.fresh) = m + 1
      /\ next.fresh[m + 1] = r
      /\ \A i \in 1..m : next.fresh[i] = acc.fresh[i]
  BY <1>2, AppendProperties
<1>4. \A i \in 1..(m + 1) : i \in 1..m \/ i = m + 1
  BY <1>2
<1>5. m + 1 \in 1..(m + 1) /\ \A i \in 1..m : i \in 1..(m + 1) /\ i # m + 1
  BY <1>2
<1>6. \A i \in 1..m : resourceKey(acc.fresh[i]) # resourceKey(r)
  OBVIOUS
<1>7. SamePlaces(next)
  BY DEF FoldInv, SamePlaces
<1>8. FreshDistinct(next)
  <2> SUFFICES ASSUME NEW i \in 1..(m + 1), NEW j \in 1..(m + 1),
                      resourceKey(next.fresh[i]) = resourceKey(next.fresh[j])
               PROVE  i = j
    BY <1>3 DEF FreshDistinct
  <2>1. CASE i \in 1..m /\ j \in 1..m
    BY <1>3, <2>1 DEF FoldInv, FreshDistinct
  <2>2. CASE i = m + 1 /\ j \in 1..m
    BY <1>3, <1>6, <2>2
  <2>3. CASE i \in 1..m /\ j = m + 1
    BY <1>3, <1>6, <2>3
  <2> QED
    BY <1>4, <2>1, <2>2, <2>3
<1>9. FromBatch(next, E \union {r})
  BY <1>3, <1>4 DEF FoldInv, FromBatch
<1>10. DropsMatch(next)
  <2>1. ASSUME NEW i \in 1..(m + 1), NEW j \in 1..Len(sorted),
               resourceKey(next.fresh[i]) = resourceKey(sorted[j].res)
        PROVE  j \in next.drops
    <3>1. CASE i \in 1..m
      BY <1>3, <2>1, <3>1 DEF FoldInv, DropsMatch
    <3>2. CASE i = m + 1
      BY <1>3, <2>1, <3>2
    <3> QED
      BY <1>4, <3>1, <3>2
  <2>2. ASSUME NEW j \in next.drops
        PROVE  \E i \in 1..(m + 1) : resourceKey(next.fresh[i]) = resourceKey(sorted[j].res)
    <3>1. CASE j \in acc.drops
      <4>1. PICK i \in 1..m : resourceKey(acc.fresh[i]) = resourceKey(sorted[j].res)
        BY <3>1 DEF FoldInv, DropsMatch
      <4> QED
        BY <1>3, <1>5, <4>1
    <3>2. CASE j \notin acc.drops
      BY <1>3, <1>5, <3>2
    <3> QED
      BY <3>1, <3>2
  <2> QED
    BY <1>3, <2>1, <2>2 DEF DropsMatch
<1>11. Covers(Cur(next), E \union {r})
  <2>1. r \in Cur(next)
    BY <1>3, <1>5 DEF Cur
  <2>2. Cur(next) \subseteq Cur(acc) \union {r}
    <3>1. \A i \in 1..(m + 1) : next.fresh[i] \in Cur(acc) \union {r}
      BY <1>3, <1>4 DEF Cur
    <3>2. \A i \in (1..Len(sorted)) \ next.drops : next.rows[i].res \in Cur(acc)
      BY DEF Cur
    <3> QED
      BY <1>3, <3>1, <3>2 DEF Cur
  <2>3. \A q \in Cur(acc) \ Cur(next) : /\ resourceKey(q) = resourceKey(r)
                                        /\ Richness(q) <= Richness(r)
    <3> TAKE q \in Cur(acc) \ Cur(next)
    <3>1. \A i \in 1..m : acc.fresh[i] \in Cur(next)
      <4> TAKE i \in 1..m
      <4>1. next.fresh[i] \in Cur(next)
        BY <1>3, <1>5 DEF Cur
      <4> QED
        BY <1>3, <4>1
    <3>2. PICK i \in (1..Len(sorted)) \ acc.drops : q = acc.rows[i].res
      BY <3>1 DEF Cur
    <3>3. i \in next.drops
      BY <3>2 DEF Cur
    <3>4. resourceKey(acc.rows[i].res) = resourceKey(sorted[i].res)
      BY DEF FoldInv, SamePlaces
    <3> QED
      BY <3>2, <3>3, <3>4
  <2> QED
    BY <1>1, <2>1, <2>2, <2>3, CoversTaken
<1> QED
  BY <1>7, <1>8, <1>9, <1>10, <1>11 DEF FoldInv

LEMMA FoldReplaces ==
    ASSUME sorted \in Seq(Rows), Indexed, NEW E \in SUBSET Resource, NEW acc, FoldInv(acc, E),
           NEW r \in Resource, Replaces(acc, r)
    PROVE  FoldInv(Fold(acc, r), E \union {r})
<1> DEFINE next == Fold(acc, r)  idx == byARN[resourceKey(r)]  old == acc.rows[idx].res
<1>1. acc \in Accs /\ next \in Accs /\ Covers(Cur(acc), E)
  BY FoldType DEF FoldInv
<1>2. /\ idx \in (1..Len(sorted)) \ acc.drops
      /\ resourceKey(sorted[idx].res) = resourceKey(r)
      /\ Richness(old) <= Richness(r) /\ resourceKey(old) = resourceKey(r)
      /\ old.name = r.name
  BY ShownFacts DEF Replaces
<1>3. /\ next.rows = [acc.rows EXCEPT ![idx] = Row(r)]
      /\ next.fresh = acc.fresh /\ next.drops = acc.drops
  BY DEF Replaces
<1>4. /\ next.rows[idx].res = r
      /\ \A i \in 1..Len(sorted) : i # idx => next.rows[i] = acc.rows[i]
  <2>1. acc.rows \in Seq(Rows) /\ Len(acc.rows) = Len(sorted)
    BY <1>1, AccFacts
  <2>2. \A i \in 1..Len(sorted) : next.rows[i] = IF i = idx THEN Row(r) ELSE acc.rows[i]
    <3> HIDE DEF next, idx
    <3> QED
      BY <1>2, <1>3, <2>1, ExceptSeq, RowOf
  <2> QED
    BY <1>2, <2>2, RowOf
<1> HIDE DEF next, idx
<1>5. SamePlaces(next)
  <2> SUFFICES ASSUME NEW i \in 1..Len(sorted)
               PROVE  /\ resourceKey(next.rows[i].res) = resourceKey(sorted[i].res)
                      /\ next.rows[i].res.name = sorted[i].res.name
    BY DEF SamePlaces
  <2>1. acc.rows[i].res.name = sorted[i].res.name
    BY DEF FoldInv, SamePlaces
  <2>2. CASE i = idx
    BY <1>2, <1>4, <2>1, <2>2
  <2>3. CASE i # idx
    BY <1>4, <2>3 DEF FoldInv, SamePlaces
  <2> QED
    BY <2>2, <2>3
<1>6. FreshDistinct(next)
  BY <1>3 DEF FoldInv, FreshDistinct
<1>7. FromBatch(next, E \union {r})
  BY <1>3 DEF FoldInv, FromBatch
<1>8. DropsMatch(next)
  BY <1>3 DEF FoldInv, DropsMatch
<1>9. Covers(Cur(next), E \union {r})
  <2>1. r \in Cur(next)
    BY <1>2, <1>3, <1>4 DEF Cur
  <2>2. Cur(next) \subseteq Cur(acc) \union {r}
    <3>1. \A i \in (1..Len(sorted)) \ next.drops : next.rows[i].res \in Cur(acc) \union {r}
      BY <1>3, <1>4 DEF Cur
    <3>2. \A i \in 1..Len(next.fresh) : next.fresh[i] \in Cur(acc)
      BY <1>3 DEF Cur
    <3> QED
      BY <3>1, <3>2 DEF Cur
  <2>3. \A q \in Cur(acc) \ Cur(next) : q = old
    <3>1. \A i \in (1..Len(sorted)) \ acc.drops : i # idx => acc.rows[i].res \in Cur(next)
      BY <1>3, <1>4 DEF Cur
    <3>2. \A i \in 1..Len(acc.fresh) : acc.fresh[i] \in Cur(next)
      BY <1>3 DEF Cur
    <3> QED
      BY <3>1, <3>2 DEF Cur
  <2> QED
    BY <1>1, <1>2, <2>1, <2>2, <2>3, CoversTaken
<1> QED
  BY <1>1, <1>5, <1>6, <1>7, <1>8, <1>9 DEF FoldInv, next

\* One step of the fold keeps what it has established, for one resource more.
LEMMA FoldStep ==
    ASSUME IsTable(sorted), Indexed, NEW E \in SUBSET Resource, NEW acc, FoldInv(acc, E),
           NEW r \in Resource
    PROVE  FoldInv(Fold(acc, r), E \union {r})
<1> DEFINE next == Fold(acc, r)
<1>1. sorted \in Seq(Rows) /\ Distinct(sorted)
  BY DEF IsTable
<1>2. acc \in Accs /\ next \in Accs
  BY <1>1, FoldType DEF FoldInv
<1>3. CASE Ignores(acc, r)
  <2>1. next = acc
    BY <1>3 DEF Ignores
  <2> QED
    BY <1>1, <1>3, <2>1, FoldIgnores
<1>4. CASE Enriches(acc, r)
  BY <1>1, <1>4, FoldEnriches
<1>5. CASE Adds(acc, r)
  <2>1. next.rows = acc.rows /\ next.fresh = Append(acc.fresh, r) /\ next.drops = acc.drops
    BY <1>5 DEF Adds
  <2>2. \A j \in 1..Len(sorted) : resourceKey(sorted[j].res) # resourceKey(r)
    BY <1>5 DEF Adds, Indexed, IndexOf, Keys
  <2>3. \A i \in 1..Len(acc.fresh) : resourceKey(acc.fresh[i]) # resourceKey(r)
    BY <1>5 DEF Adds
  <2> HIDE DEF next
  <2>4. FoldInv(next, E \union {r})
    BY <1>1, <1>2, <2>1, <2>2, <2>3, FoldAppends
  <2> QED
    BY <2>4 DEF next
<1>6. CASE Replaces(acc, r)
  BY <1>1, <1>6, FoldReplaces
<1>7. CASE Moves(acc, r)
  <2> DEFINE idx == byARN[resourceKey(r)]
  <2>1. next.rows = acc.rows /\ next.fresh = Append(acc.fresh, r)
        /\ next.drops = acc.drops \union {idx} /\ Richness(acc.rows[idx].res) <= Richness(r)
    BY <1>7 DEF Moves
  <2>2. \A i \in 1..Len(acc.fresh) : resourceKey(acc.fresh[i]) # resourceKey(r)
    BY <1>7 DEF Moves
  <2>3. idx \in 1..Len(sorted) /\ resourceKey(sorted[idx].res) = resourceKey(r)
    BY <1>1, <1>7, IndexFacts DEF Moves
  <2> HIDE DEF next, idx
  <2>4. \A j \in 1..Len(sorted) :
          resourceKey(sorted[j].res) = resourceKey(r) => j \in next.drops
    BY <1>1, <2>1, <2>3 DEF Distinct
  <2>5. FoldInv(next, E \union {r})
    BY <1>1, <1>2, <2>1, <2>2, <2>3, <2>4, FoldAppends
  <2> QED
    BY <2>5 DEF next
<1> QED
  BY <1>1, <1>2, <1>3, <1>4, <1>5, <1>6, <1>7, FoldCases

-------------------------------------------------------------------------------
(* A batch. *)

Acc0 == [rows |-> sorted, fresh |-> <<>>, drops |-> {}]

LEMMA FoldingDef ==
    ASSUME sorted \in Seq(Rows), Indexed, NEW b \in Seq(Resource)
    PROVE  /\ Folding(b)[0] = Acc0
           /\ \A n \in 1..Len(b) : Folding(b)[n] = Fold(Folding(b)[n - 1], b[n])
<1> DEFINE N == Len(b)
           P(f) == f = [n \in 0..N |->
                          IF n = 0 THEN [rows |-> sorted, fresh |-> <<>>, drops |-> {}]
                          ELSE Fold(f[n - 1], b[n])]
           step == [p \in Accs \X (1..N) |-> Fold(p[1], b[p[2]])]
<1>1. N \in Nat /\ \A n \in 1..N : b[n] \in Resource
  OBVIOUS
<1>2. step \in [Accs \X (1..N) -> Accs]
  <2> SUFFICES ASSUME NEW p \in Accs \X (1..N)
               PROVE  Fold(p[1], b[p[2]]) \in Accs
    OBVIOUS
  <2>1. p[1] \in Accs /\ b[p[2]] \in Resource
    BY <1>1
  <2> QED
    BY <2>1, FoldType
<1>3. Acc0 \in Accs
  <2>1. <<>> \in Seq(Resource) /\ {} \in SUBSET (1..Len(sorted))
    OBVIOUS
  <2> QED
    BY <2>1 DEF Accs, Acc0
<1>4. PICK f : IsIteration(f, Accs, Acc0, N, step)
  <2>1. step \in Steps(Accs, N)
    BY <1>2 DEF Steps
  <2> HIDE DEF step, N
  <2> QED
    BY <1>1, <1>3, <2>1, Iteration
<1>5. P(f)
  <2>1. \A i \in 1..N : step[<<f[i - 1], i>>] = Fold(f[i - 1], b[i])
    <3> SUFFICES ASSUME NEW i \in 1..N
                 PROVE  step[<<f[i - 1], i>>] = Fold(f[i - 1], b[i])
      OBVIOUS
    <3>1. <<f[i - 1], i>> \in Accs \X (1..N)
      <4>1. i - 1 \in 0..N /\ f \in [0..N -> Accs]
        BY <1>1, <1>4 DEF IsIteration
      <4> QED
        BY <4>1
    <3> QED
      BY <3>1
  <2>2. \A i \in 0..N : f[i] = IF i = 0 THEN Acc0 ELSE Fold(f[i - 1], b[i])
    <3> HIDE DEF step
    <3> TAKE i \in 0..N
    <3>1. i = 0 \/ i \in 1..N
      BY <1>1
    <3>2. CASE i = 0
      BY <1>4, <3>2 DEF IsIteration
    <3>3. CASE i \in 1..N
      BY <1>1, <1>4, <2>1, <3>3 DEF IsIteration
    <3> QED
      BY <3>1, <3>2, <3>3
  <2> QED
    BY <1>4, <2>2 DEF IsIteration, Acc0
<1>6. Folding(b) = CHOOSE g : P(g)
  BY DEF Folding
<1> HIDE DEF P, step
<1>7. P(Folding(b))
  BY <1>5, <1>6
<1> DEFINE g == Folding(b)
           F == [n \in 0..N |-> IF n = 0 THEN Acc0 ELSE Fold(g[n - 1], b[n])]
<1>8. g = F
  BY <1>7 DEF P, Acc0
<1> HIDE DEF g
<1>9. \A n \in 0..N : F[n] = IF n = 0 THEN Acc0 ELSE Fold(g[n - 1], b[n])
  OBVIOUS
<1> HIDE DEF F
<1>10. g[0] = Acc0 /\ \A n \in 1..N : g[n] = Fold(g[n - 1], b[n])
  BY <1>1, <1>8, <1>9
<1> QED
  BY <1>10 DEF g

LEMMA FoldStart ==
    ASSUME sorted \in Seq(Rows)
    PROVE  FoldInv(Acc0, {})
<1>1. /\ Acc0.rows = sorted /\ Acc0.fresh = <<>> /\ Acc0.drops = {}
      /\ Len(<<>>) = 0
  BY DEF Acc0
<1>2. Acc0 \in Accs
  <2>1. <<>> \in Seq(Resource) /\ {} \in SUBSET (1..Len(sorted))
    OBVIOUS
  <2> QED
    BY <2>1 DEF Accs, Acc0
<1>3. \A i \in 1..Len(Acc0.fresh) : FALSE
  <2>1. \A i \in 1..0 : FALSE
    OBVIOUS
  <2> QED
    BY <1>1, <2>1
<1>4. SamePlaces(Acc0)
  BY <1>1 DEF SamePlaces
<1>5. FreshDistinct(Acc0) /\ FromBatch(Acc0, {}) /\ DropsMatch(Acc0)
  BY <1>1, <1>3 DEF FreshDistinct, FromBatch, DropsMatch
<1>6. Cur(Acc0) = Entries(sorted)
  BY <1>1, <1>3 DEF Cur, Entries
<1>7. Covers(Entries(sorted), {})
  <2>1. \A s \in Entries(sorted) : s \in Resource /\ Richness(s) \in Nat
    BY TableFacts, ViewAssumption
  <2> QED
    BY <2>1 DEF Covers
<1> QED
  BY <1>2, <1>4, <1>5, <1>6, <1>7 DEF FoldInv

\* What the fold has established when the batch ends.
LEMMA FoldEnd ==
    ASSUME IsTable(sorted), Indexed, NEW b \in Seq(Resource)
    PROVE  FoldInv(Folding(b)[Len(b)], {b[i] : i \in 1..Len(b)})
<1> DEFINE k == Folding(b)
           S == {n \in Nat : n <= Len(b) => FoldInv(k[n], {b[i] : i \in 1..n})}
<1>1. sorted \in Seq(Rows) /\ Len(b) \in Nat /\ \A i \in 1..Len(b) : b[i] \in Resource
  BY DEF IsTable
<1>2. k[0] = Acc0 /\ \A n \in 1..Len(b) : k[n] = Fold(k[n - 1], b[n])
  BY <1>1, FoldingDef
<1> HIDE DEF k
<1>3. 0 \in S
  <2>1. {b[i] : i \in 1..0} = {}
    OBVIOUS
  <2>2. FoldInv(k[0], {b[i] : i \in 1..0})
    BY <1>1, <1>2, <2>1, FoldStart
  <2> QED
    BY <2>2
<1>4. ASSUME NEW n \in Nat, n \in S PROVE n + 1 \in S
  <2> SUFFICES ASSUME n + 1 <= Len(b)
               PROVE  FoldInv(k[n + 1], {b[i] : i \in 1..(n + 1)})
    OBVIOUS
  <2>1. n + 1 \in 1..Len(b) /\ (n + 1) - 1 = n
    BY <1>1
  <2>2. FoldInv(k[n], {b[i] : i \in 1..n})
    BY <1>1, <1>4
  <2>3. \A i \in 1..(n + 1) : i \in 1..n \/ i = n + 1
    OBVIOUS
  <2>4. \A i \in 1..n : i \in 1..(n + 1) /\ i \in 1..Len(b)
    BY <1>1
  <2>5. {b[i] : i \in 1..(n + 1)} = {b[i] : i \in 1..n} \union {b[n + 1]}
    BY <2>3, <2>4
  <2>6. {b[i] : i \in 1..n} \in SUBSET Resource /\ b[n + 1] \in Resource
    BY <1>1, <2>1, <2>4
  <2>7. k[n + 1] = Fold(k[n], b[n + 1])
    BY <1>2, <2>1
  <2> QED
    BY <2>2, <2>5, <2>6, <2>7, FoldStep
<1> HIDE DEF S
<1>5. \A n \in Nat : n \in S
  BY <1>3, <1>4, Induction
<1>6. Len(b) \in S
  BY <1>1, <1>5
<1>7. FoldInv(k[Len(b)], {b[i] : i \in 1..Len(b)})
  BY <1>1, <1>6 DEF S
<1> QED
  BY <1>7 DEF k

Merged(acc) == Inserting(Without(acc.rows, acc.drops), acc.fresh)[Len(acc.fresh)]

\* The sorted merge: a table that holds what the fold describes.
LEMMA MergedTable ==
    ASSUME IsTable(sorted), NEW E, NEW acc, FoldInv(acc, E)
    PROVE  IsTable(Merged(acc)) /\ Entries(Merged(acc)) = Cur(acc)
<1> DEFINE rows == acc.rows  kept == Without(acc.rows, acc.drops)
<1>1. /\ sorted \in Seq(Rows) /\ Ordered(sorted) /\ Distinct(sorted)
      /\ \A i \in 1..Len(sorted) : sorted[i].res \in Resource
  BY TableFacts DEF IsTable
<1>2. /\ rows \in Seq(Rows) /\ Len(rows) = Len(sorted)
      /\ acc.fresh \in Seq(Resource)
      /\ \A i \in 1..Len(sorted) : rows[i].res \in Resource
  BY AccFacts DEF FoldInv
<1>3. \A i \in 1..Len(sorted) : /\ resourceKey(rows[i].res) = resourceKey(sorted[i].res)
                                /\ rows[i].res.name = sorted[i].res.name
                                /\ rows[i].res.svc = sorted[i].res.svc
  <2>1. \A i \in 1..Len(sorted) : /\ resourceKey(rows[i].res) = resourceKey(sorted[i].res)
                                  /\ rows[i].res.name = sorted[i].res.name
    BY DEF FoldInv, SamePlaces
  <2> QED
    BY <1>1, <1>2, <2>1, ViewAssumption
<1>4. IsTable(rows)
  <2>1. Ordered(rows)
    <3>1. \A i, j \in 1..Len(sorted) :
            lessResource(rows[j].res, rows[i].res) = lessResource(sorted[j].res, sorted[i].res)
      BY <1>3 DEF lessResource
    <3> QED
      BY <1>1, <1>2, <3>1 DEF Ordered
  <2>2. Distinct(rows)
    BY <1>1, <1>2, <1>3 DEF Distinct
  <2> QED
    BY <1>2, <2>1, <2>2 DEF IsTable
<1>5. IsTable(kept) /\ Entries(kept) = {rows[i].res : i \in (1..Len(sorted)) \ acc.drops}
  <2> HIDE DEF rows
  <2>1. /\ IsTable(Without(rows, acc.drops))
        /\ Entries(Without(rows, acc.drops)) = {rows[i].res : i \in (1..Len(rows)) \ acc.drops}
    BY <1>4, WithoutTable
  <2> QED
    BY <1>2, <2>1 DEF rows
<1> HIDE DEF kept
<1>6. Fresh(acc.fresh, kept)
  <2>1. ASSUME NEW i \in 1..Len(acc.fresh), NEW r \in Entries(kept)
        PROVE  resourceKey(acc.fresh[i]) # resourceKey(r)
    <3>1. PICK j \in (1..Len(sorted)) \ acc.drops : r = rows[j].res
      BY <1>5
    <3>2. resourceKey(acc.fresh[i]) # resourceKey(sorted[j].res)
      BY <3>1 DEF FoldInv, DropsMatch
    <3> QED
      BY <1>3, <3>1, <3>2
  <2>2. FreshDistinct(acc)
    BY DEF FoldInv
  <2> QED
    BY <1>2, <2>1, <2>2 DEF Fresh, FreshDistinct
<1>7. /\ IsTable(Merged(acc))
      /\ Entries(Merged(acc)) = Entries(kept) \union {acc.fresh[i] : i \in 1..Len(acc.fresh)}
  <2> HIDE DEF rows
  <2> QED
    BY <1>5, <1>6, InsertedTable DEF Merged, kept
<1> QED
  BY <1>5, <1>7 DEF Cur

LEMMA KeysOf ==
    ASSUME NEW rows \in Seq(Rows)
    PROVE  /\ Keys(rows) = {resourceKey(rows[i].res) : i \in 1..Len(rows)}
           /\ Keys(rows) = {resourceKey(r) : r \in Entries(rows)}
<1>1. DOMAIN rows = 1..Len(rows)
  OBVIOUS
<1> QED
  BY <1>1 DEF Keys, Entries

LEMMA ReindexTable ==
    ASSUME NEW rows, IsTable(rows), NEW index, DOMAIN index \subseteq Keys(rows)
    PROVE  IndexOf(Reindex(index, rows), rows)
<1> DEFINE Is(k, i) == /\ resourceKey(rows[i].res) = k
                       /\ \A j \in DOMAIN rows : resourceKey(rows[j].res) = k => j <= i
           Place(k) == CHOOSE i \in DOMAIN rows : Is(k, i)
           x == [k \in Keys(rows) \union DOMAIN index |->
                   IF k \in Keys(rows) THEN Place(k) ELSE index[k]]
<1>1. /\ rows \in Seq(Rows) /\ Distinct(rows) /\ Len(rows) \in Nat /\ DOMAIN rows = 1..Len(rows)
  BY DEF IsTable
<1>2. Reindex(index, rows) = x
  BY DEF Reindex
<1>3. ASSUME NEW i \in 1..Len(rows) PROVE Place(resourceKey(rows[i].res)) = i
  <2> DEFINE k == resourceKey(rows[i].res)
  <2>1. Is(k, i)
    BY <1>1 DEF Distinct
  <2>2. \A j \in DOMAIN rows : Is(k, j) => j = i
    BY <1>1 DEF Distinct
  <2>3. i \in DOMAIN rows
    BY <1>1
  <2> HIDE DEF Is, k
  <2>4. Place(k) = i
    BY <2>1, <2>2, <2>3
  <2> QED
    BY <2>4 DEF k
<1> HIDE DEF Place
<1>4. DOMAIN x = Keys(rows)
  OBVIOUS
<1>5. \A i \in 1..Len(rows) : resourceKey(rows[i].res) \in Keys(rows)
  BY <1>1, KeysOf
<1>6. \A k \in Keys(rows) : x[k] = Place(k)
  OBVIOUS
<1> HIDE DEF x
<1> QED
  BY <1>2, <1>3, <1>4, <1>5, <1>6 DEF IndexOf

\* Without new entries the rows stay where they are.
LEMMA MergedInPlace ==
    ASSUME IsTable(sorted), NEW E, NEW acc, FoldInv(acc, E), acc.fresh = <<>>
    PROVE  /\ Merged(acc) = acc.rows
           /\ Len(acc.rows) = Len(sorted)
           /\ \A i \in 1..Len(sorted) :
                resourceKey(acc.rows[i].res) = resourceKey(sorted[i].res)
<1>1. acc.rows \in Seq(Rows) /\ Len(acc.rows) = Len(sorted) /\ acc.drops \subseteq 1..Len(sorted)
  BY AccFacts DEF FoldInv
<1>2. Len(<<>>) = 0 /\ <<>> \in Seq(Resource)
  OBVIOUS
<1>3. \A i \in 1..0 : FALSE
  OBVIOUS
<1>4. acc.drops = {}
  BY <1>2, <1>3 DEF FoldInv, DropsMatch
<1>5. Without(acc.rows, acc.drops) = acc.rows
  BY <1>1, <1>4, WithoutNothing
<1>6. Inserting(acc.rows, <<>>)[0] = acc.rows
  BY <1>1, <1>2, InsertingDef
<1>7. Merged(acc) = acc.rows
  BY <1>2, <1>5, <1>6 DEF Merged
<1> QED
  BY <1>1, <1>7 DEF FoldInv, SamePlaces

-------------------------------------------------------------------------------
(* The invariant. *)

\* The sidebar has the services of the rows.
ServicesExact == svcSet = {sorted[i].res.svc : i \in 1..Len(sorted)}

\* The table is in order without twins of a key; the index and the sidebar are
\* those of its rows; nothing is seen outside watch mode.
ViewInv ==
    /\ IsTable(sorted)
    /\ Indexed
    /\ ServicesExact
    /\ watching \in BOOLEAN
    /\ ~watching => watchSeen = {}

LEMMA BatchFacts ==
    ASSUME NEW b \in Batch
    PROVE  b \in Seq(Resource) /\ DOMAIN b = 1..Len(b)
<1>1. PICK n \in 1..MaxBatch : b \in [1..n -> Resource]
  BY DEF Batch
<1>2. n \in Nat
  BY <1>1, ViewAssumption
<1> QED
  BY <1>1, <1>2

\* What mergeResources does to a table.
LEMMA MergeStep ==
    ASSUME ViewInv, NEW b \in Batch, mergeResources(b)
    PROVE  LET acc == Folding(b)[Len(b)] IN
           /\ FoldInv(acc, {b[i] : i \in 1..Len(b)})
           /\ sorted' = Merged(acc)
           /\ IsTable(Merged(acc)) /\ Entries(Merged(acc)) = Cur(acc)
<1> DEFINE acc == Folding(b)[Len(b)]
<1>1. IsTable(sorted) /\ Indexed
  BY DEF ViewInv
<1>2. FoldInv(acc, {b[i] : i \in 1..Len(b)})
  BY <1>1, BatchFacts, FoldEnd
<1>3. sorted' = Merged(acc)
  BY DEF mergeResources, Merged
<1>4. IsTable(Merged(acc)) /\ Entries(Merged(acc)) = Cur(acc)
  <2> HIDE DEF acc
  <2> QED
    BY <1>1, <1>2, MergedTable
<1> QED
  BY <1>2, <1>3, <1>4

LEMMA CoveredKeys ==
    ASSUME NEW cur, NEW E, Covers(cur, E)
    PROVE  {resourceKey(r) : r \in cur} = {resourceKey(r) : r \in Entries(sorted) \union E}
  BY DEF Covers

LEMMA MergeInv ==
    ASSUME ViewInv, NEW b \in Batch, mergeResources(b)
    PROVE  ViewInv'
<1> DEFINE acc == Folding(b)[Len(b)]  E == {b[i] : i \in 1..Len(b)}
           new == Merged(acc)
<1>1. /\ FoldInv(acc, E) /\ sorted' = new
      /\ IsTable(new) /\ Entries(new) = Cur(acc)
  BY MergeStep
<1>2. /\ byARN' = IF acc.fresh = <<>> THEN byARN ELSE Reindex(byARN, new)
      /\ svcSet' = svcSet \union {acc.fresh[i].svc : i \in DOMAIN acc.fresh}
      /\ watchSeen' = IF watching THEN Seen(b) ELSE watchSeen
      /\ UNCHANGED watching
  BY DEF mergeResources, Merged
<1>3. IsTable(sorted) /\ sorted \in Seq(Rows) /\ IndexOf(byARN, sorted) /\ ServicesExact
  BY DEF ViewInv, IsTable, Indexed
<1> HIDE DEF acc, E
<1>4. /\ acc.fresh \in Seq(Resource) /\ DOMAIN acc.fresh = 1..Len(acc.fresh)
      /\ Len(acc.rows) = Len(sorted)
      /\ \A i \in 1..Len(acc.fresh) : acc.fresh[i] \in Resource
      /\ \A i \in 1..Len(sorted) : acc.rows[i].res \in Resource
  BY <1>1, AccFacts DEF FoldInv
<1>5. new \in Seq(Rows)
  BY <1>1 DEF IsTable
<1>6. IndexOf(byARN', new)
  <2>1. CASE acc.fresh = <<>>
    <3>1. /\ new = acc.rows /\ Len(new) = Len(sorted)
          /\ \A i \in 1..Len(sorted) : resourceKey(new[i].res) = resourceKey(sorted[i].res)
      BY <1>1, <1>3, <2>1, MergedInPlace
    <3>2. byARN' = byARN
      BY <1>2, <2>1
    <3> HIDE DEF new
    <3>3. Keys(new) = Keys(sorted)
      <4>1. Keys(new) = {resourceKey(new[i].res) : i \in 1..Len(new)}
        BY <1>5, KeysOf
      <4>2. Keys(sorted) = {resourceKey(sorted[i].res) : i \in 1..Len(sorted)}
        BY <1>3, KeysOf
      <4> QED
        BY <3>1, <4>1, <4>2
    <3> QED
      BY <1>3, <3>1, <3>2, <3>3 DEF IndexOf
  <2>2. CASE acc.fresh # <<>>
    <3>1. Keys(sorted) \subseteq Keys(new)
      <4>1. Covers(Cur(acc), E)
        BY <1>1 DEF FoldInv
      <4>2. {resourceKey(r) : r \in Cur(acc)} =
              {resourceKey(r) : r \in Entries(sorted) \union E}
        BY <4>1, CoveredKeys
      <4>3. /\ Keys(new) = {resourceKey(r) : r \in Cur(acc)}
            /\ Keys(sorted) = {resourceKey(r) : r \in Entries(sorted)}
        BY <1>1, <1>3, <1>5, KeysOf
      <4> QED
        BY <4>2, <4>3
    <3>2. DOMAIN byARN \subseteq Keys(new)
      BY <1>3, <3>1 DEF IndexOf
    <3>3. byARN' = Reindex(byARN, new)
      BY <1>2, <2>2
    <3> HIDE DEF new
    <3> QED
      BY <1>1, <3>2, <3>3, ReindexTable
  <2> QED
    BY <2>1, <2>2
<1>7. svcSet' = {new[i].res.svc : i \in 1..Len(new)}
  <2>1. {new[i].res.svc : i \in 1..Len(new)} = {r.svc : r \in Cur(acc)}
    <3>1. {new[i].res.svc : i \in 1..Len(new)} = {r.svc : r \in Entries(new)}
      BY DEF Entries
    <3> QED
      BY <1>1, <3>1
  <2>2. svcSet = {sorted[i].res.svc : i \in 1..Len(sorted)}
    BY <1>3 DEF ServicesExact
  <2>3. svcSet' = svcSet \union {acc.fresh[i].svc : i \in 1..Len(acc.fresh)}
    BY <1>2, <1>4
  <2>4. \A i \in 1..Len(sorted) : acc.rows[i].res.svc = sorted[i].res.svc
    <3>1. \A i \in 1..Len(sorted) :
            resourceKey(acc.rows[i].res) = resourceKey(sorted[i].res)
      BY <1>1 DEF FoldInv, SamePlaces
    <3> QED
      BY <1>3, <1>4, <3>1, TableFacts, ViewAssumption
  <2>5. ASSUME NEW r \in Cur(acc) PROVE r.svc \in svcSet'
    <3>1. CASE \E i \in 1..Len(acc.fresh) : r = acc.fresh[i]
      BY <2>3, <3>1
    <3>2. CASE \E i \in (1..Len(sorted)) \ acc.drops : r = acc.rows[i].res
      BY <2>2, <2>3, <2>4, <3>2
    <3> QED
      BY <3>1, <3>2 DEF Cur
  <2>6. ASSUME NEW s \in svcSet' PROVE s \in {r.svc : r \in Cur(acc)}
    <3>1. CASE \E i \in 1..Len(acc.fresh) : s = acc.fresh[i].svc
      BY <3>1 DEF Cur
    <3>2. CASE \E i \in 1..Len(sorted) : s = sorted[i].res.svc
      <4>1. PICK i \in 1..Len(sorted) : s = sorted[i].res.svc
        BY <3>2
      <4>2. CASE i \in acc.drops
        <5>1. PICK j \in 1..Len(acc.fresh) :
                resourceKey(acc.fresh[j]) = resourceKey(sorted[i].res)
          BY <1>1, <4>2 DEF FoldInv, DropsMatch
        <5>2. acc.fresh[j].svc = sorted[i].res.svc
          BY <1>3, <1>4, <5>1, TableFacts, ViewAssumption
        <5> QED
          BY <4>1, <5>2 DEF Cur
      <4>3. CASE i \notin acc.drops
        <5>1. acc.rows[i].res \in Cur(acc)
          BY <4>3 DEF Cur
        <5> QED
          BY <2>4, <4>1, <5>1
      <4> QED
        BY <4>2, <4>3
    <3> QED
      BY <2>2, <2>3, <3>1, <3>2
  <2> QED
    BY <2>1, <2>5, <2>6
<1>8. watching' \in BOOLEAN /\ (~watching' => watchSeen' = {})
  BY <1>2 DEF ViewInv
<1> HIDE DEF new
<1> QED
  BY <1>1, <1>6, <1>7, <1>8 DEF ViewInv, Indexed, ServicesExact

LEMMA EmptyInv ==
    ASSUME sorted' = <<>>, byARN' = <<>>, svcSet' = {}, watching' \in BOOLEAN,
           ~watching' => watchSeen' = {}
    PROVE  ViewInv'
<1> DEFINE e == <<>>
<1>1. Len(e) = 0 /\ DOMAIN e = {} /\ \A i \in 1..0 : FALSE
  OBVIOUS
<1>2. IsTable(e)
  BY EmptyTable
<1>3. IndexOf(e, e)
  BY <1>1 DEF IndexOf, Keys
<1>4. {e[i].res.svc : i \in 1..Len(e)} = {}
  BY <1>1
<1> HIDE DEF e
<1>5. sorted' = e /\ byARN' = e
  BY DEF e
<1> QED
  BY <1>2, <1>3, <1>4, <1>5 DEF ViewInv, Indexed, ServicesExact

\* A completed watch sweep leaves a table of the rows it has seen.
LEMMA SweepStep ==
    ASSUME ViewInv, finishWatchSweep
    PROVE  /\ sorted' = Without(sorted, Unseen)
           /\ IsTable(sorted')
           /\ Entries(sorted') = {r \in Entries(sorted) : resourceKey(r) \in watchSeen}
           /\ ViewInv'
<1> DEFINE kept == Without(sorted, Unseen)
<1>1. IsTable(sorted) /\ DOMAIN sorted = 1..Len(sorted)
  BY DEF ViewInv, IsTable
<1>2. IsTable(kept) /\ Entries(kept) = {sorted[i].res : i \in (1..Len(sorted)) \ Unseen}
  BY <1>1, WithoutTable
<1>3. /\ watching' = FALSE /\ watchSeen' = {}
      /\ IF kept = sorted THEN UNCHANGED dataVars
         ELSE /\ sorted' = kept
              /\ byARN' = Reindex(<<>>, kept)
              /\ svcSet' = {kept[i].res.svc : i \in DOMAIN kept}
  BY DEF finishWatchSweep
<1>4. Entries(kept) = {r \in Entries(sorted) : resourceKey(r) \in watchSeen}
  <2>1. \A i \in 1..Len(sorted) :
          i \in Unseen <=> resourceKey(sorted[i].res) \notin watchSeen
    BY <1>1 DEF Unseen
  <2> HIDE DEF kept
  <2> QED
    BY <1>2, <2>1 DEF Entries
<1> HIDE DEF kept
<1>5. sorted' = kept
  BY <1>3 DEF dataVars
<1>6. CASE kept = sorted
  <2>1. sorted' = sorted /\ byARN' = byARN /\ svcSet' = svcSet
    BY <1>3, <1>6 DEF dataVars
  <2>2. ViewInv'
    BY <1>3, <2>1 DEF ViewInv, Indexed, ServicesExact
  <2> QED
    BY <1>2, <1>4, <1>5, <2>2 DEF kept
<1>7. CASE kept # sorted
  <2>1. byARN' = Reindex(<<>>, kept) /\ svcSet' = {kept[i].res.svc : i \in DOMAIN kept}
    BY <1>3, <1>7
  <2>2. DOMAIN <<>> \subseteq Keys(kept)
    OBVIOUS
  <2>3. IndexOf(byARN', kept)
    BY <1>2, <2>1, <2>2, ReindexTable
  <2>4. DOMAIN kept = 1..Len(kept)
    BY <1>2 DEF IsTable
  <2>5. ViewInv'
    BY <1>2, <1>3, <1>5, <2>1, <2>3, <2>4 DEF ViewInv, Indexed, ServicesExact
  <2> QED
    BY <1>2, <1>4, <1>5, <2>5 DEF kept
<1> QED
  BY <1>6, <1>7

LEMMA InitView == Init => ViewInv
<1> SUFFICES ASSUME Init PROVE ViewInv
  OBVIOUS
<1> DEFINE e == <<>>
<1>1. Len(e) = 0 /\ DOMAIN e = {} /\ \A i \in 1..0 : FALSE
  OBVIOUS
<1>2. IsTable(e)
  BY EmptyTable
<1>3. IndexOf(e, e)
  BY <1>1 DEF IndexOf, Keys
<1>4. {e[i].res.svc : i \in 1..Len(e)} = {}
  BY <1>1
<1>5. sorted = e /\ byARN = e /\ svcSet = {} /\ watching = FALSE /\ watchSeen = {}
  BY DEF Init
<1> HIDE DEF e
<1> QED
  BY <1>2, <1>3, <1>4, <1>5 DEF ViewInv, Indexed, ServicesExact

LEMMA NextView == ViewInv /\ [Next]_vars => ViewInv'
<1> SUFFICES ASSUME ViewInv, [Next]_vars PROVE ViewInv'
  OBVIOUS
<1>1. ASSUME NEW b \in Batch, mergeResources(b) PROVE ViewInv'
  BY <1>1, MergeInv
<1>2. CASE WatchTick
  BY <1>2 DEF WatchTick, dataVars, ViewInv, Indexed, ServicesExact
<1>3. CASE finishWatchSweep
  BY <1>3, SweepStep
<1>4. CASE FlagExpires
  BY <1>4 DEF FlagExpires, dataVars, ViewInv, Indexed, ServicesExact
<1>5. CASE restartScan
  BY <1>5, EmptyInv DEF restartScan, watchVars, ViewInv
<1>6. CASE EnableWatch
  BY <1>6 DEF EnableWatch, dataVars, ViewInv, Indexed, ServicesExact
<1>7. CASE UNCHANGED vars
  BY <1>7 DEF vars, dataVars, watchVars, ViewInv, Indexed, ServicesExact
<1> QED
  BY <1>1, <1>2, <1>3, <1>4, <1>5, <1>6, <1>7 DEF Next, Message

LEMMA ViewInvariant == Spec => []ViewInv
  BY InitView, NextView, PTL DEF Spec

-------------------------------------------------------------------------------
(* The theorems. *)

\* The rows are resources and the index points into them; nothing counts as seen
\* outside a watch sweep.
THEOREM TypeCorrect == Spec => []TypeOK
<1>1. ViewInv => TypeOK
  <2> SUFFICES ASSUME ViewInv PROVE TypeOK
    OBVIOUS
  <2>1. sorted \in Seq(Rows) /\ Indexed
    BY DEF ViewInv, IsTable
  <2>2. DOMAIN sorted = 1..Len(sorted) /\ \A i \in 1..Len(sorted) : sorted[i].res \in Resource
    BY <2>1, TableFacts
  <2>3. \A k \in DOMAIN byARN : byARN[k] \in 1..Len(sorted)
    BY <2>1, IndexFacts
  <2> QED
    BY <2>2, <2>3 DEF ViewInv, TypeOK
<1> QED
  BY <1>1, ViewInvariant, PTL

\* After any sequence of merges, renames and sweeps the index of mergeResources
\* holds exactly the keys of the rows, each at its row, and the sidebar exactly
\* their services.
THEOREM IndexStaysExact == Spec => []IndexExact
<1>1. ViewInv => IndexExact
  <2> SUFFICES ASSUME ViewInv PROVE IndexExact
    OBVIOUS
  <2>1. DOMAIN sorted = 1..Len(sorted)
    BY DEF ViewInv, IsTable
  <2> QED
    BY <2>1 DEF ViewInv, Indexed, IndexOf, ServicesExact, IndexExact
<1> QED
  BY <1>1, ViewInvariant, PTL

\* The incremental merge gives the order of a full sort, and every row the filter
\* text of its resource.
THEOREM OrderAndText == Spec => []SortedWithText
<1>1. ViewInv => SortedWithText
  <2> SUFFICES ASSUME ViewInv PROVE SortedWithText
    OBVIOUS
  <2>1. sorted \in Seq(Rows) /\ Ordered(sorted)
    BY DEF ViewInv, IsTable
  <2>2. DOMAIN sorted = 1..Len(sorted) /\ \A i \in 1..Len(sorted) : sorted[i] \in Rows
    BY <2>1
  <2>3. \A i \in 1..Len(sorted) : sorted[i].text = searchTextFor(sorted[i].res)
    BY <2>2, RowFacts
  <2> QED
    BY <2>1, <2>2, <2>3 DEF Ordered, SortedWithText
<1> QED
  BY <1>1, ViewInvariant, PTL

FlagStep ==
    \A k \in DOMAIN prevStates :
      (\E i \in DOMAIN sorted' : /\ resourceKey(sorted'[i].res) = k
                                 /\ \A j \in DOMAIN sorted : sorted'[i] # sorted[j]
                                 /\ sorted'[i].res.state # prevStates[k])
        => k \in changedRows'

LEMMA NextFlags == ViewInv /\ [Next]_vars => [FlagStep]_vars
<1> SUFFICES ASSUME ViewInv, [Next]_vars PROVE FlagStep
  OBVIOUS
<1>1. ASSUME NEW b \in Batch, mergeResources(b) PROVE FlagStep
  <2>1. changedRows' = changedRows \union Flagged(sorted')
    BY <1>1 DEF mergeResources
  <2> QED
    BY <2>1 DEF Flagged, FlagStep
<1>2. CASE finishWatchSweep
  <2>1. /\ sorted' \in Seq(Rows) /\ sorted \in Seq(Rows)
        /\ Entries(sorted') \subseteq Entries(sorted)
    BY <1>2, SweepStep DEF IsTable, ViewInv
  <2>2. \A i \in DOMAIN sorted' : \E j \in DOMAIN sorted : sorted'[i] = sorted[j]
    <3> TAKE i \in DOMAIN sorted'
    <3>1. i \in 1..Len(sorted') /\ DOMAIN sorted = 1..Len(sorted)
      BY <2>1
    <3>2. sorted'[i].res \in Entries(sorted)
      BY <2>1, <3>1 DEF Entries
    <3>3. PICK j \in 1..Len(sorted) : sorted'[i].res = sorted[j].res
      BY <3>2 DEF Entries
    <3>4. sorted'[i] \in Rows /\ sorted[j] \in Rows
      BY <2>1, <3>1
    <3> QED
      BY <3>1, <3>3, <3>4, RowFacts
  <2> QED
    BY <2>2 DEF FlagStep
<1>3. CASE restartScan
  <2>1. DOMAIN sorted' = {}
    BY <1>3 DEF restartScan
  <2> QED
    BY <2>1 DEF FlagStep
<1>4. CASE sorted' = sorted
  BY <1>4 DEF FlagStep
<1> QED
  BY <1>1, <1>2, <1>3, <1>4
     DEF Next, Message, WatchTick, FlagExpires, EnableWatch, vars, dataVars

\* A merge that gives a row another state than the last tick of watch mode saw
\* flags it: no transition is lost, whatever the batch renames or inserts.
THEOREM NoTransitionLost == Spec => TransitionsFlagged
<1>1. ViewInv /\ [Next]_vars =>
        [\A k \in DOMAIN prevStates :
           (\E i \in DOMAIN sorted' : /\ resourceKey(sorted'[i].res) = k
                                      /\ \A j \in DOMAIN sorted : sorted'[i] # sorted[j]
                                      /\ sorted'[i].res.state # prevStates[k])
             => k \in changedRows']_vars
  BY NextFlags DEF FlagStep
<1> QED
  BY <1>1, ViewInvariant, PTL DEF Spec, TransitionsFlagged

-------------------------------------------------------------------------------
(* Refinement: the table implements the map of Inventory, step by step. *)

LEMMA MapInit == Init => Map!Init
<1> SUFFICES ASSUME Init PROVE Map!Init
  OBVIOUS
<1>1. {sorted[i].res : i \in DOMAIN sorted} = {}
  BY DEF Init
<1> QED
  BY <1>1 DEF Init, Map!Init

\* The rows after a merge describe what Merges asks for.
LEMMA CoversMerges ==
    ASSUME IsTable(sorted), NEW b \in Batch, NEW new, IsTable(new),
           Covers(Entries(new), {b[i] : i \in 1..Len(b)})
    PROVE  /\ Entries(new) \in SUBSET (Entries(sorted) \union {b[i] : i \in DOMAIN b})
           /\ {resourceKey(r) : r \in Entries(new)} =
                {resourceKey(r) : r \in Entries(sorted)}
                  \union {resourceKey(r) : r \in {b[i] : i \in DOMAIN b}}
           /\ \A r, s \in Entries(new) : resourceKey(r) = resourceKey(s) => r = s
           /\ \A r \in Entries(new), s \in Entries(sorted) \union {b[i] : i \in DOMAIN b} :
                resourceKey(r) = resourceKey(s) =>
                  /\ Richness(s) <= Richness(r)
                  /\ (s \in {b[i] : i \in DOMAIN b} /\ Richness(s) = Richness(r))
                       => r \in {b[i] : i \in DOMAIN b}
<1> DEFINE E == {b[i] : i \in 1..Len(b)}
<1>1. E = {b[i] : i \in DOMAIN b}
  BY BatchFacts
<1> HIDE DEF E
<1>2. Covers(Entries(new), E)
  BY DEF E
<1>3. \A r, s \in Entries(new) : resourceKey(r) = resourceKey(s) => r = s
  BY DEF IsTable, Distinct, Entries
<1>4. \A r \in Entries(new), s \in Entries(sorted) \union E :
        resourceKey(r) = resourceKey(s) =>
          /\ Richness(s) <= Richness(r)
          /\ (s \in E /\ Richness(s) = Richness(r)) => r \in E
  <2> SUFFICES ASSUME NEW r \in Entries(new), NEW s \in Entries(sorted) \union E,
                      resourceKey(r) = resourceKey(s)
               PROVE  /\ Richness(s) <= Richness(r)
                      /\ (s \in E /\ Richness(s) = Richness(r)) => r \in E
    OBVIOUS
  <2>1. PICK x \in Entries(new) : /\ resourceKey(x) = resourceKey(s)
                                  /\ Richness(s) <= Richness(x)
                                  /\ (s \in E /\ Richness(s) = Richness(x)) => x \in E
    BY <1>2 DEF Covers
  <2>2. x = r
    BY <1>3, <2>1
  <2> QED
    BY <2>1, <2>2
<1>5. {resourceKey(r) : r \in Entries(new)} =
        {resourceKey(r) : r \in Entries(sorted) \union E}
  BY <1>2, CoveredKeys
<1>6. {resourceKey(r) : r \in Entries(sorted) \union E} =
        {resourceKey(r) : r \in Entries(sorted)} \union {resourceKey(r) : r \in E}
  OBVIOUS
<1>7. Entries(new) \subseteq Entries(sorted) \union E
  BY <1>2 DEF Covers
<1> QED
  BY <1>1, <1>3, <1>4, <1>5, <1>6, <1>7

LEMMA MapMerge ==
    ASSUME ViewInv, NEW b \in Batch, mergeResources(b)
    PROVE  Map!Merge(b)
<1> DEFINE acc == Folding(b)[Len(b)]  E == {b[i] : i \in 1..Len(b)}
<1>1. /\ FoldInv(acc, E) /\ sorted' = Merged(acc)
      /\ IsTable(Merged(acc)) /\ Entries(Merged(acc)) = Cur(acc)
  BY MergeStep
<1>2. IsTable(sorted') /\ Covers(Entries(sorted'), E)
  <2> HIDE DEF acc
  <2> QED
    BY <1>1 DEF FoldInv
<1>3. IsTable(sorted)
  BY DEF ViewInv
<1>4. /\ {sorted[i].res : i \in DOMAIN sorted} = Entries(sorted)
      /\ {sorted'[i].res : i \in DOMAIN sorted'} = Entries(sorted')
  <2>1. DOMAIN sorted = 1..Len(sorted) /\ DOMAIN sorted' = 1..Len(sorted')
    BY <1>2, <1>3 DEF IsTable
  <2> QED
    BY <2>1 DEF Entries
<1>5. PICK new : new = sorted'
  OBVIOUS
<1>6. /\ Entries(new) \in SUBSET (Entries(sorted) \union {b[i] : i \in DOMAIN b})
      /\ Map!Merges(b, Entries(new))
  BY <1>2, <1>3, <1>4, <1>5, CoversMerges DEF Map!Merges, Map!Elements
<1>7. /\ watching' = watching
      /\ watchSeen' = IF watching THEN watchSeen \union {resourceKey(r) : r \in Map!Elements(b)}
                      ELSE watchSeen
  <2>1. {resourceKey(r) : r \in Map!Elements(b)} = {resourceKey(b[i]) : i \in DOMAIN b}
    BY DEF Map!Elements
  <2> QED
    BY <2>1 DEF mergeResources, Seen
<1> QED
  BY <1>4, <1>5, <1>6, <1>7 DEF Map!Merge, Map!Elements

LEMMA MapNext == ViewInv /\ [Next]_vars => [Map!Next]_(Map!vars)
<1> SUFFICES ASSUME ViewInv, [Next]_vars PROVE Map!Next \/ UNCHANGED Map!vars
  OBVIOUS
<1>1. ASSUME NEW b \in Batch, mergeResources(b) PROVE Map!Next
  <2>1. b \in Map!Batch
    BY DEF Batch, Map!Batch
  <2>2. Map!Merge(b)
    BY <1>1, MapMerge
  <2> QED
    BY <2>1, <2>2 DEF Map!Next
<1>2. CASE WatchTick
  BY <1>2 DEF WatchTick, dataVars, Map!Next, Map!StartSweep
<1>3. CASE finishWatchSweep
  <2>1. /\ IsTable(sorted) /\ IsTable(sorted')
        /\ Entries(sorted') = {r \in Entries(sorted) : resourceKey(r) \in watchSeen}
    BY <1>3, SweepStep DEF ViewInv
  <2>2. DOMAIN sorted = 1..Len(sorted) /\ DOMAIN sorted' = 1..Len(sorted')
    BY <2>1 DEF IsTable
  <2>3. Map!FinishSweep
    BY <1>3, <2>1, <2>2 DEF finishWatchSweep, Entries, Map!FinishSweep
  <2> QED
    BY <2>3 DEF Map!Next
<1>4. CASE restartScan
  <2>1. {sorted'[i].res : i \in DOMAIN sorted'} = {}
    BY <1>4 DEF restartScan
  <2>2. Map!Restart
    BY <1>4, <2>1 DEF restartScan, watchVars, Map!Restart
  <2> QED
    BY <2>2 DEF Map!Next
<1>5. CASE FlagExpires \/ EnableWatch \/ UNCHANGED vars
  BY <1>5 DEF FlagExpires, EnableWatch, vars, dataVars, watchVars, Map!vars
<1> QED
  BY <1>1, <1>2, <1>3, <1>4, <1>5 DEF Next, Message

\* mergeResources and finishWatchSweep keep the map that Inventory specifies: one
\* entry per key, the richest and newest that arrived, dropped only by a restart
\* or by a completed sweep that has not seen it.
THEOREM InventoryIsImplemented == Spec => ImplementsInventory
  BY ViewInvariant, MapInit, MapNext, PTL DEF Spec, ImplementsInventory, Map!Spec

-------------------------------------------------------------------------------
(* Ranking.  A finite set of positions is ranked by taking the worst away. *)

Beats(score, i, j) == score[i] > score[j] \/ (score[i] = score[j] /\ i < j)

LEMMA WorstHit ==
    ASSUME NEW L \in Nat, NEW score \in [1..L -> Nat],
           NEW T \in SUBSET (1..L), T # {}
    PROVE  \E x \in T : \A y \in T \ {x} : Beats(score, y, x)
<1> DEFINE V == {score[t] : t \in T}
<1>1. V \subseteq Nat /\ V # {}
  OBVIOUS
<1>2. PICK v \in V : \A w \in V : v <= w
  <2> HIDE DEF V
  <2> QED
    BY <1>1, Least
<1> DEFINE D == {L - t : t \in {u \in T : score[u] = v}}
<1>3. D \subseteq Nat /\ D # {}
  OBVIOUS
<1>4. PICK d \in D : \A e \in D : d <= e
  <2> HIDE DEF D
  <2> QED
    BY <1>3, Least
<1>5. PICK x \in T : score[x] = v /\ d = L - x
  BY <1>4
<1>6. ASSUME NEW y \in T \ {x} PROVE Beats(score, y, x)
  <2>1. score[y] \in V /\ score[y] \in Nat /\ score[x] \in Nat
    OBVIOUS
  <2>2. score[y] >= score[x]
    BY <1>2, <1>5, <2>1
  <2>3. CASE score[y] = score[x]
    <3>1. L - y \in D
      BY <1>5, <2>3
    <3>2. L - x <= L - y
      BY <1>4, <1>5, <3>1
    <3>3. x \in Nat /\ y \in Nat /\ x # y
      OBVIOUS
    <3> QED
      BY <2>3, <3>2, <3>3 DEF Beats
  <2> QED
    BY <2>1, <2>2, <2>3 DEF Beats
<1> QED
  BY <1>6

IsRanking(score, T, n, h) ==
    h \in [1..n -> T] /\ \A a, b \in 1..n : a < b => Beats(score, h[a], h[b])

LEMMA RankingExists ==
    ASSUME NEW L \in Nat, NEW score \in [1..L -> Nat]
    PROVE  \A n \in Nat : \A T \in SUBSET (1..L) :
             Cardinality(T) = n => \E h : IsRanking(score, T, n, h)
<1> DEFINE S == {n \in Nat : \A T \in SUBSET (1..L) :
                               Cardinality(T) = n => \E h : IsRanking(score, T, n, h)}
<1>0. ASSUME NEW T \in SUBSET (1..L) PROVE IsFiniteSet(T)
  <2>1. 1 \in Int /\ L \in Int
    OBVIOUS
  <2>2. IsFiniteSet(1..L)
    BY <2>1, FS_Interval
  <2> QED
    BY <2>2, FS_Subset
<1>1. 0 \in S
  <2> SUFFICES ASSUME NEW T \in SUBSET (1..L), Cardinality(T) = 0
               PROVE  \E h : IsRanking(score, T, 0, h)
    OBVIOUS
  <2>1. <<>> \in [1..0 -> T]
    OBVIOUS
  <2>2. \A a \in 1..0 : FALSE
    OBVIOUS
  <2> QED
    BY <2>1, <2>2 DEF IsRanking
<1>2. ASSUME NEW n \in Nat, n \in S PROVE n + 1 \in S
  <2> SUFFICES ASSUME NEW T \in SUBSET (1..L), Cardinality(T) = n + 1
               PROVE  \E h : IsRanking(score, T, n + 1, h)
    OBVIOUS
  <2>1. T # {}
    BY <1>0, FS_EmptySet
  <2>2. PICK x \in T : \A y \in T \ {x} : Beats(score, y, x)
    BY <2>1, WorstHit
  <2>3. Cardinality(T \ {x}) = n
    <3>1. IsFiniteSet(T)
      BY <1>0
    <3>2. Cardinality(T \ {x}) = Cardinality(T) - 1
      BY <2>2, <3>1, FS_RemoveElement
    <3> QED
      BY <3>2
  <2>4. PICK h : IsRanking(score, T \ {x}, n, h)
    BY <1>2, <2>3
  <2>5. h \in [1..n -> T \ {x}] /\ \A a, b \in 1..n : a < b => Beats(score, h[a], h[b])
    BY <2>4 DEF IsRanking
  <2> DEFINE g == [a \in 1..(n + 1) |-> IF a = n + 1 THEN x ELSE h[a]]
  <2>6. g \in [1..(n + 1) -> T]
    BY <2>5
  <2>7. ASSUME NEW a \in 1..(n + 1), NEW b \in 1..(n + 1), a < b
        PROVE  Beats(score, g[a], g[b])
    <3>1. a \in 1..n /\ g[a] = h[a]
      BY <2>7
    <3>2. CASE b = n + 1
      <4>1. g[b] = x /\ h[a] \in T \ {x}
        BY <2>5, <3>1, <3>2
      <4> HIDE DEF g
      <4> QED
        BY <2>2, <3>1, <4>1
    <3>3. CASE b # n + 1
      <4>1. b \in 1..n /\ g[b] = h[b]
        BY <3>3
      <4> HIDE DEF g
      <4>2. Beats(score, h[a], h[b])
        BY <2>5, <2>7, <3>1, <4>1
      <4> QED
        BY <3>1, <4>1, <4>2
    <3> QED
      BY <3>2, <3>3
  <2> HIDE DEF g
  <2> QED
    BY <2>6, <2>7 DEF IsRanking
<1> HIDE DEF S
<1>3. \A n \in Nat : n \in S
  BY <1>1, <1>2, Induction
<1> QED
  BY <1>3 DEF S

\* Rank returns positions of matching rows, the better ones first.
LEMMA RankFacts ==
    ASSUME NEW rows, IsTable(rows), NEW q \in Queries
    PROVE  LET hits == Rank(rows, q) IN
           /\ hits \in Seq(1..Len(rows))
           /\ \A n \in 1..Len(hits) : ScoreOf(rows, q, hits[n]) > 0
           /\ \A k, n \in 1..Len(hits) : k < n => Better(rows, q, hits[k], hits[n])
<1> DEFINE L == Len(rows)
           score == [i \in 1..L |-> ScoreOf(rows, q, i)]
           T == Matches(rows, q)
           n == Cardinality(T)
           r == Ranking(rows, q)
<1>1. L \in Nat /\ DOMAIN rows = 1..L /\ \A i \in 1..L : rows[i] \in Rows
  BY TableFacts DEF IsTable
<1>2. \A i \in 1..L : ScoreOf(rows, q, i) \in Nat
  <2> TAKE i \in 1..L
  <2>1. rows[i].res \in Resource /\ rows[i].text = searchTextFor(rows[i].res)
    BY <1>1, RowFacts
  <2> QED
    BY <2>1, FinderAssumption DEF ScoreOf
<1>3. score \in [1..L -> Nat]
  BY <1>2
<1>4. T \in SUBSET (1..L)
  BY <1>1 DEF Matches
<1>5. IsFiniteSet(T) /\ n \in Nat
  <2>1. IsFiniteSet(1..L)
    <3> HIDE DEF L
    <3>1. 1 \in Int /\ L \in Int
      BY <1>1
    <3> QED
      BY <3>1, FS_Interval
  <2>2. IsFiniteSet(T)
    BY <1>4, <2>1, FS_Subset
  <2> QED
    BY <2>2, FS_CardinalityType
<1>6. PICK h : IsRanking(score, T, n, h)
  <2> HIDE DEF score, T
  <2> QED
    BY <1>1, <1>3, <1>4, <1>5, RankingExists
<1>7. \A i, j \in 1..L : Beats(score, i, j) = Better(rows, q, i, j)
  BY DEF Beats, Better
<1>8. /\ h \in [1..n -> T]
      /\ \A a, b \in DOMAIN h : a < b => Better(rows, q, h[a], h[b])
  <2>1. h \in [1..n -> T] /\ \A a, b \in 1..n : a < b => Beats(score, h[a], h[b])
    BY <1>6 DEF IsRanking
  <2>2. DOMAIN h = 1..n /\ \A a \in 1..n : h[a] \in 1..L
    <3> HIDE DEF T, n
    <3> QED
      BY <1>4, <2>1
  <2> HIDE DEF score, T, n
  <2> QED
    BY <1>7, <2>1, <2>2
<1>9. /\ r \in [1..n -> T]
      /\ \A a, b \in DOMAIN r : a < b => Better(rows, q, r[a], r[b])
  BY <1>8 DEF Ranking
<1> HIDE DEF r, T, n
<1> HIDE DEF L, score
<1>10. r \in Seq(1..L) /\ Len(r) = n /\ DOMAIN r = 1..n /\ \A a \in 1..n : r[a] \in T
  <2> DEFINE P == 1..L
  <2>1. r \in [1..n -> T] /\ r \in [1..n -> P]
    BY <1>4, <1>9
  <2>2. r \in Seq(P)
    <3> HIDE DEF P
    <3> QED
      BY <1>5, <2>1
  <2>3. Len(r) = n
    BY <1>5, <2>1, <2>2
  <2> QED
    BY <2>1, <2>2, <2>3
<1>11. \A a \in 1..n : ScoreOf(rows, q, r[a]) > 0
  <2>1. \A i \in T : ScoreOf(rows, q, i) > 0
    BY DEF T, Matches
  <2> QED
    BY <1>10, <2>1
<1>12. CASE n > MaxHits
  <2> DEFINE s == SubSeq(r, 1, MaxHits)
  <2>1. MaxHits \in Nat /\ n \in Nat /\ MaxHits < n
    BY <1>5, <1>12, FinderAssumption
  <2>2. \A a \in 1..MaxHits : a \in 1..n
    BY <2>1
  <2>4. s \in Seq(1..L) /\ Len(s) = MaxHits
    <3> DEFINE P == 1..L
    <3>1. r \in Seq(P)
      BY <1>10
    <3> HIDE DEF P
    <3>2. s \in Seq(P) /\ Len(s) = MaxHits
      BY <1>10, <2>1, <3>1
    <3> QED
      BY <3>2 DEF P
  <2>5. \A a \in 1..MaxHits : s[a] = r[a]
    BY <1>10, <2>1
  <2>3. Rank(rows, q) = s
    BY <1>10, <1>12 DEF Rank, r
  <2> HIDE DEF s
  <2> QED
    BY <1>9, <1>10, <1>11, <2>2, <2>3, <2>4, <2>5 DEF L
<1>13. CASE ~(n > MaxHits)
  <2>1. Rank(rows, q) = r
    BY <1>10, <1>13 DEF Rank, r
  <2> QED
    BY <1>9, <1>10, <1>11, <2>1 DEF L
<1> QED
  BY <1>12, <1>13

-------------------------------------------------------------------------------
(* The finder over the table. *)

LEMMA FinderStep == [FinderNext]_allVars => [Next]_vars
<1> SUFFICES ASSUME FinderNext PROVE [Next]_vars
  BY DEF allVars
<1>1. CASE openFinder
  BY <1>1 DEF openFinder
<1>2. CASE \E q \in Query : TypeQuery(q)
  BY <1>2 DEF TypeQuery
<1>3. CASE MoveSelection
  BY <1>3 DEF MoveSelection
<1>4. CASE closeFinder
  BY <1>4 DEF closeFinder
<1>5. CASE jumpToResource
  BY <1>5 DEF jumpToResource
<1>6. CASE Update
  BY <1>6 DEF Update, Next
<1> QED
  BY <1>1, <1>2, <1>3, <1>4, <1>5, <1>6 DEF FinderNext

\* With the finder in front of it the table is still the table: every theorem
\* about Spec holds of FinderSpec.
THEOREM FinderKeepsTable == FinderSpec => Spec
<1>1. FinderInit => Init
  BY DEF FinderInit
<1> QED
  BY <1>1, FinderStep, PTL DEF FinderSpec, Spec

\* What the palette keeps while it is open, whatever happens to the table.
HitsInv ==
    /\ query \in Queries
    /\ finderHits \in Seq(Nat)
    /\ finderSel \in Nat \ {0}
    /\ showFinder /\ finderHits # <<>> => finderSel <= Len(finderHits)

LEMMA ComputedHits ==
    ASSUME ViewInv, NEW q \in Queries, NEW sel \in Nat \ {0}, computeFinderHits(q, sel)
    PROVE  /\ finderHits' \in Seq(Nat)
           /\ finderSel' \in Nat \ {0}
           /\ finderHits' # <<>> => finderSel' <= Len(finderHits')
<1>1. IsTable(sorted)
  BY DEF ViewInv
<1> DEFINE h == Rank(sorted, q)
<1>2. h \in Seq(1..Len(sorted)) /\ Len(sorted) \in Nat
  BY <1>1, RankFacts, TableFacts DEF IsTable
<1>3. 1..Len(sorted) \subseteq Nat
  BY <1>2
<1>4. h \in Seq(Nat)
  <2> DEFINE P == 1..Len(sorted)
  <2>1. P \subseteq Nat /\ h \in Seq(P)
    BY <1>2, <1>3
  <2> HIDE DEF P, h
  <2>2. Len(h) \in Nat /\ h \in [1..Len(h) -> P]
    BY <2>1
  <2>3. h \in [1..Len(h) -> Nat]
    BY <2>1, <2>2
  <2> QED
    BY <2>2, <2>3
<1>5. finderHits' = h /\ finderSel' = IF sel > Len(h) THEN 1 ELSE sel
  BY DEF computeFinderHits
<1> HIDE DEF h
<1>6. Len(h) \in Nat /\ (h # <<>> => Len(h) >= 1)
  BY <1>4
<1> QED
  BY <1>4, <1>5, <1>6

LEMMA HitsInit == FinderInit => HitsInv
<1> SUFFICES ASSUME FinderInit PROVE HitsInv
  OBVIOUS
<1>1. query \in Queries /\ finderHits = <<>> /\ finderSel = 1
  BY DEF FinderInit, Queries
<1> QED
  BY <1>1 DEF HitsInv

LEMMA HitsNext == ViewInv /\ HitsInv /\ [FinderNext]_allVars => HitsInv'
<1> SUFFICES ASSUME ViewInv, HitsInv, [FinderNext]_allVars PROVE HitsInv'
  OBVIOUS
<1> USE DEF HitsInv
<1>1. CASE openFinder
  <2>1. NoQuery \in Queries /\ query' = NoQuery /\ computeFinderHits(NoQuery, 1)
    BY <1>1 DEF openFinder, Queries
  <2>2. 1 \in Nat \ {0}
    OBVIOUS
  <2> QED
    BY <2>1, <2>2, ComputedHits
<1>2. ASSUME NEW q \in Query, TypeQuery(q) PROVE HitsInv'
  <2>1. q \in Queries /\ query' = q /\ computeFinderHits(q, finderSel)
    BY <1>2 DEF TypeQuery, Queries
  <2> QED
    BY <2>1, ComputedHits
<1>3. CASE MoveSelection
  <2>1. Len(finderHits) \in Nat
    OBVIOUS
  <2> QED
    BY <1>3, <2>1 DEF MoveSelection
<1>4. CASE closeFinder
  BY <1>4 DEF closeFinder
<1>5. CASE jumpToResource
  BY <1>5 DEF jumpToResource
<1>6. CASE Update
  BY <1>6 DEF Update, finderVars
<1>7. CASE UNCHANGED allVars
  BY <1>7 DEF allVars, finderVars
<1> QED
  BY <1>1, <1>2, <1>3, <1>4, <1>5, <1>6, <1>7 DEF FinderNext

\* Some line of the palette is selected as long as there is one, whatever is
\* typed and whatever the scan does behind it.
THEOREM SelectionStaysOnList == FinderSpec => []SelectionStays
<1>1. HitsInv => SelectionStays
  <2> SUFFICES ASSUME HitsInv PROVE SelectionStays
    OBVIOUS
  <2>1. DOMAIN finderHits = 1..Len(finderHits) /\ Len(finderHits) \in Nat
    BY DEF HitsInv
  <2> QED
    BY <2>1 DEF HitsInv, SelectionStays
<1> QED
  BY <1>1, HitsInit, HitsNext, FinderKeepsTable, ViewInvariant, PTL DEF FinderSpec

\* The hits are those of the query and of the table as it is.
HitsCurrent == showFinder => finderHits = Rank(sorted, query)

LEMMA HitsStayCurrent ==
    ASSUME Streaming = FALSE
    PROVE  HitsCurrent /\ [FinderNext]_allVars => HitsCurrent'
<1> SUFFICES ASSUME HitsCurrent, [FinderNext]_allVars PROVE HitsCurrent'
  OBVIOUS
<1> USE DEF HitsCurrent
<1>1. CASE openFinder
  <2>1. sorted' = sorted
    BY <1>1 DEF openFinder, vars, dataVars
  <2> QED
    BY <1>1, <2>1 DEF openFinder, computeFinderHits
<1>2. ASSUME NEW q \in Query, TypeQuery(q) PROVE HitsCurrent'
  <2>1. sorted' = sorted
    BY <1>2 DEF TypeQuery, vars, dataVars
  <2> QED
    BY <1>2, <2>1 DEF TypeQuery, computeFinderHits
<1>3. CASE MoveSelection
  BY <1>3 DEF MoveSelection, vars, dataVars
<1>4. CASE closeFinder
  BY <1>4 DEF closeFinder
<1>5. CASE jumpToResource
  BY <1>5 DEF jumpToResource
<1>6. CASE Update
  BY <1>6 DEF Update, finderVars
<1>7. CASE UNCHANGED allVars
  BY <1>7 DEF allVars, finderVars, vars, dataVars
<1> QED
  BY <1>1, <1>2, <1>3, <1>4, <1>5, <1>6, <1>7 DEF FinderNext

LEMMA FinderInvariant ==
    ASSUME Streaming = FALSE
    PROVE  FinderSpec => [](ViewInv /\ HitsInv /\ HitsCurrent)
<1>1. FinderInit => HitsCurrent
  BY DEF FinderInit, HitsCurrent
<1>2. HitsCurrent /\ [FinderNext]_allVars => HitsCurrent'
  BY HitsStayCurrent
<1> QED
  BY <1>1, <1>2, HitsInit, HitsNext, FinderKeepsTable, ViewInvariant, PTL DEF FinderSpec

LEMMA CurrentHits ==
    ASSUME ViewInv, HitsInv, HitsCurrent, showFinder
    PROVE  /\ DOMAIN sorted = 1..Len(sorted) /\ DOMAIN finderHits = 1..Len(finderHits)
           /\ \A n \in 1..Len(finderHits) : /\ finderHits[n] \in 1..Len(sorted)
                                            /\ ScoreOf(sorted, query, finderHits[n]) > 0
           /\ \A k, n \in 1..Len(finderHits) :
                k < n => Better(sorted, query, finderHits[k], finderHits[n])
<1>1. IsTable(sorted) /\ query \in Queries /\ finderHits = Rank(sorted, query)
  BY DEF ViewInv, HitsInv, HitsCurrent
<1>2. /\ finderHits \in Seq(1..Len(sorted))
      /\ \A n \in 1..Len(finderHits) : ScoreOf(sorted, query, finderHits[n]) > 0
      /\ \A k, n \in 1..Len(finderHits) :
           k < n => Better(sorted, query, finderHits[k], finderHits[n])
  BY <1>1, RankFacts
<1>3. DOMAIN finderHits = 1..Len(finderHits) /\ DOMAIN sorted = 1..Len(sorted)
  BY <1>1, <1>2 DEF IsTable
<1>4. \A n \in 1..Len(finderHits) : finderHits[n] \in 1..Len(sorted)
  <2> DEFINE P == 1..Len(sorted)
  <2>1. finderHits \in Seq(P)
    BY <1>2
  <2> HIDE DEF P
  <2>2. \A n \in 1..Len(finderHits) : finderHits[n] \in P
    BY <2>1
  <2> QED
    BY <2>2 DEF P
<1> QED
  BY <1>2, <1>3, <1>4

\* When no scan runs behind the palette every line of it is a row of the table.
\* While one runs this is false: see the run finder_range.
THEOREM HitsAreRows ==
    ASSUME Streaming = FALSE
    PROVE  FinderSpec => []FinderHitsInRange
<1>1. ViewInv /\ HitsInv /\ HitsCurrent => FinderHitsInRange
  BY CurrentHits DEF FinderHitsInRange
<1> QED
  BY <1>1, FinderInvariant, PTL

\* When no scan runs behind the palette it lists matches of the query typed, the
\* best first.
THEOREM HitsAreMatches ==
    ASSUME Streaming = FALSE
    PROVE  FinderSpec => []FinderHitsMatch
<1>1. ViewInv /\ HitsInv /\ HitsCurrent => FinderHitsMatch
  <2> SUFFICES ASSUME ViewInv, HitsInv, HitsCurrent, showFinder, NEW n \in DOMAIN finderHits
               PROVE  /\ Score(query, sorted[finderHits[n]].text) > 0
                      /\ \A k \in 1..(n - 1) :
                           Score(query, sorted[finderHits[n]].text)
                             <= Score(query, sorted[finderHits[k]].text)
    BY DEF FinderHitsMatch
  <2>1. n \in 1..Len(finderHits) /\ Len(finderHits) \in Nat
    BY CurrentHits DEF HitsInv
  <2>2. Score(query, sorted[finderHits[n]].text) > 0
    BY <2>1, CurrentHits DEF ScoreOf
  <2>3. ASSUME NEW k \in 1..(n - 1)
        PROVE  Score(query, sorted[finderHits[n]].text)
                 <= Score(query, sorted[finderHits[k]].text)
    <3>1. k \in 1..Len(finderHits) /\ k < n
      BY <2>1
    <3>2. Better(sorted, query, finderHits[k], finderHits[n])
      BY <2>1, <3>1, CurrentHits
    <3> DEFINE x == Score(query, sorted[finderHits[k]].text)
               y == Score(query, sorted[finderHits[n]].text)
    <3>3. x \in Nat /\ y \in Nat
      <4>1. ASSUME NEW i \in 1..Len(sorted) PROVE Score(query, sorted[i].text) \in Nat
        <5>1. sorted[i] \in Rows
          BY <4>1, TableFacts DEF ViewInv, IsTable
        <5>2. sorted[i].res \in Resource /\ sorted[i].text = searchTextFor(sorted[i].res)
          BY <5>1, RowFacts
        <5> QED
          BY <5>2, FinderAssumption DEF HitsInv
      <4> QED
        BY <2>1, <3>1, <4>1, CurrentHits
    <3>4. x > y \/ x = y
      BY <3>2 DEF Better, ScoreOf
    <3> HIDE DEF x, y
    <3>5. y <= x
      BY <3>3, <3>4
    <3> QED
      BY <3>5 DEF x, y
  <2> QED
    BY <2>2, <2>3
<1> QED
  BY <1>1, FinderInvariant, PTL

\* No two resources without an ARN share their service and id but not the type.
IdsName == \A r, s \in Resource : sameResource(r, s) => resourceKey(r) = resourceKey(s)

\* Enter puts the cursor on the row of the resource whose details it opens,
\* whether or not a scan has changed the table behind the palette.
THEOREM JumpLands ==
    ASSUME IdsName
    PROVE  FinderSpec => []JumpLandsOnRow
<1>1. FinderInit => JumpLandsOnRow
  BY DEF FinderInit, JumpLandsOnRow
<1>2. ViewInv /\ JumpLandsOnRow /\ [FinderNext]_allVars => JumpLandsOnRow'
  <2> SUFFICES ASSUME ViewInv, JumpLandsOnRow, [FinderNext]_allVars PROVE JumpLandsOnRow'
    OBVIOUS
  <2>1. CASE jump' = jump \/ jump' = NoJump
    BY <2>1 DEF JumpLandsOnRow
  <2>2. CASE jumpToResource /\ jump' # jump
    <3> DEFINE res == sorted[finderHits[finderSel]].res
               drops == {i \in DOMAIN sorted : sorted[i].res.svc # res.svc}
               rows == Without(sorted, drops)
               Hit(i) == /\ i \in DOMAIN rows
                         /\ sameResource(rows[i].res, res)
                         /\ \A j \in 1..(i - 1) : ~sameResource(rows[j].res, res)
               hit == CHOOSE i \in DOMAIN rows : Hit(i)
    <3>1. finderHits[finderSel] \in DOMAIN sorted /\ jump' = <<res, rows[hit].res>>
      BY <2>2 DEF jumpToResource
    <3>2. IsTable(sorted) /\ DOMAIN sorted = 1..Len(sorted)
      BY DEF ViewInv, IsTable
    <3>3. IsTable(rows) /\ Entries(rows) = {sorted[i].res : i \in (1..Len(sorted)) \ drops}
      BY <3>2, WithoutTable
    <3>4. /\ res \in Entries(rows) /\ res \in Entries(sorted)
          /\ Entries(rows) \subseteq Entries(sorted)
      BY <3>1, <3>2, <3>3 DEF Entries
    <3> HIDE DEF drops, rows
    <3>5. DOMAIN rows = 1..Len(rows) /\ Len(rows) \in Nat
      BY <3>3, TableFacts DEF IsTable
    <3> HIDE DEF res
    <3>6. \E i \in DOMAIN rows : Hit(i)
      <4> DEFINE H == {i \in 1..Len(rows) : sameResource(rows[i].res, res)}
      <4>1. PICK i \in 1..Len(rows) : rows[i].res = res
        BY <3>4 DEF Entries
      <4>2. i \in H
        BY <4>1 DEF sameResource
      <4>3. PICK x \in H : \A y \in H : x <= y
        <5>1. H \subseteq Nat /\ H # {}
          BY <4>2
        <5> HIDE DEF H
        <5> QED
          BY <5>1, Least
      <4>4. \A j \in 1..(x - 1) : j \in 1..Len(rows) /\ ~(x <= j)
        BY <3>5
      <4> QED
        BY <3>5, <4>3, <4>4
    <3>7. Hit(hit)
      BY <3>6
    <3>8. hit \in 1..Len(rows) /\ sameResource(rows[hit].res, res)
      BY <3>5, <3>7
    <3> HIDE DEF hit
    <3>9. rows[hit].res \in Entries(sorted)
      BY <3>4, <3>8 DEF Entries
    <3>10. rows[hit].res = res
      <4>1. Entries(sorted) \subseteq Resource
        BY <3>2, TableFacts DEF IsTable
      <4>2. resourceKey(rows[hit].res) = resourceKey(res)
        BY <3>4, <3>8, <3>9, <4>1 DEF IdsName
      <4> QED
        BY <3>2, <3>4, <3>9, <4>2 DEF IsTable, Distinct, Entries
    <3> QED
      BY <3>1, <3>10 DEF JumpLandsOnRow
  <2>3. jumpToResource \/ jump' = jump \/ jump' = NoJump
    BY DEF FinderNext, openFinder, TypeQuery, MoveSelection, closeFinder, Update, finderVars,
           allVars
  <2> QED
    BY <2>1, <2>2, <2>3
<1> QED
  BY <1>1, <1>2, FinderKeepsTable, ViewInvariant, PTL DEF FinderSpec

-------------------------------------------------------------------------------
(* The CLI's table. *)

Entered(rs) == {rs[i] : i \in 1..Len(rs)}

\* out describes what the resources E do, one entry for an ARN.
Deduped(out, E) ==
    /\ out \in Seq(Resource)
    /\ \A i \in 1..Len(out) : out[i] \in E
    /\ \A i, j \in 1..Len(out) : out[i].arn = out[j].arn => i = j
    /\ \A r \in E : \E i \in 1..Len(out) : /\ out[i].arn = r.arn
                                           /\ Richness(r) <= Richness(out[i])

LEMMA DedupeStepCases ==
    ASSUME NEW out \in Seq(Resource), NEW r \in Resource
    PROVE  \/ /\ DedupeStep(out, r) = Append(out, r)
              /\ r.arn # NoArn => \A i \in 1..Len(out) : out[i].arn # r.arn
           \/ \E i \in 1..Len(out) :
                /\ out[i].arn = r.arn
                /\ \/ Richness(r) > Richness(out[i]) /\ DedupeStep(out, r) = [out EXCEPT ![i] = r]
                   \/ ~(Richness(r) > Richness(out[i])) /\ DedupeStep(out, r) = out
<1> DEFINE twin == {i \in DOMAIN out : r.arn # NoArn /\ out[i].arn = r.arn}
           idx == CHOOSE i \in twin : TRUE
<1>1. DOMAIN out = 1..Len(out)
  OBVIOUS
<1>2. DedupeStep(out, r) = IF twin = {} THEN Append(out, r)
                           ELSE IF Richness(r) > Richness(out[idx]) THEN [out EXCEPT ![idx] = r]
                           ELSE out
  BY DEF DedupeStep
<1>3. CASE twin = {}
  <2>1. r.arn # NoArn => \A i \in 1..Len(out) : out[i].arn # r.arn
    BY <1>1, <1>3
  <2> HIDE DEF twin
  <2> QED
    BY <1>2, <1>3, <2>1
<1>4. CASE twin # {}
  <2>1. idx \in twin
    BY <1>4
  <2>2. idx \in 1..Len(out) /\ out[idx].arn = r.arn
    BY <1>1, <2>1
  <2> HIDE DEF twin, idx
  <2> QED
    BY <1>2, <1>4, <2>2
<1> QED
  BY <1>3, <1>4

LEMMA DedupeStepType ==
    ASSUME NEW out \in Seq(Resource), NEW r \in Resource
    PROVE  DedupeStep(out, r) \in Seq(Resource)
<1>1. CASE DedupeStep(out, r) = Append(out, r)
  <2>1. Append(out, r) \in Seq(Resource)
    OBVIOUS
  <2> QED
    BY <1>1, <2>1
<1>2. ASSUME NEW i \in 1..Len(out), DedupeStep(out, r) = [out EXCEPT ![i] = r]
      PROVE  DedupeStep(out, r) \in Seq(Resource)
  <2>1. [out EXCEPT ![i] = r] \in Seq(Resource)
    BY ExceptSeq
  <2> QED
    BY <1>2, <2>1
<1> QED
  BY <1>1, <1>2, DedupeStepCases

LEMMA DedupeStepKeeps ==
    ASSUME NEW E \in SUBSET Resource, NEW out, Deduped(out, E),
           NEW r \in Resource, r.arn # NoArn
    PROVE  Deduped(DedupeStep(out, r), E \union {r})
<1>1. /\ out \in Seq(Resource) /\ Len(out) \in Nat
      /\ \A i \in 1..Len(out) : out[i] \in E /\ out[i] \in Resource
      /\ \A i, j \in 1..Len(out) : out[i].arn = out[j].arn => i = j
      /\ \A s \in E : \E i \in 1..Len(out) : /\ out[i].arn = s.arn
                                             /\ Richness(s) <= Richness(out[i])
  BY DEF Deduped
<1>2. \A s \in Resource : Richness(s) \in Nat
  BY ViewAssumption
<1> DEFINE new == DedupeStep(out, r)
<1>3. new \in Seq(Resource)
  BY <1>1, DedupeStepType
<1>4. CASE new = Append(out, r) /\ \A i \in 1..Len(out) : out[i].arn # r.arn
  <2> DEFINE m == Len(out) + 1
  <2>1. Len(new) = m /\ new[m] = r /\ \A i \in 1..Len(out) : new[i] = out[i]
    BY <1>1, <1>4, AppendProperties
  <2>2. m \in 1..m /\ \A i \in 1..m : i \in 1..Len(out) \/ i = m
    BY <1>1
  <2>3. \A i \in 1..Len(out) : i \in 1..m
    BY <1>1
  <2> HIDE DEF new, m
  <2>4. \A i \in 1..m : new[i] \in E \union {r}
    BY <1>1, <2>1, <2>2
  <2>5. \A i, j \in 1..m : new[i].arn = new[j].arn => i = j
    BY <1>1, <1>4, <2>1, <2>2
  <2>6. ASSUME NEW s \in E \union {r}
        PROVE  \E i \in 1..m : new[i].arn = s.arn /\ Richness(s) <= Richness(new[i])
    <3>1. CASE s \in E
      BY <1>1, <2>1, <2>3, <3>1
    <3>2. CASE s = r
      <4>1. Richness(r) <= Richness(r)
        BY <1>2
      <4> QED
        BY <2>1, <2>2, <3>2, <4>1
    <3> QED
      BY <3>1, <3>2
  <2> QED
    BY <1>3, <2>1, <2>4, <2>5, <2>6 DEF Deduped, new
<1>5. ASSUME NEW i \in 1..Len(out), out[i].arn = r.arn,
             Richness(r) > Richness(out[i]), new = [out EXCEPT ![i] = r]
      PROVE  Deduped(new, E \union {r})
  <2>1. Len(new) = Len(out) /\ new[i] = r /\ \A j \in 1..Len(out) : j # i => new[j] = out[j]
    BY <1>1, <1>5, ExceptSeq
  <2> HIDE DEF new
  <2>2. \A j \in 1..Len(out) : new[j] \in E \union {r}
    BY <1>1, <2>1
  <2>3. \A j \in 1..Len(out) : new[j].arn = out[j].arn
    BY <1>5, <2>1
  <2>4. \A j, k \in 1..Len(out) : new[j].arn = new[k].arn => j = k
    BY <1>1, <2>3
  <2>5. ASSUME NEW s \in E \union {r}
        PROVE  \E j \in 1..Len(out) : new[j].arn = s.arn /\ Richness(s) <= Richness(new[j])
    <3>1. CASE s \in E
      <4>1. PICK j \in 1..Len(out) : out[j].arn = s.arn /\ Richness(s) <= Richness(out[j])
        BY <1>1, <3>1
      <4>2. Richness(out[j]) <= Richness(new[j])
        <5>1. CASE j = i
          BY <1>1, <1>2, <1>5, <2>1, <5>1
        <5>2. CASE j # i
          BY <1>1, <1>2, <2>1, <5>2
        <5> QED
          BY <5>1, <5>2
      <4>3. Richness(s) \in Nat /\ Richness(out[j]) \in Nat /\ Richness(new[j]) \in Nat
        BY <1>1, <1>2, <1>3, <2>1, <2>2, <3>1
      <4>4. Richness(s) <= Richness(new[j])
        BY <4>1, <4>2, <4>3
      <4> QED
        BY <2>3, <4>1, <4>4
    <3>2. CASE s = r
      <4>1. Richness(r) <= Richness(r)
        BY <1>2
      <4> QED
        BY <2>1, <3>2, <4>1
    <3> QED
      BY <3>1, <3>2
  <2> QED
    BY <1>3, <2>1, <2>2, <2>4, <2>5 DEF Deduped, new
<1>6. ASSUME NEW i \in 1..Len(out), out[i].arn = r.arn,
             ~(Richness(r) > Richness(out[i])), new = out
      PROVE  Deduped(new, E \union {r})
  <2>1. Richness(r) <= Richness(out[i])
    BY <1>1, <1>2, <1>6
  <2>2. \A s \in E \union {r} : \E j \in 1..Len(out) : /\ out[j].arn = s.arn
                                                       /\ Richness(s) <= Richness(out[j])
    BY <1>1, <1>6, <2>1
  <2> QED
    BY <1>1, <1>6, <2>2 DEF Deduped
<1> HIDE DEF new
<1>7. \/ new = Append(out, r) /\ \A i \in 1..Len(out) : out[i].arn # r.arn
      \/ \E i \in 1..Len(out) :
           /\ out[i].arn = r.arn
           /\ \/ Richness(r) > Richness(out[i]) /\ new = [out EXCEPT ![i] = r]
              \/ ~(Richness(r) > Richness(out[i])) /\ new = out
  BY <1>1, DedupeStepCases DEF new
<1> QED
  BY <1>4, <1>5, <1>6, <1>7 DEF new

LEMMA DedupingDef ==
    ASSUME NEW rs \in Seq(Resource)
    PROVE  /\ Deduping(rs)[0] = <<>>
           /\ \A n \in 1..Len(rs) : Deduping(rs)[n] = DedupeStep(Deduping(rs)[n - 1], rs[n])
<1> DEFINE N == Len(rs)
           A == Seq(Resource)
           P(f) == f = [n \in 0..N |-> IF n = 0 THEN <<>> ELSE DedupeStep(f[n - 1], rs[n])]
           step == [p \in A \X (1..N) |-> DedupeStep(p[1], rs[p[2]])]
<1>1. N \in Nat /\ \A n \in 1..N : rs[n] \in Resource
  OBVIOUS
<1>2. step \in [A \X (1..N) -> A]
  <2> SUFFICES ASSUME NEW p \in A \X (1..N)
               PROVE  DedupeStep(p[1], rs[p[2]]) \in A
    OBVIOUS
  <2>1. p[1] \in A /\ rs[p[2]] \in Resource
    BY <1>1
  <2> QED
    BY <2>1, DedupeStepType
<1>3. <<>> \in A
  OBVIOUS
<1> HIDE DEF A
<1>4. PICK f : IsIteration(f, A, <<>>, N, step)
  <2>1. step \in Steps(A, N)
    BY <1>2 DEF Steps
  <2> HIDE DEF step, N
  <2> QED
    BY <1>1, <1>3, <2>1, Iteration
<1>5. P(f)
  <2>1. \A i \in 1..N : step[<<f[i - 1], i>>] = DedupeStep(f[i - 1], rs[i])
    <3> SUFFICES ASSUME NEW i \in 1..N
                 PROVE  step[<<f[i - 1], i>>] = DedupeStep(f[i - 1], rs[i])
      OBVIOUS
    <3>1. <<f[i - 1], i>> \in A \X (1..N)
      <4>1. i - 1 \in 0..N /\ f \in [0..N -> A]
        BY <1>1, <1>4 DEF IsIteration
      <4> QED
        BY <4>1
    <3> QED
      BY <3>1
  <2>2. \A i \in 0..N : f[i] = IF i = 0 THEN <<>> ELSE DedupeStep(f[i - 1], rs[i])
    <3> HIDE DEF step
    <3> TAKE i \in 0..N
    <3>1. i = 0 \/ i \in 1..N
      BY <1>1
    <3>2. CASE i = 0
      BY <1>4, <3>2 DEF IsIteration
    <3>3. CASE i \in 1..N
      BY <1>1, <1>4, <2>1, <3>3 DEF IsIteration
    <3> QED
      BY <3>1, <3>2, <3>3
  <2> QED
    BY <1>4, <2>2 DEF IsIteration
<1>6. Deduping(rs) = CHOOSE g : P(g)
  BY DEF Deduping
<1> HIDE DEF P, step
<1>7. P(Deduping(rs))
  BY <1>5, <1>6
<1> DEFINE g == Deduping(rs)
           F == [n \in 0..N |-> IF n = 0 THEN <<>> ELSE DedupeStep(g[n - 1], rs[n])]
<1>8. g = F
  BY <1>7 DEF P
<1> HIDE DEF g
<1>9. \A n \in 0..N : F[n] = IF n = 0 THEN <<>> ELSE DedupeStep(g[n - 1], rs[n])
  OBVIOUS
<1> HIDE DEF F
<1>10. g[0] = <<>> /\ \A n \in 1..N : g[n] = DedupeStep(g[n - 1], rs[n])
  BY <1>1, <1>8, <1>9
<1> QED
  BY <1>10 DEF g

Named(rs) == rs \in Seq(Resource) /\ \A i \in 1..Len(rs) : rs[i].arn # NoArn

LEMMA DedupeTable ==
    ASSUME NEW rs, Named(rs)
    PROVE  Deduped(Dedupe(rs), Entered(rs))
<1> DEFINE d == Deduping(rs)
           E(n) == {rs[i] : i \in 1..n}
           S == {n \in Nat : n <= Len(rs) => Deduped(d[n], E(n))}
<1>1. /\ rs \in Seq(Resource) /\ Len(rs) \in Nat
      /\ \A i \in 1..Len(rs) : rs[i] \in Resource /\ rs[i].arn # NoArn
  BY DEF Named
<1>2. d[0] = <<>> /\ \A n \in 1..Len(rs) : d[n] = DedupeStep(d[n - 1], rs[n])
  BY <1>1, DedupingDef
<1> HIDE DEF d
<1>3. 0 \in S
  <2>1. \A i \in 1..0 : FALSE
    OBVIOUS
  <2>2. E(0) = {}
    BY <2>1
  <2>3. <<>> \in Seq(Resource) /\ Len(<<>>) = 0
    OBVIOUS
  <2> HIDE DEF E
  <2>4. Deduped(<<>>, {})
    BY <2>1, <2>3 DEF Deduped
  <2> QED
    BY <1>2, <2>2, <2>4
<1>4. ASSUME NEW n \in Nat, n \in S PROVE n + 1 \in S
  <2> SUFFICES ASSUME n + 1 <= Len(rs) PROVE Deduped(d[n + 1], E(n + 1))
    OBVIOUS
  <2>1. Deduped(d[n], E(n))
    BY <1>1, <1>4
  <2>2. n + 1 \in 1..Len(rs) /\ (n + 1) - 1 = n
    BY <1>1
  <2>3. rs[n + 1] \in Resource /\ rs[n + 1].arn # NoArn
    BY <1>1, <2>2
  <2>4. d[n + 1] = DedupeStep(d[n], rs[n + 1])
    BY <1>2, <2>2
  <2>5. E(n) \in SUBSET Resource
    <3>1. \A i \in 1..n : i \in 1..Len(rs)
      BY <1>1
    <3> QED
      BY <1>1, <3>1
  <2>6. E(n + 1) = E(n) \union {rs[n + 1]}
    <3>1. \A i \in 1..(n + 1) : i \in 1..n \/ i = n + 1
      OBVIOUS
    <3>2. n + 1 \in 1..(n + 1) /\ \A i \in 1..n : i \in 1..(n + 1)
      OBVIOUS
    <3> QED
      BY <3>1, <3>2
  <2> HIDE DEF E
  <2> QED
    BY <2>1, <2>3, <2>4, <2>5, <2>6, DedupeStepKeeps
<1> HIDE DEF S
<1>5. \A n \in Nat : n \in S
  BY <1>3, <1>4, Induction
<1> HIDE DEF E
<1>6. Deduped(d[Len(rs)], E(Len(rs)))
  BY <1>1, <1>5 DEF S
<1> QED
  BY <1>6 DEF d, E, Dedupe, Entered

-------------------------------------------------------------------------------
(* The two presentations. *)

\* The table describes what was received, the richest of each key.
DedupeInv ==
    /\ ViewInv
    /\ Named(received)
    /\ Entries(sorted) \subseteq Entered(received)
    /\ \A r \in Entered(received) : \E x \in Entries(sorted) :
         resourceKey(x) = resourceKey(r) /\ Richness(r) <= Richness(x)

LEMMA DedupeStepView == [DedupeNext]_<<vars, received>> => [Next]_vars
<1> SUFFICES ASSUME DedupeNext PROVE Next
  OBVIOUS
<1> QED
  BY DEF DedupeNext, Receive, Next, Message

LEMMA MergeCovers ==
    ASSUME ViewInv, NEW b \in Batch, mergeResources(b)
    PROVE  Covers(Entries(sorted'), Entered(b))
<1> DEFINE acc == Folding(b)[Len(b)]  E == {b[i] : i \in 1..Len(b)}
<1>1. FoldInv(acc, E) /\ sorted' = Merged(acc) /\ Entries(Merged(acc)) = Cur(acc)
  BY MergeStep
<1> HIDE DEF acc
<1> QED
  BY <1>1 DEF FoldInv, Entered

LEMMA ReceiveKeeps ==
    ASSUME DedupeInv, ViewInv', NEW b \in Batch, Receive(b)
    PROVE  DedupeInv'
<1>1. /\ mergeResources(b) /\ received' = received \o b
      /\ \A i \in DOMAIN b : b[i].arn # NoArn
  BY DEF Receive
<1>2. ViewInv /\ received \in Seq(Resource) /\ \A i \in 1..Len(received) : received[i].arn # NoArn
  BY DEF DedupeInv, Named
<1>3. b \in Seq(Resource) /\ DOMAIN b = 1..Len(b)
  BY BatchFacts
<1>4. /\ received' \in Seq(Resource) /\ Len(received') = Len(received) + Len(b)
      /\ \A i \in 1..Len(received') :
           received'[i] = IF i <= Len(received) THEN received[i] ELSE b[i - Len(received)]
  BY <1>1, <1>2, <1>3, ConcatProperties
<1>5. Len(received) \in Nat /\ Len(b) \in Nat
  BY <1>2, <1>3
<1>6. \A i \in 1..Len(received') :
        i \in 1..Len(received) \/ (~(i <= Len(received)) /\ i - Len(received) \in 1..Len(b))
  BY <1>4, <1>5
<1>7. Named(received')
  <2>1. ASSUME NEW i \in 1..Len(received') PROVE received'[i].arn # NoArn
    <3>1. CASE i \in 1..Len(received)
      <4>1. received'[i] = received[i]
        BY <1>4, <1>5, <3>1
      <4> QED
        BY <1>2, <3>1, <4>1
    <3>2. CASE ~(i <= Len(received)) /\ i - Len(received) \in 1..Len(b)
      <4>1. received'[i] = b[i - Len(received)]
        BY <1>4, <3>2
      <4> QED
        BY <1>1, <1>3, <3>2, <4>1
    <3> QED
      BY <1>6, <3>1, <3>2
  <2> QED
    BY <1>4, <2>1 DEF Named
<1>8. Entered(received') = Entered(received) \union Entered(b)
  <2>1. \A i \in 1..Len(received) : i \in 1..Len(received') /\ received'[i] = received[i]
    BY <1>4, <1>5
  <2>2. \A i \in 1..Len(b) : /\ i + Len(received) \in 1..Len(received')
                             /\ received'[i + Len(received)] = b[i]
    BY <1>4, <1>5
  <2> QED
    <3>1. ASSUME NEW i \in 1..Len(received')
          PROVE  received'[i] \in Entered(received) \union Entered(b)
      <4>1. CASE i \in 1..Len(received)
        BY <2>1, <4>1 DEF Entered
      <4>2. CASE ~(i <= Len(received)) /\ i - Len(received) \in 1..Len(b)
        <5>1. received'[i] = b[i - Len(received)]
          BY <1>4, <4>2
        <5> QED
          BY <4>2, <5>1 DEF Entered
      <4> QED
        BY <1>6, <4>1, <4>2
    <3>2. Entered(received') \subseteq Entered(received) \union Entered(b)
      BY <3>1 DEF Entered
    <3>3. Entered(received) \subseteq Entered(received')
      BY <2>1 DEF Entered
    <3>4. Entered(b) \subseteq Entered(received')
      BY <2>2 DEF Entered
    <3> QED
      BY <3>2, <3>3, <3>4
<1>9. Covers(Entries(sorted'), Entered(b))
  BY <1>1, <1>2, MergeCovers
<1>10. Entries(sorted') \subseteq Entered(received')
  BY <1>8, <1>9 DEF Covers, DedupeInv
<1>11. ASSUME NEW r \in Entered(received')
       PROVE  \E x \in Entries(sorted') :
                resourceKey(x) = resourceKey(r) /\ Richness(r) <= Richness(x)
  <2>1. CASE r \in Entered(b)
    BY <1>9, <2>1 DEF Covers
  <2>2. CASE r \in Entered(received)
    <3>1. PICK y \in Entries(sorted) :
            resourceKey(y) = resourceKey(r) /\ Richness(r) <= Richness(y)
      BY <2>2 DEF DedupeInv
    <3>2. PICK x \in Entries(sorted') :
            resourceKey(x) = resourceKey(y) /\ Richness(y) <= Richness(x)
      BY <1>9 DEF Covers
    <3>3. r \in Resource /\ x \in Resource /\ y \in Resource
      <4>1. Entries(sorted) \subseteq Resource /\ Entries(sorted') \subseteq Resource
        BY TableFacts DEF ViewInv, IsTable, DedupeInv
      <4> QED
        BY <1>2, <2>2, <3>1, <3>2, <4>1 DEF Entered
    <3>4. Richness(r) \in Nat /\ Richness(x) \in Nat /\ Richness(y) \in Nat
      BY <3>3, ViewAssumption
    <3>5. Richness(r) <= Richness(x)
      BY <3>1, <3>2, <3>4
    <3> QED
      BY <3>1, <3>2, <3>5
  <2> QED
    BY <1>8, <2>1, <2>2
<1> QED
  BY <1>7, <1>10, <1>11 DEF DedupeInv

LEMMA DedupeInvariant == DedupeSpec => []DedupeInv
<1>1. DedupeInit => DedupeInv
  <2> SUFFICES ASSUME DedupeInit PROVE DedupeInv
    OBVIOUS
  <2>1. ViewInv
    BY InitView DEF DedupeInit
  <2>2. received = <<>> /\ sorted = <<>>
    BY DEF DedupeInit, Init
  <2>3. Named(received) /\ Entered(received) = {} /\ Entries(sorted) = {}
    <3>1. \A i \in 1..0 : FALSE
      OBVIOUS
    <3>2. <<>> \in Seq(Resource) /\ Len(<<>>) = 0
      OBVIOUS
    <3> QED
      BY <2>2, <3>1, <3>2 DEF Named, Entered, Entries
  <2> QED
    BY <2>1, <2>3 DEF DedupeInv
<1>2. DedupeInv /\ [DedupeNext]_<<vars, received>> => DedupeInv'
  <2> SUFFICES ASSUME DedupeInv, [DedupeNext]_<<vars, received>> PROVE DedupeInv'
    OBVIOUS
  <2>1. ViewInv'
    BY NextView, DedupeStepView DEF DedupeInv
  <2>2. ASSUME NEW b \in Batch, Receive(b) PROVE DedupeInv'
    BY <2>1, <2>2, ReceiveKeeps
  <2>3. CASE restartScan /\ received' = <<>>
    <3>1. sorted' = <<>> /\ received' = <<>>
      BY <2>3 DEF restartScan
    <3>2. Named(received') /\ Entered(received') = {} /\ Entries(sorted') = {}
      <4>1. \A i \in 1..0 : FALSE
        OBVIOUS
      <4>2. <<>> \in Seq(Resource) /\ Len(<<>>) = 0
        OBVIOUS
      <4> QED
        BY <3>1, <4>1, <4>2 DEF Named, Entered, Entries
    <3> QED
      BY <2>1, <3>2 DEF DedupeInv
  <2>4. CASE UNCHANGED <<vars, received>>
    <3>1. sorted' = sorted /\ received' = received
      BY <2>4 DEF vars, dataVars
    <3> QED
      BY <2>1, <3>1 DEF DedupeInv
  <2> QED
    BY <2>2, <2>3, <2>4 DEF DedupeNext
<1> QED
  BY <1>1, <1>2, PTL DEF DedupeSpec

\* For resources that have an ARN the chunks of a scan, merged one by one, leave
\* the Summary TUI as many rows as summary.Dedupe gives the CLI, of the same keys
\* and as rich.
THEOREM TableIsDedupe == DedupeSpec => []SameAsDedupe
<1>1. DedupeInv => SameAsDedupe
  <2> SUFFICES ASSUME DedupeInv PROVE SameAsDedupe
    OBVIOUS
  <2> DEFINE cli == Dedupe(received)
             E == Entered(received)
  <2>1. Deduped(cli, E) /\ IsTable(sorted)
    BY DedupeTable DEF DedupeInv, ViewInv
  <2>2. /\ cli \in Seq(Resource) /\ DOMAIN cli = 1..Len(cli) /\ Len(cli) \in Nat
        /\ DOMAIN sorted = 1..Len(sorted) /\ Len(sorted) \in Nat
    BY <2>1, TableFacts DEF Deduped, IsTable
  <2>3. \A r \in E : r \in Resource /\ r.arn # NoArn
    BY DEF DedupeInv, Named, Entered
  <2>4. \A r, s \in E : resourceKey(r) = resourceKey(s) <=> r.arn = s.arn
    BY <2>3 DEF resourceKey
  <2> HIDE DEF cli, E
  <2>5. \A i \in 1..Len(cli) : cli[i] \in E
    BY <2>1 DEF Deduped
  <2>6. \A j \in 1..Len(sorted) : sorted[j].res \in E
    BY DEF DedupeInv, Entries, E
  <2>7. \A r \in E : \E i \in 1..Len(cli) : /\ resourceKey(cli[i]) = resourceKey(r)
                                            /\ Richness(r) <= Richness(cli[i])
    BY <2>1, <2>4, <2>5 DEF Deduped
  <2>8. \A r \in E : \E j \in 1..Len(sorted) : /\ resourceKey(sorted[j].res) = resourceKey(r)
                                               /\ Richness(r) <= Richness(sorted[j].res)
    BY DEF DedupeInv, Entries, E
  <2>9. \A i, j \in 1..Len(cli) : resourceKey(cli[i]) = resourceKey(cli[j]) => i = j
    BY <2>1, <2>4, <2>5 DEF Deduped
  <2>10. \A i, j \in 1..Len(sorted) :
           resourceKey(sorted[i].res) = resourceKey(sorted[j].res) => i = j
    BY <2>1 DEF IsTable, Distinct
  <2>11. ASSUME NEW i \in 1..Len(cli)
         PROVE  \E j \in 1..Len(sorted) :
                  /\ resourceKey(sorted[j].res) = resourceKey(cli[i])
                  /\ Richness(sorted[j].res) = Richness(cli[i])
    <3>1. PICK j \in 1..Len(sorted) : /\ resourceKey(sorted[j].res) = resourceKey(cli[i])
                                      /\ Richness(cli[i]) <= Richness(sorted[j].res)
      BY <2>5, <2>8
    <3>2. PICK k \in 1..Len(cli) : /\ resourceKey(cli[k]) = resourceKey(sorted[j].res)
                                   /\ Richness(sorted[j].res) <= Richness(cli[k])
      BY <2>6, <2>7
    <3>3. k = i
      BY <2>9, <3>1, <3>2
    <3>4. Richness(cli[i]) \in Nat /\ Richness(sorted[j].res) \in Nat
      BY <2>3, <2>5, <2>6, ViewAssumption
    <3> QED
      BY <3>1, <3>2, <3>3, <3>4
  <2>12. Len(sorted) = Len(cli)
    <3> DEFINE f == [i \in 1..Len(cli) |->
                       CHOOSE j \in 1..Len(sorted) :
                         resourceKey(sorted[j].res) = resourceKey(cli[i])]
    <3>1. \A i \in 1..Len(cli) : /\ f[i] \in 1..Len(sorted)
                                 /\ resourceKey(sorted[f[i]].res) = resourceKey(cli[i])
      BY <2>11
    <3>2. f \in [1..Len(cli) -> 1..Len(sorted)]
      BY <3>1
    <3> HIDE DEF f
    <3>3. \A i, j \in 1..Len(cli) : f[i] = f[j] => i = j
      BY <2>9, <3>1
    <3>4. \A j \in 1..Len(sorted) : \E i \in 1..Len(cli) : f[i] = j
      <4> TAKE j \in 1..Len(sorted)
      <4>1. PICK i \in 1..Len(cli) : resourceKey(cli[i]) = resourceKey(sorted[j].res)
        BY <2>6, <2>7
      <4>2. f[i] \in 1..Len(sorted) /\ resourceKey(sorted[f[i]].res) = resourceKey(cli[i])
        BY <3>1
      <4>3. f[i] = j
        BY <2>10, <4>1, <4>2
      <4> QED
        BY <4>3
    <3> DEFINE m == Len(cli)  n == Len(sorted)
    <3>5. f \in Bijection(1..m, 1..n)
      BY <3>2, <3>3, <3>4 DEF Bijection, Injection, Surjection, IsInjective
    <3>6. m \in Nat /\ n \in Nat
      BY <2>2
    <3> HIDE DEF m, n
    <3>7. /\ IsFiniteSet(1..m) /\ Cardinality(1..m) = m /\ Cardinality(1..n) = n
      BY <3>6, FS_Interval
    <3>8. Cardinality(1..m) = Cardinality(1..n)
      BY <3>5, <3>7, FS_Bijection DEF ExistsBijection
    <3> QED
      BY <3>7, <3>8 DEF m, n
  <2> QED
    BY <2>2, <2>11, <2>12 DEF SameAsDedupe, cli
<1> QED
  BY <1>1, DedupeInvariant, PTL

\* Every chunk is merged as Inventory says, so that a state the table shows is not
\* older than the last one reported as fully.
THEOREM MergesAreRichest == DedupeSpec => RichestThenNewest
<1>1. ASSUME DedupeInv, [DedupeNext]_<<vars, received>>, Len(received') > Len(received)
      PROVE  Map!Merges(SubSeq(received', Len(received) + 1, Len(received')),
                        {sorted'[i].res : i \in DOMAIN sorted'})
  <2>1. received \in Seq(Resource) /\ Len(received) \in Nat /\ ViewInv
    <3>1. received \in Seq(Resource) /\ ViewInv
      BY <1>1 DEF DedupeInv, Named
    <3> QED
      BY <3>1
  <2>2. PICK b \in Batch : Receive(b)
    <3>1. CASE restartScan /\ received' = <<>>
      BY <1>1, <2>1, <3>1
    <3>2. CASE UNCHANGED <<vars, received>>
      BY <1>1, <2>1, <3>2
    <3> QED
      BY <1>1, <3>1, <3>2 DEF DedupeNext
  <2>3. b \in Seq(Resource) /\ Len(b) \in Nat
    BY BatchFacts
  <2>4. SubSeq(received', Len(received) + 1, Len(received')) = b
    <3> DEFINE s == SubSeq(received', Len(received) + 1, Len(received'))
    <3>1. received' = received \o b
      BY <2>2 DEF Receive
    <3>2. Len(received') = Len(received) + Len(b) /\ received' \in Seq(Resource)
      BY <2>1, <2>3, <3>1
    <3>3. s \in Seq(Resource) /\ Len(s) = Len(b)
      BY <2>1, <2>3, <3>2
    <3>4. \A i \in 1..Len(b) : s[i] = b[i]
      BY <2>1, <2>3, <3>1, <3>2
    <3> HIDE DEF s
    <3>5. \A i \in 1..Len(s) : s[i] = b[i]
      BY <3>3, <3>4
    <3>6. s = b
      BY <2>3, <3>3, <3>5, SeqEqual
    <3> QED
      BY <3>6 DEF s
  <2>5. Map!Merge(b)
    BY <2>1, <2>2, MapMerge DEF Receive
  <2> QED
    BY <2>4, <2>5 DEF Map!Merge
<1>2. DedupeInv /\ [DedupeNext]_<<vars, received>>
        => [Len(received') > Len(received) =>
              LET b == SubSeq(received', Len(received) + 1, Len(received'))
              IN  Map!Merges(b, {sorted'[i].res : i \in DOMAIN sorted'})]_<<vars, received>>
  BY <1>1
<1> QED
  BY <1>2, DedupeInvariant, PTL DEF DedupeSpec, RichestThenNewest
===============================================================================
