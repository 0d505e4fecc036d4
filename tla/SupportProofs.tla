--------------------------- MODULE SupportProofs ---------------------------
(***************************************************************************)
(* Proofs about the two modules the output writer is built on: the         *)
(* statistics of -c count exactly and sort in one order, for counters of   *)
(* any width, any catalogue and any clock; and the growable buffer stays   *)
(* within its block and keeps what was appended, for every width of size_t *)
(* and every initial capacity.                                             *)
(***************************************************************************)
EXTENDS Stats, Buffer, WellFoundedInduction, SequenceTheorems, TLAPS

-----------------------------------------------------------------------------
(* Statistics *)

Counter  == 0..UINT64_MAX
RowSet   == [number : Numbers, calls : Counter, errors : Counter, nanoseconds : Counter]
TotalSet == [calls : Counter, errors : Counter, nanoseconds : Counter]

StatsInv == /\ rows \in Seq(RowSet) /\ total \in TotalSet
            /\ TotalsTrue

(* The time from c to d. *)
Between(c, d) == (d[1] - c[1]) * Second + d[2] - c[2]

-----------------------------------------------------------------------------
(* Every non-empty set of naturals has a least element. *)
LEMMA LeastElement ==
  ASSUME NEW K \in SUBSET Nat, K # {}
  PROVE  \E m \in K : \A j \in K : m <= j
<1> DEFINE R == OpToRel(<, Nat)
<1>1. IsWellFoundedOn(R, Nat)
  BY NatLessThanWellFounded
<1>2. PICK m \in K : \A j \in K : <<j, m>> \notin R
  <2> HIDE DEF R
  <2> QED BY <1>1, WFMin
<1>3. \A j \in K : ~(j < m)
  BY <1>2 DEF OpToRel
<1> QED BY <1>3

(* The sums of the first terms of a column exist. *)
LEMMA PrefixSums ==
  ASSUME NEW c \in Seq(Int)
  PROVE  \E f \in [0..Len(c) -> Int] :
           /\ Sum(c) = f[Len(c)] /\ f[0] = 0
           /\ \A n \in 1..Len(c) : f[n] = f[n - 1] + c[n]
<1> DEFINE F(f, k) == f = [n \in 0..k |-> IF n = 0 THEN 0 ELSE f[n - 1] + c[n]]
           Good(k) == \E f \in [0..k -> Int] : F(f, k)
           Bad     == {k \in 0..Len(c) : ~Good(k)}
           sum     == CHOOSE f : F(f, Len(c))
<1>0. Len(c) \in Nat /\ \A n \in 1..Len(c) : c[n] \in Int
  OBVIOUS
<1>1. Bad = {}
  <2> SUFFICES ASSUME Bad # {} PROVE FALSE
    OBVIOUS
  <2>1. Bad \in SUBSET Nat
    BY <1>0
  <2>2. PICK m \in Bad : \A j \in Bad : m <= j
    <3> HIDE DEF Bad
    <3> QED BY <2>1, LeastElement
  <2>3. CASE m = 0
    <3>1. F([n \in 0..0 |-> 0], 0)
      OBVIOUS
    <3>2. [n \in 0..0 |-> 0] \in [0..0 -> Int]
      OBVIOUS
    <3> QED BY <2>2, <2>3, <3>1, <3>2
  <2>4. CASE m # 0
    <3>a. m \in 0..Len(c)
      OBVIOUS
    <3>b. m \in 1..Len(c) /\ m - 1 \in 0..Len(c) /\ ~(m <= m - 1)
      BY <1>0, <3>a, <2>4
    <3>1. m \in 1..Len(c) /\ m - 1 \in 0..Len(c) /\ m - 1 \notin Bad
      <4> HIDE DEF Bad
      <4> QED BY <3>b, <2>2
    <3>2. PICK f \in [0..(m-1) -> Int] : F(f, m - 1)
      BY <3>1
    <3> DEFINE g == [n \in 0..m |-> IF n = m THEN f[m - 1] + c[m] ELSE f[n]]
    <3>c. \A n \in 0..(m-1) : f[n] = IF n = 0 THEN 0 ELSE f[n - 1] + c[n]
      BY <3>2
    <3>d. f[0] = 0 /\ \A n \in 1..(m-1) : f[n] = f[n - 1] + c[n]
      BY <3>b, <3>c, SMTT(30)
    <3>e. c[m] \in Int /\ f[m - 1] \in Int /\ \A n \in 0..m : n # m => f[n] \in Int
      BY <1>0, <3>b
    <3>3. g \in [0..m -> Int] /\ f[0] = 0 /\ \A n \in 1..(m-1) : f[n] = f[n - 1] + c[n]
      BY <3>d, <3>e
    <3>4. \A n \in 0..m : g[n] = IF n = 0 THEN 0 ELSE g[n - 1] + c[n]
      BY <3>1, <3>3, SMTT(30)
    <3>5. F(g, m)
      BY <3>3, <3>4
    <3> QED BY <2>2, <3>3, <3>5
  <2> QED BY <2>3, <2>4
<1>2. PICK f \in [0..Len(c) -> Int] : F(f, Len(c))
  BY <1>0, <1>1
<1>3. F(sum, Len(c))
  BY <1>2
<1>4. Sum(c) = sum[Len(c)]
  BY DEF Sum
<1> HIDE DEF sum
<1>5. sum[0] = 0 /\ \A n \in 1..Len(c) : sum[n] = sum[n - 1] + c[n]
  BY <1>0, <1>3, SMTT(30)
<1>6. \A n \in 0..Len(c) : sum[n] = f[n]
  <2> DEFINE Off == {n \in 0..Len(c) : sum[n] # f[n]}
  <2> SUFFICES ASSUME Off # {} PROVE FALSE
    OBVIOUS
  <2>1. Off \in SUBSET Nat
    BY <1>0
  <2>2. PICK m \in Off : \A j \in Off : m <= j
    <3> HIDE DEF Off
    <3> QED BY <2>1, LeastElement
  <2>3. f[0] = 0 /\ \A n \in 1..Len(c) : f[n] = f[n - 1] + c[n]
    BY <1>0, <1>2, SMTT(30)
  <2>4. m \in 1..Len(c)
    BY <1>0, <1>5, <2>2, <2>3
  <2>5. m - 1 \notin Off
    BY <2>2, <2>4
  <2> QED BY <1>0, <1>5, <2>2, <2>3, <2>4, <2>5
<1>7. f[0] = 0 /\ Sum(c) = f[Len(c)] /\ \A n \in 1..Len(c) : f[n] = f[n - 1] + c[n]
  <2>1. \A n \in 1..Len(c) : n \in 0..Len(c) /\ n - 1 \in 0..Len(c)
    BY <1>0
  <2>2. 0 \in 0..Len(c) /\ Len(c) \in 0..Len(c)
    BY <1>0
  <2> QED BY <1>4, <1>5, <1>6, <2>1, <2>2
<1> QED
  BY <1>7

(* f holds the sums of the first terms of c, up to the N-th. *)
Prefixes(f, c, N) == /\ f[0] = 0 /\ \A n \in 0..N : f[n] \in Int
                     /\ \A n \in 1..N : f[n] = f[n - 1] + c[n]

(* The terms of d are those of c, but for x more in the i-th. *)
MoreAt(i, x, c, d, N) ==
  \A n \in 1..N : c[n] \in Int /\ d[n] = c[n] + IF n = i THEN x ELSE 0

LEMMA PrefixesDiffer ==
  ASSUME NEW N \in Nat, NEW i \in Nat \ {0}, NEW x \in Int, NEW c, NEW d,
         NEW f, NEW g, Prefixes(f, c, N), Prefixes(g, d, N), MoreAt(i, x, c, d, N)
  PROVE  g[N] = f[N] + IF N >= i THEN x ELSE 0
<1> USE DEF Prefixes, MoreAt
<1> DEFINE Off == {n \in 0..N : g[n] # f[n] + IF n >= i THEN x ELSE 0}
<1> SUFFICES ASSUME Off # {} PROVE FALSE
  OBVIOUS
<1>1. Off \in SUBSET Nat
  OBVIOUS
<1>2. PICK m \in Off : \A j \in Off : m <= j
  <2> HIDE DEF Off
  <2> QED BY <1>1, LeastElement
<1>3. m \in 1..N /\ m - 1 \in 0..N
  OBVIOUS
<1>4. m - 1 \notin Off
  <2> HIDE DEF Off
  <2> QED BY <1>2, <1>3
<1>5. g[m - 1] = f[m - 1] + IF m - 1 >= i THEN x ELSE 0
  BY <1>3, <1>4
<1>6. /\ f[m] = f[m - 1] + c[m] /\ g[m] = g[m - 1] + d[m]
      /\ f[m] \in Int /\ g[m] \in Int /\ f[m - 1] \in Int /\ g[m - 1] \in Int
      /\ c[m] \in Int /\ d[m] = c[m] + IF m = i THEN x ELSE 0
  BY <1>3
<1>7. g[m] # f[m] + IF m >= i THEN x ELSE 0
  OBVIOUS
<1> HIDE DEF Off
<1> QED
  BY <1>3, <1>5, <1>6, <1>7

SameUpTo(c, d, N) == \A n \in 1..N : c[n] \in Int /\ d[n] = c[n]

LEMMA PrefixesAgree ==
  ASSUME NEW N \in Nat, NEW c, NEW d, NEW f, NEW g, Prefixes(f, c, N), Prefixes(g, d, N),
         SameUpTo(c, d, N)
  PROVE  g[N] = f[N]
<1>1. PICK i \in Nat \ {0}, x \in Int : i = 1 /\ x = 0
  OBVIOUS
<1>2. MoreAt(i, x, c, d, N)
  BY <1>1 DEF MoreAt, SameUpTo
<1>3. g[N] = f[N] + IF N >= i THEN x ELSE 0
  BY SMTT(60), <1>2, PrefixesDiffer
<1>4. f[N] \in Int
  BY DEF Prefixes
<1> QED
  BY <1>1, <1>3, <1>4

LEMMA SumGrows ==
  ASSUME NEW c \in Seq(Int), NEW d \in Seq(Int), Len(d) = Len(c),
         NEW i \in 1..Len(c), NEW x \in Int, d[i] = c[i] + x,
         \A j \in 1..Len(c) \ {i} : d[j] = c[j]
  PROVE  Sum(d) = Sum(c) + x
<1>0. Len(c) \in Nat /\ \A n \in 1..Len(c) : c[n] \in Int /\ d[n] \in Int
  OBVIOUS
<1>1. PICK f \in [0..Len(c) -> Int] : /\ Sum(c) = f[Len(c)] /\ f[0] = 0
                                      /\ \A n \in 1..Len(c) : f[n] = f[n - 1] + c[n]
  BY PrefixSums
<1>2. PICK g \in [0..Len(d) -> Int] : /\ Sum(d) = g[Len(d)] /\ g[0] = 0
                                      /\ \A n \in 1..Len(d) : g[n] = g[n - 1] + d[n]
  BY PrefixSums
<1>3. g[Len(c)] = f[Len(c)] + IF Len(c) >= i THEN x ELSE 0
  <2>1. \A n \in 0..Len(c) : f[n] \in Int /\ g[n] \in Int
    OBVIOUS
  <2>2. \A n \in 1..Len(c) : c[n] \in Int /\ d[n] = c[n] + IF n = i THEN x ELSE 0
    BY <1>0, SMTT(30)
  <2>3. i \in Nat \ {0}
    BY <1>0
  <2>4. \A n \in 1..Len(c) : f[n] = f[n - 1] + c[n] /\ g[n] = g[n - 1] + d[n]
    BY <1>1, <1>2
  <2>5. f[0] = 0 /\ g[0] = 0
    BY <1>1, <1>2
  <2> DEFINE N == Len(c)
  <2>6. /\ N \in Nat /\ Prefixes(f, c, N) /\ Prefixes(g, d, N) /\ MoreAt(i, x, c, d, N)
    BY <1>0, <2>1, <2>2, <2>4, <2>5 DEF Prefixes, MoreAt
  <2> HIDE DEF N
  <2>7. g[N] = f[N] + IF N >= i THEN x ELSE 0
    BY SMTT(60), <2>3, <2>6, PrefixesDiffer
  <2> QED BY <2>7 DEF N
<1>4. Len(c) >= i
  BY <1>0
<1> QED
  BY <1>1, <1>2, <1>3, <1>4

LEMMA SumZero ==
  ASSUME NEW c \in Seq(Int), NEW d \in Seq(Int), Len(d) = Len(c) + 1, d[Len(d)] = 0,
         \A j \in 1..Len(c) : d[j] = c[j]
  PROVE  Sum(d) = Sum(c)
<1>0. Len(c) \in Nat /\ \A n \in 1..Len(c) : c[n] \in Int /\ d[n] \in Int
  OBVIOUS
<1>1. PICK f \in [0..Len(c) -> Int] : /\ Sum(c) = f[Len(c)] /\ f[0] = 0
                                      /\ \A n \in 1..Len(c) : f[n] = f[n - 1] + c[n]
  BY PrefixSums
<1>2. PICK g \in [0..Len(d) -> Int] : /\ Sum(d) = g[Len(d)] /\ g[0] = 0
                                      /\ \A n \in 1..Len(d) : g[n] = g[n - 1] + d[n]
  BY PrefixSums
<1>3. g[Len(c)] = f[Len(c)]
  <2> DEFINE N == Len(c)
  <2>1. \A n \in 0..N : f[n] \in Int /\ g[n] \in Int
    BY <1>0, SMTT(30)
  <2>2. SameUpTo(c, d, N)
    BY <1>0 DEF SameUpTo
  <2>3. \A n \in 1..N : f[n] = f[n - 1] + c[n] /\ g[n] = g[n - 1] + d[n]
    BY <1>0, <1>1, <1>2
  <2>4. f[0] = 0 /\ g[0] = 0
    BY <1>1, <1>2
  <2>5. N \in Nat /\ Prefixes(f, c, N) /\ Prefixes(g, d, N)
    BY <1>0, <2>1, <2>3, <2>4 DEF Prefixes
  <2> HIDE DEF N
  <2>6. g[N] = f[N]
    BY <2>2, <2>5, PrefixesAgree
  <2> QED BY <2>6 DEF N
<1>4. g[Len(d)] = g[Len(c)] + 0 /\ g[Len(c)] \in Int
  <2>1. Len(d) \in 1..Len(d) /\ Len(d) - 1 = Len(c) /\ Len(c) \in 0..Len(d)
    BY <1>0
  <2>2. g[Len(d)] = g[Len(d) - 1] + d[Len(d)]
    BY <1>2, <2>1
  <2>3. g[Len(c)] \in Int
    BY <2>1
  <2> QED BY <2>1, <2>2, <2>3
<1> QED
  BY <1>1, <1>2, <1>3, <1>4

(* m is c, perhaps with a zero after it; d is m with x more in place i. *)
PerhapsZero(c, m) ==
  m = c \/ (Len(m) = Len(c) + 1 /\ m[Len(m)] = 0 /\ \A j \in 1..Len(c) : m[j] = c[j])

GrownAt(i, x, m, d) == /\ Len(d) = Len(m) /\ d[i] = m[i] + x
                       /\ \A j \in 1..Len(m) \ {i} : d[j] = m[j]

LEMMA ColumnGrows ==
  ASSUME NEW c \in Seq(Int), NEW m \in Seq(Int), NEW d \in Seq(Int), NEW x \in Int,
         NEW i \in 1..Len(m), PerhapsZero(c, m), GrownAt(i, x, m, d)
  PROVE  Sum(d) = Sum(c) + x
<1>1. Sum(m) = Sum(c)
  BY SumZero DEF PerhapsZero
<1>2. Sum(d) = Sum(m) + x
  BY SumGrows DEF GrownAt
<1> QED
  BY <1>1, <1>2

-----------------------------------------------------------------------------
LEMMA Monotone ==
  ASSUME NEW a \in Int, NEW b \in Int, NEW k \in Nat, a <= b
  PROVE  a * k <= b * k
OBVIOUS

(* The borrow makes the difference of two times exact, and what does not   *)
(* fit into a counter is refused.                                          *)
LEMMA ElapsedExact ==
  ASSUME NEW e \in Event
  PROVE  LET ns == Between(e.entered, e.exited)
         IN  elapsed_nanoseconds(e) = Refused \/ elapsed_nanoseconds(e) = IF ns < 0 THEN 0 ELSE ns
<1> DEFINE s  == e.exited[1] - e.entered[1]
           n  == e.exited[2] - e.entered[2]
           s1 == IF n < 0 THEN s - 1 ELSE s
           n1 == IF n < 0 THEN n + Second ELSE n
           q  == UINT64_MAX \div Second
           ns == Between(e.entered, e.exited)
<1>1. /\ e.exited \in Clock /\ e.entered \in Clock /\ Second \in Nat \ {0} /\ UINT64_MAX \in Nat
  BY StatsAssumption DEF Event
<1>2. /\ e.exited[1] \in Int /\ e.entered[1] \in Int
      /\ e.exited[2] \in 0..Second-1 /\ e.entered[2] \in 0..Second-1
  BY <1>1, StatsAssumption
<1>3. ns <= UINT64_MAX \/ ns >= (q + 1) * Second
  BY <1>1, StatsAssumption DEF Between
<1>4. elapsed_nanoseconds(e) = IF s < 0 \/ (s = 0 /\ n < 0) THEN 0
                               ELSE IF s1 > q THEN Refused
                               ELSE (s1 * Second + n1) % (UINT64_MAX + 1)
  BY DEF elapsed_nanoseconds
<1>5. ns = s * Second + n
  BY <1>1, <1>2 DEF Between
<1>6. s \in Int /\ n \in Int /\ n < Second /\ -Second < n /\ q \in Int
  BY <1>1, <1>2
<1> HIDE DEF s, n, q, ns
<1>7. /\ s1 \in Int /\ n1 \in 0..(Second - 1)
      /\ s * Second + n = s1 * Second + n1
  BY <1>1, <1>6
<1> HIDE DEF s1, n1
<1>8. CASE s < 0 \/ (s = 0 /\ n < 0)
  <2>1. s < 0 => s * Second <= (-1) * Second
    BY <1>1, <1>6, Monotone
  <2>2. ns < 0
    BY <1>1, <1>5, <1>6, <1>8, <2>1
  <2> QED
    BY <1>4, <1>8, <2>2 DEF ns
<1>9. CASE ~(s < 0 \/ (s = 0 /\ n < 0)) /\ s1 <= q
  <2>1. s >= 1 => s * Second >= 1 * Second
    BY <1>1, <1>6, Monotone
  <2>2. ns >= 0
    BY <1>1, <1>5, <1>6, <1>9, <2>1
  <2>3. s1 * Second <= q * Second
    BY <1>1, <1>6, <1>7, <1>9, Monotone
  <2>4. (q + 1) * Second = q * Second + Second
    BY <1>1, <1>6
  <2>5. ns < (q + 1) * Second
    BY <1>1, <1>5, <1>6, <1>7, <2>3, <2>4
  <2>6. ns \in 0..UINT64_MAX
    BY <1>1, <1>3, <1>5, <1>6, <2>2, <2>5
  <2>7. ns % (UINT64_MAX + 1) = ns
    BY <1>1, <2>6
  <2> QED
    BY <1>4, <1>5, <1>7, <1>9, <2>2, <2>6, <2>7 DEF ns
<1> QED
  BY <1>4, <1>6, <1>7, <1>8, <1>9

LEMMA ElapsedType ==
  ASSUME NEW e \in Event
  PROVE  elapsed_nanoseconds(e) \in Nat \cup {Refused}
<1>1. Between(e.entered, e.exited) \in Int
  BY StatsAssumption DEF Event, Between
<1> QED
  BY <1>1, ElapsedExact

(* A counter record that has room counts on without wrapping. *)
LEMMA AddExact ==
  ASSUME NEW x, NEW ns \in Nat, NEW error \in BOOLEAN,
         x.calls \in Counter, x.errors \in Counter, x.nanoseconds \in Counter,
         HasRoom(x, ns, error)
  PROVE  /\ (x.calls + 1) % (UINT64_MAX + 1) = x.calls + 1
         /\ (x.errors + IF error THEN 1 ELSE 0) % (UINT64_MAX + 1)
              = x.errors + IF error THEN 1 ELSE 0
         /\ (x.nanoseconds + ns) % (UINT64_MAX + 1) = x.nanoseconds + ns
         /\ x.calls + 1 \in Counter /\ x.nanoseconds + ns \in Counter
         /\ (x.errors + IF error THEN 1 ELSE 0) \in Counter
<1>1. UINT64_MAX \in Nat
  BY StatsAssumption
<1>2. ASSUME NEW k \in Int, 0 <= k, k <= UINT64_MAX
      PROVE  k % (UINT64_MAX + 1) = k /\ k \in Counter
  BY <1>1, <1>2 DEF Counter
<1>3. x.calls + 1 <= UINT64_MAX /\ 0 <= x.calls + 1 /\ x.calls + 1 \in Int
  BY <1>1 DEF HasRoom, Counter
<1>4. x.nanoseconds + ns <= UINT64_MAX /\ 0 <= x.nanoseconds + ns /\ x.nanoseconds + ns \in Int
  BY <1>1 DEF HasRoom, Counter
<1> DEFINE k == x.errors + IF error THEN 1 ELSE 0
<1>5. k <= UINT64_MAX /\ 0 <= k /\ k \in Int
  BY <1>1 DEF HasRoom, Counter
<1> HIDE DEF k
<1>6. k % (UINT64_MAX + 1) = k /\ k \in Counter
  BY <1>2, <1>5
<1>7. /\ (x.calls + 1) % (UINT64_MAX + 1) = x.calls + 1 /\ x.calls + 1 \in Counter
      /\ (x.nanoseconds + ns) % (UINT64_MAX + 1) = x.nanoseconds + ns
      /\ x.nanoseconds + ns \in Counter
  BY <1>2, <1>3, <1>4
<1> QED
  BY <1>6, <1>7 DEF k

-----------------------------------------------------------------------------
LEMMA InvInit ==
  ASSUME Init
  PROVE  StatsInv
<1>1. rows = << >> /\ Len(rows) = 0 /\ total = Total0 /\ truth = Total0 /\ UINT64_MAX \in Nat
  BY StatsAssumption DEF Init
<1>2. PICK c \in Seq(Int) : c = << >> /\ Len(c) = 0
  <2>1. << >> \in Seq(Int) /\ Len(<< >>) = 0
    OBVIOUS
  <2> QED BY <2>1
<1>3. Sum(c) = 0
  BY <1>2, PrefixSums
<1>4. /\ [i \in 1..Len(rows) |-> rows[i].calls] = c
      /\ [i \in 1..Len(rows) |-> rows[i].errors] = c
      /\ [i \in 1..Len(rows) |-> rows[i].nanoseconds] = c
  BY <1>1, <1>2
<1>5. SumsUp
  BY <1>1, <1>3, <1>4 DEF SumsUp, Total0
<1> QED
  BY <1>1, <1>5 DEF StatsInv, Total0, TotalSet, Counter, TotalsTrue, TotalsExact, RowsDistinct

(* The columns of the rows are sequences of numbers. *)
LEMMA ColumnType ==
  ASSUME NEW s \in Seq(RowSet)
  PROVE  /\ [j \in 1..Len(s) |-> s[j].calls] \in Seq(Int)
         /\ [j \in 1..Len(s) |-> s[j].errors] \in Seq(Int)
         /\ [j \in 1..Len(s) |-> s[j].nanoseconds] \in Seq(Int)
<1>1. UINT64_MAX \in Nat
  BY StatsAssumption
<1>2. Len(s) \in Nat /\ \A j \in 1..Len(s) : s[j] \in RowSet
  OBVIOUS
<1>3. \A j \in 1..Len(s) : s[j].calls \in Int /\ s[j].errors \in Int /\ s[j].nanoseconds \in Int
  BY <1>1, <1>2 DEF RowSet, Counter
<1> QED
  BY <1>2, <1>3

LEMMA RowUpdated ==
  ASSUME NEW x, NEW n, NEW a, NEW b, NEW c, NEW p, NEW q, NEW s,
         x = [number |-> n, calls |-> a, errors |-> b, nanoseconds |-> c]
  PROVE  [x EXCEPT !.calls = p, !.errors = q, !.nanoseconds = s]
           = [number |-> n, calls |-> p, errors |-> q, nanoseconds |-> s]
<1> DEFINE y == [x EXCEPT !.calls = p]
           z == [y EXCEPT !.errors = q]
<1>1. y = [number |-> n, calls |-> p, errors |-> b, nanoseconds |-> c]
  OBVIOUS
<1> HIDE DEF y
<1>2. z = [number |-> n, calls |-> p, errors |-> q, nanoseconds |-> c]
  BY <1>1
<1> HIDE DEF z
<1>3. [z EXCEPT !.nanoseconds = s] = [number |-> n, calls |-> p, errors |-> q, nanoseconds |-> s]
  BY <1>2
<1> QED
  BY <1>3 DEF y, z

(* A call that is refused changes nothing; above all, it leaves no row     *)
(* without calls behind: where the totals have room, a new row has.        *)
LEMMA RecordKeeps ==
  ASSUME StatsInv, NEW e \in Event, Record(e)
  PROVE  StatsInv'
<1> DEFINE ns == elapsed_nanoseconds(e)
           i  == RowOf(e.number)
           r  == WithRow(e.number)
           err == IF e.error THEN 1 ELSE 0
           checked == e.completed /\ ns # Refused /\ HasRoom(total, ns, e.error)
           fits    == Len(r) <= MaxRows
           d  == Between(e.entered, e.exited)
           room == HasRoom(r[i], ns, e.error)
           added == Add(r[i], ns, e.error)
<1>1. /\ ok' = (checked /\ fits /\ room)
      /\ rows' = IF ok' THEN [r EXCEPT ![i] = Add(@, ns, e.error)]
                 ELSE IF checked /\ fits THEN r ELSE rows
      /\ total' = IF ok' THEN Add(total, ns, e.error) ELSE total
      /\ truth' = IF ~ok' THEN truth
                  ELSE [calls |-> truth.calls + 1, errors |-> truth.errors + err,
                        nanoseconds |-> truth.nanoseconds + IF d < 0 THEN 0 ELSE d]
  BY DEF Record, Between
<1>2. /\ e.number \in Numbers /\ e.error \in BOOLEAN /\ ns \in Nat \cup {Refused}
      /\ ns = Refused \/ ns = IF d < 0 THEN 0 ELSE d
  BY ElapsedType, ElapsedExact DEF Event
<1>3. /\ rows \in Seq(RowSet) /\ total \in TotalSet /\ total = truth /\ RowsDistinct
      /\ SumsUp /\ UINT64_MAX \in Nat
  BY StatsAssumption DEF StatsInv, TotalsTrue, TotalsExact
<1>4. Zero(e.number) \in RowSet /\ Zero(e.number).calls = 0 /\ Zero(e.number).errors = 0
      /\ Zero(e.number).nanoseconds = 0 /\ Zero(e.number).number = e.number
  BY <1>2, <1>3 DEF Zero, RowSet, Counter
<1>5. /\ r \in Seq(RowSet) /\ i \in 1..Len(r) /\ r[i].number = e.number
      /\ \A j, k \in 1..Len(r) : r[j].number = r[k].number => j = k
      /\ \A j \in 1..Len(r) \ {i} : r[j].calls > 0
      /\ \/ r = rows
         \/ /\ i = Len(r) /\ Len(r) = Len(rows) + 1 /\ r[i] = Zero(e.number)
            /\ \A j \in 1..Len(rows) : r[j] = rows[j]
  <2>1. CASE find_row(e.number) = {}
    <3>1. r = Append(rows, Zero(e.number)) /\ i = Len(rows) + 1
      BY <2>1 DEF RowOf, WithRow
    <3>2. \A j \in 1..Len(rows) : rows[j].number # e.number
      BY <2>1 DEF find_row
    <3> HIDE DEF r, i
    <3>3. /\ r \in Seq(RowSet) /\ Len(r) = Len(rows) + 1 /\ i \in 1..Len(r)
          /\ r[i] = Zero(e.number) /\ \A j \in 1..Len(rows) : r[j] = rows[j]
      BY <1>3, <1>4, <3>1
    <3>4. \A j \in 1..Len(r) : j = i \/ j \in 1..Len(rows)
      BY <1>3, <3>1, <3>3
    <3>5. \A j, k \in 1..Len(r) : r[j].number = r[k].number => j = k
      BY <1>3, <1>4, <3>2, <3>3, <3>4 DEF RowsDistinct
    <3> QED
      BY <1>3, <1>4, <3>3, <3>4, <3>5 DEF RowsDistinct
  <2>2. CASE find_row(e.number) # {}
    <3>1. r = rows /\ i = CHOOSE k \in find_row(e.number) : TRUE
      BY <2>2 DEF RowOf, WithRow
    <3>2. i \in find_row(e.number)
      BY <2>2, <3>1
    <3> HIDE DEF r, i
    <3> QED
      BY <1>3, <3>1, <3>2 DEF RowsDistinct, find_row
  <2> QED
    BY <2>1, <2>2
<1> HIDE DEF ns, i, r, d
<1>6. r[i] \in RowSet
  BY <1>5
<1>7. checked => room \/ r = rows
  <2> SUFFICES ASSUME checked, r[i] = Zero(e.number) PROVE room
    BY <1>5
  <2> QED
    BY <1>2, <1>3, <1>4 DEF HasRoom, TotalSet, Counter, Refused
<1>8. CASE ~(checked /\ fits /\ room)
  <2>1. rows' = rows /\ total' = total /\ truth' = truth
    BY <1>1, <1>7, <1>8
  <2> QED
    BY <2>1 DEF StatsInv, TotalsTrue, TotalsExact, SumsUp, RowsDistinct
<1>9. CASE checked /\ fits /\ room
  <2>1. ns \in Nat /\ ns = IF d < 0 THEN 0 ELSE d
    BY <1>2, <1>9 DEF Refused
  <2>2. /\ total' = Add(total, ns, e.error) /\ rows' = [r EXCEPT ![i] = added]
        /\ truth' = [calls |-> truth.calls + 1, errors |-> truth.errors + err,
                     nanoseconds |-> truth.nanoseconds + ns]
    BY <1>1, <1>9, <2>1
  <2>a. /\ total.calls \in Counter /\ total.errors \in Counter /\ total.nanoseconds \in Counter
        /\ r[i].calls \in Counter /\ r[i].errors \in Counter /\ r[i].nanoseconds \in Counter
        /\ HasRoom(total, ns, e.error) /\ HasRoom(r[i], ns, e.error)
    BY <1>3, <1>6, <1>9 DEF TotalSet, RowSet
  <2>3. /\ Add(total, ns, e.error) = [calls |-> total.calls + 1, errors |-> total.errors + err,
                                       nanoseconds |-> total.nanoseconds + ns]
        /\ total.calls + 1 \in Counter /\ total.errors + err \in Counter
        /\ total.nanoseconds + ns \in Counter
    <3>1. /\ (total.calls + 1) % (UINT64_MAX + 1) = total.calls + 1
          /\ (total.errors + err) % (UINT64_MAX + 1) = total.errors + err
          /\ (total.nanoseconds + ns) % (UINT64_MAX + 1) = total.nanoseconds + ns
          /\ total.calls + 1 \in Counter /\ total.nanoseconds + ns \in Counter
          /\ total.errors + err \in Counter
      BY <1>2, <2>1, <2>a, AddExact
    <3>2. total = [calls |-> total.calls, errors |-> total.errors, nanoseconds |-> total.nanoseconds]
      BY <1>3 DEF TotalSet
    <3>3. Add(total, ns, e.error) = [total EXCEPT !.calls = total.calls + 1,
             !.errors = total.errors + err, !.nanoseconds = total.nanoseconds + ns]
      BY <3>1 DEF Add
    <3> HIDE DEF err
    <3> QED
      BY <3>1, <3>2, <3>3
  <2>4. /\ added = [number |-> e.number, calls |-> r[i].calls + 1, errors |-> r[i].errors + err,
                    nanoseconds |-> r[i].nanoseconds + ns]
        /\ r[i].calls + 1 \in Counter /\ r[i].errors + err \in Counter
        /\ r[i].nanoseconds + ns \in Counter
    <3> DEFINE x == r[i]
    <3>1. /\ (x.calls + 1) % (UINT64_MAX + 1) = x.calls + 1
          /\ (x.errors + err) % (UINT64_MAX + 1) = x.errors + err
          /\ (x.nanoseconds + ns) % (UINT64_MAX + 1) = x.nanoseconds + ns
          /\ x.calls + 1 \in Counter /\ x.nanoseconds + ns \in Counter
          /\ x.errors + err \in Counter
      BY <1>2, <2>1, <2>a, AddExact
    <3>2. x = [number |-> e.number, calls |-> x.calls, errors |-> x.errors,
               nanoseconds |-> x.nanoseconds]
      BY <1>5, <1>6 DEF RowSet
    <3>3. added = [x EXCEPT !.calls = x.calls + 1, !.errors = x.errors + err,
                            !.nanoseconds = x.nanoseconds + ns]
      BY <3>1 DEF Add
    <3> DEFINE p == x.calls + 1
               q == x.errors + err
               s == x.nanoseconds + ns
               n == e.number
               a == x.calls
               b == x.errors
               c == x.nanoseconds
    <3> HIDE DEF x, err, added, p, q, s, n, a, b, c
    <3>4. added = [x EXCEPT !.calls = p, !.errors = q, !.nanoseconds = s]
      BY <3>3 DEF p, q, s
    <3>5. x = [number |-> n, calls |-> a, errors |-> b, nanoseconds |-> c]
      BY <3>2 DEF n, a, b, c
    <3>6. added = [number |-> n, calls |-> p, errors |-> q, nanoseconds |-> s]
      BY <3>4, <3>5, RowUpdated
    <3> QED
      BY <3>1, <3>6 DEF x, n, p, q, s
  <2> HIDE DEF added, err
  <2>5. added \in RowSet /\ added.number = e.number /\ added.calls > 0
    BY <1>2, <1>6, <2>4 DEF RowSet, Counter
  <2>6. /\ rows' \in Seq(RowSet) /\ Len(rows') = Len(r) /\ rows'[i] = added
        /\ \A j \in 1..Len(r) \ {i} : rows'[j] = r[j]
    BY <1>5, <2>2, <2>5
  <2>7. RowsDistinct'
    <3>1. \A j \in 1..Len(r) : rows'[j].number = r[j].number /\ rows'[j].calls > 0
      BY <1>5, <2>5, <2>6
    <3> QED
      BY <1>5, <2>6, <3>1 DEF RowsDistinct
  <2>8. total' \in TotalSet /\ TotalsExact'
    BY <1>3, <2>2, <2>3 DEF TotalSet, TotalsExact
  <2>9. SumsUp'
    <3>1. /\ [j \in 1..Len(rows) |-> rows[j].calls] \in Seq(Int)
          /\ [j \in 1..Len(rows) |-> rows[j].errors] \in Seq(Int)
          /\ [j \in 1..Len(rows) |-> rows[j].nanoseconds] \in Seq(Int)
      BY <1>3, ColumnType
    <3>2. /\ [j \in 1..Len(r) |-> r[j].calls] \in Seq(Int)
          /\ [j \in 1..Len(r) |-> r[j].errors] \in Seq(Int)
          /\ [j \in 1..Len(r) |-> r[j].nanoseconds] \in Seq(Int)
      BY <1>5, ColumnType
    <3>3. /\ [j \in 1..Len(rows') |-> rows'[j].calls] \in Seq(Int)
          /\ [j \in 1..Len(rows') |-> rows'[j].errors] \in Seq(Int)
          /\ [j \in 1..Len(rows') |-> rows'[j].nanoseconds] \in Seq(Int)
      BY <2>6, ColumnType
    <3>4. /\ Len(rows) \in Nat /\ Len(r) \in Nat /\ ns \in Int /\ err \in Int /\ 1 \in Int
          /\ 1..Len(r) = 1..Len(rows')
      BY <1>3, <1>5, <2>1, <2>6 DEF err
    <3>5. /\ added.calls = r[i].calls + 1 /\ added.errors = r[i].errors + err
          /\ added.nanoseconds = r[i].nanoseconds + ns
      BY <2>4
    <3>6. Sum([j \in 1..Len(rows') |-> rows'[j].calls])
            = Sum([j \in 1..Len(rows) |-> rows[j].calls]) + 1
      <4> DEFINE c == [j \in 1..Len(rows) |-> rows[j].calls]
                 m == [j \in 1..Len(r) |-> r[j].calls]
                 k == [j \in 1..Len(rows') |-> rows'[j].calls]
      <4>1. /\ Len(c) = Len(rows) /\ Len(m) = Len(r) /\ Len(k) = Len(m) /\ i \in 1..Len(m)
            /\ GrownAt(i, 1, m, k)
        BY <1>3, <1>5, <2>6, <3>4, <3>5 DEF GrownAt
      <4>2. PerhapsZero(c, m)
        <5>1. CASE r = rows
          BY <5>1 DEF PerhapsZero
        <5>2. CASE r # rows
          <6>1. /\ i = Len(r) /\ Len(r) = Len(rows) + 1 /\ r[i] = Zero(e.number)
                /\ \A j \in 1..Len(rows) : r[j] = rows[j]
            BY <1>5, <5>2
          <6>2. Len(m) \in 1..Len(r) /\ m[Len(m)] = Zero(e.number).calls
            BY <1>5, <4>1, <6>1
          <6>3. \A j \in 1..Len(c) : j \in 1..Len(r) /\ m[j] = c[j]
            BY <3>4, <4>1, <6>1
          <6> QED BY <1>4, <4>1, <6>1, <6>2, <6>3 DEF PerhapsZero
        <5> QED BY <5>1, <5>2
      <4>3. c \in Seq(Int) /\ m \in Seq(Int) /\ k \in Seq(Int)
        BY <3>1, <3>2, <3>3
      <4> HIDE DEF c, m, k
      <4>4. Sum(k) = Sum(c) + 1
        BY <3>4, <4>1, <4>2, <4>3, ColumnGrows
      <4> QED BY <4>4 DEF c, k
    <3>7. Sum([j \in 1..Len(rows') |-> rows'[j].errors])
            = Sum([j \in 1..Len(rows) |-> rows[j].errors]) + err
      <4> DEFINE c == [j \in 1..Len(rows) |-> rows[j].errors]
                 m == [j \in 1..Len(r) |-> r[j].errors]
                 k == [j \in 1..Len(rows') |-> rows'[j].errors]
      <4>1. /\ Len(c) = Len(rows) /\ Len(m) = Len(r) /\ Len(k) = Len(m) /\ i \in 1..Len(m)
            /\ GrownAt(i, err, m, k)
        BY <1>3, <1>5, <2>6, <3>4, <3>5 DEF GrownAt
      <4>2. PerhapsZero(c, m)
        <5>1. CASE r = rows
          BY <5>1 DEF PerhapsZero
        <5>2. CASE r # rows
          <6>1. /\ i = Len(r) /\ Len(r) = Len(rows) + 1 /\ r[i] = Zero(e.number)
                /\ \A j \in 1..Len(rows) : r[j] = rows[j]
            BY <1>5, <5>2
          <6>2. Len(m) \in 1..Len(r) /\ m[Len(m)] = Zero(e.number).errors
            BY <1>5, <4>1, <6>1
          <6>3. \A j \in 1..Len(c) : j \in 1..Len(r) /\ m[j] = c[j]
            BY <3>4, <4>1, <6>1
          <6> QED BY <1>4, <4>1, <6>1, <6>2, <6>3 DEF PerhapsZero
        <5> QED BY <5>1, <5>2
      <4>3. c \in Seq(Int) /\ m \in Seq(Int) /\ k \in Seq(Int)
        BY <3>1, <3>2, <3>3
      <4> HIDE DEF c, m, k
      <4>4. Sum(k) = Sum(c) + err
        BY <3>4, <4>1, <4>2, <4>3, ColumnGrows
      <4> QED BY <4>4 DEF c, k
    <3>8. Sum([j \in 1..Len(rows') |-> rows'[j].nanoseconds])
            = Sum([j \in 1..Len(rows) |-> rows[j].nanoseconds]) + ns
      <4> DEFINE c == [j \in 1..Len(rows) |-> rows[j].nanoseconds]
                 m == [j \in 1..Len(r) |-> r[j].nanoseconds]
                 k == [j \in 1..Len(rows') |-> rows'[j].nanoseconds]
      <4>1. /\ Len(c) = Len(rows) /\ Len(m) = Len(r) /\ Len(k) = Len(m) /\ i \in 1..Len(m)
            /\ GrownAt(i, ns, m, k)
        BY <1>3, <1>5, <2>6, <3>4, <3>5 DEF GrownAt
      <4>2. PerhapsZero(c, m)
        <5>1. CASE r = rows
          BY <5>1 DEF PerhapsZero
        <5>2. CASE r # rows
          <6>1. /\ i = Len(r) /\ Len(r) = Len(rows) + 1 /\ r[i] = Zero(e.number)
                /\ \A j \in 1..Len(rows) : r[j] = rows[j]
            BY <1>5, <5>2
          <6>2. Len(m) \in 1..Len(r) /\ m[Len(m)] = Zero(e.number).nanoseconds
            BY <1>5, <4>1, <6>1
          <6>3. \A j \in 1..Len(c) : j \in 1..Len(r) /\ m[j] = c[j]
            BY <3>4, <4>1, <6>1
          <6> QED BY <1>4, <4>1, <6>1, <6>2, <6>3 DEF PerhapsZero
        <5> QED BY <5>1, <5>2
      <4>3. c \in Seq(Int) /\ m \in Seq(Int) /\ k \in Seq(Int)
        BY <3>1, <3>2, <3>3
      <4> HIDE DEF c, m, k
      <4>4. Sum(k) = Sum(c) + ns
        BY <3>4, <4>1, <4>2, <4>3, ColumnGrows
      <4> QED BY <4>4 DEF c, k
    <3>9. /\ total'.calls = total.calls + 1 /\ total'.errors = total.errors + err
          /\ total'.nanoseconds = total.nanoseconds + ns
      BY <2>2, <2>3
    <3> QED
      BY <1>3, <3>6, <3>7, <3>8, <3>9 DEF SumsUp
  <2> QED
    BY <2>6, <2>7, <2>8, <2>9 DEF StatsInv, TotalsTrue
<1> QED
  BY <1>8, <1>9

LEMMA AlwaysCounted == Spec => []StatsInv
<1>1. StatsInv /\ [Next]_vars => StatsInv'
  <2> SUFFICES ASSUME StatsInv, [Next]_vars PROVE StatsInv'
    OBVIOUS
  <2>1. CASE Next
    BY <2>1, RecordKeeps DEF Next
  <2>2. CASE UNCHANGED vars
    BY <2>2 DEF vars, StatsInv, TotalsTrue, TotalsExact, SumsUp, RowsDistinct
  <2> QED
    BY <2>1, <2>2
<1> QED
  BY <1>1, InvInit, PTL DEF Spec

(* The totals of sg_stats_record are what happened, to the nanosecond, and *)
(* what its rows add up to, and each syscall has one row, none of which is *)
(* ever left without a call.                                               *)
THEOREM CountsExactly == Spec => []TotalsTrue
BY AlwaysCounted, PTL DEF StatsInv

-----------------------------------------------------------------------------
(* compare_rows is a strict order on rows of different numbers, and total. *)
LEMMA CompareOrders ==
  ASSUME NEW x \in RowSet, NEW y \in RowSet, NEW z \in RowSet
  PROVE  /\ x.number # y.number => compare_rows(x, y) # 0
         /\ compare_rows(x, y) < 0 => compare_rows(y, x) > 0
         /\ compare_rows(x, y) < 0 /\ compare_rows(y, z) < 0 => compare_rows(x, z) < 0
<1>1. ASSUME NEW w \in RowSet
      PROVE  /\ w.number \in Int /\ w.nanoseconds \in Int
             /\ w.number \in DOMAIN NameRank => NameRank[w.number] \in Int
  <2>1. Numbers \subseteq Int /\ UINT64_MAX \in Nat /\ \A n \in DOMAIN NameRank : NameRank[n] \in Int
    BY StatsAssumption
  <2>2. w.number \in Numbers /\ w.nanoseconds \in Counter
    BY DEF RowSet
  <2>3. w.nanoseconds \in Int
    BY <2>1, <2>2 DEF Counter
  <2> QED
    BY <2>1, <2>2, <2>3
<1>2. x.number # y.number => compare_rows(x, y) # 0
  BY <1>1 DEF compare_rows
<1>3. compare_rows(x, y) < 0 => compare_rows(y, x) > 0
  BY <1>1 DEF compare_rows
<1>4. compare_rows(x, y) < 0 /\ compare_rows(y, z) < 0 => compare_rows(x, z) < 0
  BY <1>1 DEF compare_rows
<1> QED
  BY <1>2, <1>3, <1>4

(* Whatever was recorded and whatever the catalogue, the rows have one     *)
(* sorted order, so -c prints them the same way each time.                 *)
THEOREM OneOrder == Spec => []SortDeterministic
<1>1. StatsInv => SortDeterministic
  <2> SUFFICES ASSUME StatsInv, NEW i \in 1..Len(rows), NEW j \in 1..Len(rows),
                      NEW k \in 1..Len(rows)
               PROVE  /\ i # j => compare_rows(rows[i], rows[j]) # 0
                      /\ compare_rows(rows[i], rows[j]) < 0 => compare_rows(rows[j], rows[i]) > 0
                      /\ compare_rows(rows[i], rows[j]) < 0 /\ compare_rows(rows[j], rows[k]) < 0
                           => compare_rows(rows[i], rows[k]) < 0
    BY DEF SortDeterministic
  <2>1. rows[i] \in RowSet /\ rows[j] \in RowSet /\ rows[k] \in RowSet
    BY DEF StatsInv
  <2>2. i # j => rows[i].number # rows[j].number
    BY DEF StatsInv, TotalsTrue, RowsDistinct
  <2> QED
    BY <2>1, <2>2, CompareOrders
<1> QED
  BY <1>1, AlwaysCounted, PTL

-----------------------------------------------------------------------------
(* The buffer *)

(* Below SIZE_MAX unsigned arithmetic is arithmetic. *)
LEMMA NoWrap ==
  ASSUME NEW n \in 0..SizeMax
  PROVE  Wrap(n) = n
BY BufferAssumption DEF Wrap

(* What a call in progress has established: a loop of sg_buffer_reserve    *)
(* runs from a positive capacity towards a size that can be counted.       *)
Reserving ==
  /\ op.at # "idle" => op.required = length + Len(op.bytes) + 1
  /\ op.at = "grow" => /\ op.capacity > 0 /\ op.capacity >= capacity
                       /\ capacity < op.required
  /\ op.at = "copy" => op.required <= capacity

IndInv == InBounds /\ ContentKept /\ Reserving /\ spoilt \in BOOLEAN

LEMMA InitIndInv == BufferInit => IndInv
<1> SUFFICES ASSUME BufferInit PROVE IndInv
  OBVIOUS
<1>1. mem \in [0..(capacity - 1) -> Bytes \cup {NUL, Junk}]
  <2>1. 0..(capacity - 1) = {}
    BY DEF BufferInit
  <2>. QED  BY <2>1 DEF BufferInit
<1>2. InBounds
  BY <1>1, BufferAssumption DEF BufferInit, InBounds, Size, Idle
<1>3. ContentKept
  BY DEF BufferInit, ContentKept
<1>4. Reserving
  BY DEF BufferInit, Reserving, Idle
<1>5. spoilt \in BOOLEAN
  BY DEF BufferInit
<1>. QED  BY <1>2, <1>3, <1>4, <1>5 DEF IndInv

LEMMA ResetKeeps == IndInv /\ sg_buffer_reset => IndInv'
<1> SUFFICES ASSUME IndInv, sg_buffer_reset PROVE IndInv'
  OBVIOUS
<1> USE DEF IndInv, sg_buffer_reset
<1>1. mem' \in [0..(capacity - 1) -> Bytes \cup {NUL, Junk}]
  BY DEF InBounds, Size
<1>2. InBounds'
  BY <1>1, BufferAssumption DEF InBounds, Size, Idle
<1>3. ContentKept'
  BY <1>1, BufferAssumption DEF InBounds, ContentKept, Size
<1>4. Reserving' /\ spoilt' \in BOOLEAN
  BY DEF Reserving, Idle
<1>. QED  BY <1>2, <1>3, <1>4

LEMMA DestroyKeeps == IndInv /\ sg_buffer_destroy => IndInv'
<1> SUFFICES ASSUME IndInv, sg_buffer_destroy PROVE IndInv'
  OBVIOUS
<1>1. BufferInit'
  BY DEF sg_buffer_destroy, BufferInit
<1>2. mem' \in [0..(capacity' - 1) -> Bytes \cup {NUL, Junk}]
  <2>1. 0..(capacity' - 1) = {}
    BY DEF sg_buffer_destroy
  <2>. QED  BY <2>1 DEF sg_buffer_destroy
<1>3. InBounds'
  BY <1>1, <1>2, BufferAssumption DEF BufferInit, InBounds, Size, Idle
<1>4. ContentKept'
  BY <1>1 DEF BufferInit, ContentKept
<1>5. Reserving'
  BY <1>1 DEF BufferInit, Reserving, Idle
<1>6. spoilt' \in BOOLEAN
  BY <1>1 DEF BufferInit
<1>. QED  BY <1>3, <1>4, <1>5, <1>6 DEF IndInv

LEMMA BeginKeeps ==
  ASSUME IndInv, NEW s \in Texts, NEW kind \in {"append", "format"}, Begin(kind, s)
  PROVE  IndInv'
<1> USE DEF IndInv
<1>1. s \in Seq(Bytes) /\ Len(s) \in Nat
  BY BufferAssumption
<1>2. length + Len(s) + 1 \in 0..SizeMax => Required(Len(s)) = length + Len(s) + 1
  BY <1>1, NoWrap DEF Required
<1>3. ~Overflows(Len(s)) => length + Len(s) + 1 \in 0..SizeMax
  BY <1>1, BufferAssumption DEF Overflows, InBounds, Size
<1>4. UNCHANGED <<mem, length, capacity, text, spoilt>>
  BY DEF Begin
<1>5. ContentKept' /\ spoilt' \in BOOLEAN
  BY <1>4 DEF ContentKept
<1>6. CASE op' = Idle
  <2>1. InBounds'
    BY <1>4, <1>6, BufferAssumption DEF InBounds, Idle, Size
  <2>2. Reserving'
    BY <1>6 DEF Reserving, Idle
  <2>. QED  BY <1>5, <2>1, <2>2
<1>7. CASE op' # Idle
  <2> DEFINE n == length + Len(s) + 1
  <2>1. n \in Size /\ Required(Len(s)) = n
    BY <1>2, <1>3, <1>7 DEF Begin, Size
  <2>2. CASE n <= capacity
    <3>1. op' = [at |-> "copy", kind |-> kind, bytes |-> s, required |-> n, capacity |-> 0]
      BY <1>7, <2>1, <2>2 DEF Begin, Idle
    <3>. QED  BY <3>1, <2>1, <2>2, <1>1, <1>4, <1>5, BufferAssumption
              DEF InBounds, Reserving, Size
  <2>3. CASE ~(n <= capacity)
    <3>1. op' = [at |-> "grow", kind |-> kind, bytes |-> s, required |-> n,
                 capacity |-> IF capacity = 0 THEN InitialCapacity ELSE capacity]
      BY <1>7, <2>1, <2>3 DEF Begin, Idle
    <3>. QED  BY <3>1, <2>1, <2>3, <1>1, <1>4, <1>5, BufferAssumption
              DEF InBounds, Reserving, Size
  <2>. QED  BY <2>2, <2>3
<1>. QED  BY <1>6, <1>7

(* A turn of the loop goes up, and not beyond SIZE_MAX. *)
LEMMA DoubledGrows ==
  ASSUME NEW c \in Size, NEW r \in Size, c > 0, c < r
  PROVE  Doubled(c, r) \in Size /\ Doubled(c, r) > c
<1>1. SizeMax \in Nat
  BY BufferAssumption
<1>2. CASE c > SizeMax \div 2
  BY <1>2 DEF Doubled, Size
<1>3. CASE ~(c > SizeMax \div 2)
  <2>1. 2 * c \in 0..SizeMax
    BY <1>1, <1>3 DEF Size
  <2>2. Wrap(2 * c) = 2 * c
    BY <2>1, NoWrap
  <2>. QED  BY <1>1, <1>3, <2>1, <2>2 DEF Doubled, Size
<1>. QED  BY <1>2, <1>3

LEMMA DoubleKeeps ==
  ASSUME IndInv, Double
  PROVE  IndInv' /\ op'.capacity > op.capacity
<1> USE DEF IndInv
<1>1. op.capacity \in Size /\ op.required \in Size /\ op.capacity > 0 /\ op.capacity < op.required
  BY DEF InBounds, Reserving, Double
<1>2. Doubled(op.capacity, op.required) \in Size
      /\ Doubled(op.capacity, op.required) > op.capacity
  BY <1>1, DoubledGrows
<1>3. op' = [op EXCEPT !.capacity = Doubled(op.capacity, op.required)]
      /\ UNCHANGED <<mem, length, capacity, text, spoilt>>
  BY DEF Double
<1>4. op'.capacity = Doubled(op.capacity, op.required)
  BY <1>3 DEF InBounds
<1>5. InBounds' /\ ContentKept' /\ spoilt' \in BOOLEAN
  BY <1>2, <1>3 DEF InBounds, ContentKept
<1>6. Reserving'
  <2>1. /\ op'.at = op.at /\ op'.required = op.required /\ op'.bytes = op.bytes
        /\ length' = length /\ capacity' = capacity /\ op.at = "grow"
    BY <1>3 DEF InBounds, Double
  <2>. QED  BY <2>1, <1>1, <1>2, <1>4 DEF Reserving, InBounds, Size
<1>. QED  BY <1>2, <1>4, <1>5, <1>6

LEMMA ReallocKeeps == IndInv /\ Realloc => IndInv'
<1> SUFFICES ASSUME IndInv, Realloc PROVE IndInv'
  OBVIOUS
<1> USE DEF IndInv
<1>1. /\ op.at = "grow" /\ op.capacity >= op.required /\ op.capacity \in Size
      /\ op.required = length + Len(op.bytes) + 1 /\ Len(op.bytes) \in Nat
      /\ length \in Size /\ capacity \in Size /\ capacity < op.required
  BY DEF InBounds, Reserving, Realloc
<1>2. /\ mem' = Resized(op.capacity) /\ capacity' = op.capacity
      /\ op' = [op EXCEPT !.at = "copy"] /\ UNCHANGED <<length, text, spoilt>>
  BY DEF Realloc
<1>3. mem' \in [0..(capacity' - 1) -> Bytes \cup {NUL, Junk}]
  <2>1. ASSUME NEW i \in 0..(op.capacity - 1), i < capacity
        PROVE  mem[i] \in Bytes \cup {NUL, Junk}
    BY <2>1, <1>1 DEF InBounds, Size
  <2>. QED  BY <1>2, <2>1 DEF Resized
<1>4. InBounds'
  <2>1. op' \in [at : {"idle", "grow", "copy"}, kind : {"none", "append", "format"},
                 bytes : Seq(Bytes), required : Size, capacity : Size]
    BY <1>2 DEF InBounds
  <2>2. op'.at = "copy" /\ op'.bytes = op.bytes
    BY <1>2 DEF InBounds
  <2>. QED  BY <1>1, <1>2, <1>3, <2>1, <2>2, BufferAssumption, SMTT(30) DEF InBounds, Size
<1>5. ContentKept'
  <2>1. Len(text) = length /\ \A i \in 1..length : mem[i - 1] = text[i]
    BY DEF ContentKept
  <2>2. \A i \in 1..length : mem'[i - 1] = mem[i - 1]
    <3> TAKE i \in 1..length
    <3>1. i - 1 \in 0..(op.capacity - 1) /\ i - 1 < capacity /\ length # 0
      BY <1>1 DEF InBounds, Size
    <3>. QED  BY <3>1, <1>2 DEF Resized
  <2>3. capacity' # 0 /\ ~spoilt' => mem'[length'] = NUL
    <3> SUFFICES ASSUME ~spoilt PROVE mem'[length] = NUL
      BY <1>2
    <3>1. length \in 0..(op.capacity - 1)
      BY <1>1 DEF Size
    <3>2. CASE length = 0
      BY <3>1, <3>2, <1>2 DEF Resized
    <3>3. CASE length # 0
      <4>1. length < capacity /\ capacity # 0
        BY <3>3, <1>1 DEF InBounds, Size
      <4>. QED  BY <3>1, <3>3, <4>1, <1>2 DEF Resized, ContentKept
    <3>. QED  BY <3>2, <3>3
  <2>. QED  BY <1>2, <2>1, <2>2, <2>3 DEF ContentKept
<1>6. Reserving' /\ spoilt' \in BOOLEAN
  <2>1. op'.at = "copy" /\ op'.required = op.required /\ op'.bytes = op.bytes
    BY <1>2 DEF InBounds
  <2>. QED  BY <2>1, <1>1, <1>2 DEF Reserving
<1>. QED  BY <1>4, <1>5, <1>6

LEMMA ReallocFailsKeeps == IndInv /\ ReallocFails => IndInv'
BY BufferAssumption
   DEF IndInv, ReallocFails, InBounds, ContentKept, Reserving, Idle, Size

(* Writing a text that fits behind the old one leaves the old one alone. *)
LEMMA OverlayFits ==
  ASSUME InBounds, NEW s \in Seq(Bytes), length + Len(s) < capacity
  PROVE  /\ Overlay(length, s) \in [0..(capacity - 1) -> Bytes \cup {NUL, Junk}]
         /\ \A i \in 1..length : Overlay(length, s)[i - 1] = mem[i - 1]
         /\ \A i \in 1..Len(s) : Overlay(length, s)[length + i - 1] = s[i]
         /\ Overlay(length, s)[length + Len(s)] = NUL
<1>1. length \in Nat /\ capacity \in Nat /\ Len(s) \in Nat /\ DOMAIN mem = 0..(capacity - 1)
  BY BufferAssumption DEF InBounds, Size
<1>2. ASSUME NEW i \in 0..(capacity - 1)
      PROVE  /\ i < length => Overlay(length, s)[i] = mem[i]
             /\ i \in length..(length + Len(s) - 1) =>
                  Overlay(length, s)[i] = s[i - length + 1]
             /\ i = length + Len(s) => Overlay(length, s)[i] = NUL
             /\ Overlay(length, s)[i] \in Bytes \cup {NUL, Junk}
  <2>1. i \in length..(length + Len(s) - 1) => i - length + 1 \in 1..Len(s)
    BY <1>1
  <2>2. i \in length..(length + Len(s) - 1) => s[i - length + 1] \in Bytes
    BY <2>1
  <2>3. mem[i] \in Bytes \cup {NUL, Junk}
    BY <1>1 DEF InBounds
  <2>. QED  BY <1>1, <2>1, <2>2, <2>3 DEF Overlay
<1>3. DOMAIN Overlay(length, s) = 0..(capacity - 1)
  BY <1>1 DEF Overlay
<1>4. Overlay(length, s) \in [0..(capacity - 1) -> Bytes \cup {NUL, Junk}]
  BY <1>1, <1>2, <1>3 DEF Overlay
<1>5. ASSUME NEW i \in 1..length
      PROVE  Overlay(length, s)[i - 1] = mem[i - 1]
  <2>1. i - 1 \in 0..(capacity - 1) /\ i - 1 < length
    BY <1>1
  <2>. QED  BY <2>1, <1>2
<1>6. ASSUME NEW i \in 1..Len(s)
      PROVE  Overlay(length, s)[length + i - 1] = s[i]
  <2>1. /\ length + i - 1 \in 0..(capacity - 1)
        /\ length + i - 1 \in length..(length + Len(s) - 1)
        /\ (length + i - 1) - length + 1 = i
    BY <1>1
  <2>. QED  BY <2>1, <1>2
<1>7. length + Len(s) \in 0..(capacity - 1)
  BY <1>1
<1>. QED  BY <1>2, <1>4, <1>5, <1>6, <1>7

LEMMA CopyKeeps == IndInv /\ Copy => IndInv'
<1> SUFFICES ASSUME IndInv, Copy PROVE IndInv'
  OBVIOUS
<1> USE DEF IndInv
<1>1. /\ op.at = "copy" /\ op.bytes \in Seq(Bytes) /\ Len(op.bytes) \in Nat
      /\ length + Len(op.bytes) < capacity /\ length \in Nat /\ capacity \in Size
  BY BufferAssumption DEF InBounds, Size, Copy
<1>2. /\ mem' = Overlay(length, op.bytes) /\ length' = length + Len(op.bytes)
      /\ text' = text \o op.bytes /\ op' = Idle /\ spoilt' = FALSE /\ capacity' = capacity
  BY DEF Copy
<1>3. /\ mem' \in [0..(capacity - 1) -> Bytes \cup {NUL, Junk}]
      /\ \A i \in 1..length : mem'[i - 1] = mem[i - 1]
      /\ \A i \in 1..Len(op.bytes) : mem'[length + i - 1] = op.bytes[i]
      /\ mem'[length + Len(op.bytes)] = NUL
  BY <1>1, <1>2, OverlayFits
<1>4. InBounds'
  <2>1. text' \in Seq(Bytes)
    BY <1>1, <1>2 DEF InBounds
  <2>. QED  BY <1>1, <1>2, <1>3, <2>1, BufferAssumption, SMTT(30) DEF InBounds, Size, Idle
<1>5. ContentKept'
  <2>1. text \in Seq(Bytes) /\ Len(text) = length /\ \A i \in 1..length : mem[i - 1] = text[i]
    BY DEF InBounds, ContentKept
  <2>2. Len(text') = length'
    <3>1. Len(text \o op.bytes) = Len(text) + Len(op.bytes)
      BY <1>1, <2>1, ConcatProperties
    <3>. QED  BY <1>2, <2>1, <3>1
  <2>3. ASSUME NEW i \in 1..length'
        PROVE  mem'[i - 1] = text'[i]
    <3>1. CASE i <= length
      <4>1. text'[i] = text[i] /\ i \in 1..length
        BY <3>1, <1>1, <1>2, <2>1
      <4>. QED  BY <4>1, <1>3, <2>1
    <3>2. CASE i > length
      <4> DEFINE j == i - length
      <4>1. j \in 1..Len(op.bytes) /\ i = length + j
        BY <3>2, <1>1, <1>2
      <4>2. text'[i] = op.bytes[j]
        BY <3>2, <4>1, <1>1, <1>2, <2>1, SMTT(30)
      <4>3. mem'[length + j - 1] = op.bytes[j]
        BY <4>1, <1>3
      <4>4. length + j - 1 = i - 1
        BY <4>1, <1>1
      <4>. QED  BY <4>2, <4>3, <4>4
    <3>3. i <= length \/ i > length
      BY <1>1, <1>2
    <3>. QED  BY <3>1, <3>2, <3>3
  <2>. QED  BY <1>2, <1>3, <2>2, <2>3 DEF ContentKept
<1>6. Reserving' /\ spoilt' \in BOOLEAN
  BY <1>2 DEF Reserving, Idle
<1>. QED  BY <1>4, <1>5, <1>6

LEMMA DisagreesKeeps ==
  ASSUME IndInv, NEW s \in Texts, FormatDisagrees(s)
  PROVE  IndInv'
<1> USE DEF IndInv
<1>1. /\ op.at = "copy" /\ s \in Seq(Bytes) /\ Len(s) \in Nat /\ length \in Nat
      /\ capacity \in Size /\ capacity \in Nat /\ length < capacity
  BY BufferAssumption DEF InBounds, Size, FormatDisagrees
<1>2. /\ mem' = Overlay(length, Fitting(s)) /\ op' = Idle /\ spoilt' = TRUE
      /\ UNCHANGED <<length, capacity, text>>
  BY DEF FormatDisagrees
<1>3. Fitting(s) \in Seq(Bytes) /\ length + Len(Fitting(s)) < capacity
  BY <1>1 DEF Fitting
<1>4. /\ mem' \in [0..(capacity - 1) -> Bytes \cup {NUL, Junk}]
      /\ \A i \in 1..length : mem'[i - 1] = mem[i - 1]
  BY <1>2, <1>3, OverlayFits
<1>5. InBounds'
  BY <1>1, <1>2, <1>4, BufferAssumption DEF InBounds, Size, Idle
<1>6. ContentKept' /\ Reserving' /\ spoilt' \in BOOLEAN
  BY <1>2, <1>4 DEF ContentKept, Reserving, Idle
<1>. QED  BY <1>5, <1>6

LEMMA StepKeeps == IndInv /\ [BufferNext]_bufferVars => IndInv'
<1> SUFFICES ASSUME IndInv, [BufferNext]_bufferVars PROVE IndInv'
  OBVIOUS
<1>1. CASE UNCHANGED bufferVars
  BY <1>1 DEF bufferVars, IndInv, InBounds, ContentKept, Reserving
<1>2. CASE BufferNext
  BY <1>2, ResetKeeps, DestroyKeeps, BeginKeeps, DoubleKeeps, ReallocKeeps,
     ReallocFailsKeeps, CopyKeeps, DisagreesKeeps DEF BufferNext
<1>. QED  BY <1>1, <1>2

(* sg_buffer_append and sg_buffer_append_format never write outside the    *)
(* block, for any size_t, any initial capacity and any failing realloc.    *)
THEOREM NeverOutOfBounds == BufferSpec => []InBounds
<1>1. BufferInit => IndInv
  BY InitIndInv
<1>2. IndInv /\ [BufferNext]_bufferVars => IndInv'
  BY StepKeeps
<1>. QED  BY <1>1, <1>2, PTL DEF BufferSpec, IndInv

(* The buffer holds exactly what was appended, through growth and failures,*)
(* and stays a C string.                                                   *)
THEOREM KeepsContent == BufferSpec => []ContentKept
<1>1. BufferInit => IndInv
  BY InitIndInv
<1>2. IndInv /\ [BufferNext]_bufferVars => IndInv'
  BY StepKeeps
<1>. QED  BY <1>1, <1>2, PTL DEF BufferSpec, IndInv

(* Every turn of the doubling loop makes the capacity larger, so it ends. *)
THEOREM LoopProgresses == BufferSpec => GrowthProgress
<1>1. BufferInit => IndInv
  BY InitIndInv
<1>2. IndInv /\ [BufferNext]_bufferVars => IndInv'
  BY StepKeeps
<1>3. ASSUME IndInv, [BufferNext]_bufferVars
      PROVE  [op.at = "grow" /\ op'.at = "grow" => op'.capacity > op.capacity]_bufferVars
  <2> SUFFICES ASSUME op.at = "grow", op'.at = "grow", BufferNext
               PROVE  op'.capacity > op.capacity
    BY <1>3
  <2>1. op # Idle /\ op' # Idle
    BY DEF Idle
  <2>2. CASE Double
    BY <1>3, <2>2, DoubleKeeps
  <2>3. CASE Realloc
    <3>1. op'.at = "copy"
      BY <2>3, <1>3 DEF Realloc, IndInv, InBounds
    <3>. QED  BY <3>1
  <2>. QED  BY <2>1, <2>2, <2>3 DEF BufferNext, sg_buffer_reset, sg_buffer_destroy, Begin,
            ReallocFails, Copy, FormatDisagrees
<1>. QED  BY <1>1, <1>2, <1>3, PTL DEF BufferSpec, GrowthProgress
=============================================================================
