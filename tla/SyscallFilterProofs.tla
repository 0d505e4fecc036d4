------------------------ MODULE SyscallFilterProofs ------------------------
(***************************************************************************)
(* The filter means what the expression says, and the seccomp program made *)
(* from it stops exactly the calls it selects, for every catalogue, word   *)
(* size and expression.                                                    *)
(***************************************************************************)
EXTENDS SyscallFilter, WellFoundedInduction, FiniteSetTheorems, TLAPS

WordSet   == [0..Words-1 -> SUBSET (0..WordBits-1)]
FilterSet == [words : WordSet, active : BOOLEAN]

(* What the first k terms of the expression select. *)
Named(n, k)    == {i \in 1..k : Mentions(spec[i], n)}
Selects(f, k)  ==
  \A n \in 0..Limit-1 :
    sg_filter_contains(f, n) <=> IF Named(n, k) # {} THEN ~spec[Max(Named(n, k))].neg
                                 ELSE ~has_positive_term(spec)
Known(k) == \A i \in 1..k : spec[i].kind \in {"name", "class"}

FilterInv ==
  /\ spec \in Seq(Term) /\ at \in Nat
  /\ candidate \in FilterSet /\ filter \in FilterSet
  /\ pc \in {"idle", "term", "accepted", "rejected", "program"}
  /\ pc \in {"idle", "term", "rejected"} => filter = Cleared
  /\ pc = "term" => at \in 1..Len(spec) /\ Selects(candidate, at - 1) /\ Known(at - 1)
  /\ pc \in {"accepted", "program"} => Selects(filter, Len(spec)) /\ Known(Len(spec))
  /\ pc = "program" => program = Program(filter) /\ capacity = Capacity(filter)

-----------------------------------------------------------------------------
(* Every non-empty set of naturals has a least element. *)
LEMMA LeastElement ==
  ASSUME NEW K \in SUBSET Nat, K # {}
  PROVE  \E m \in K : \A j \in K : m <= j
<1> DEFINE R == OpToRel(<, Nat)
<1>1. IsWellFoundedOn(R, Nat)
  BY NatLessThanWellFounded
<1>2. PICK m \in K : \A j \in K : <<j, m>> \notin R
  <2> HIDE DEF R
  <2> QED BY <1>1, WFMin
<1>3. \A j \in K : ~(j < m)
  BY <1>2 DEF OpToRel
<1> QED BY <1>3

(* The greatest element of a bounded set of naturals. *)
LEMMA GreatestIs ==
  ASSUME NEW n \in Nat, NEW K, K \subseteq 0..n, K # {}
  PROVE  Max(K) \in K /\ \A y \in K : y <= Max(K)
<1> DEFINE D == {n - x : x \in K}
<1>0. \A x \in K : n - x \in Nat
  OBVIOUS
<1>1. D \in SUBSET Nat /\ D # {}
  BY <1>0
<1>2. PICK d \in D : \A y \in D : d <= y
  <2> HIDE DEF D
  <2> QED BY <1>1, LeastElement
<1>3. PICK m \in K : d = n - m
  OBVIOUS
<1>4. \A y \in K : m >= y
  <2> SUFFICES ASSUME NEW y \in K PROVE m >= y
    OBVIOUS
  <2>1. n - y \in D
    OBVIOUS
  <2>2. n - m <= n - y
    BY <1>2, <1>3, <2>1
  <2> QED BY <2>2
<1>5. Max(K) \in K /\ \A y \in K : Max(K) >= y
  BY <1>4 DEF Max
<1> QED
  BY <1>5

(* A number is its word and its bit. *)
LEMMA WordAndBit ==
  ASSUME NEW n \in 0..Limit-1
  PROVE  /\ n \div WordBits \in 0..Words-1 /\ n % WordBits \in 0..WordBits-1
         /\ n = (n \div WordBits) * WordBits + (n % WordBits)
<1>0. WordBits \in Nat \ {0} /\ Words \in Nat \ {0} /\ Limit = WordBits * Words
  BY FilterAssumption DEF Limit
<1>1. n \in Nat /\ n < WordBits * Words
  BY <1>0
<1>2. /\ n \div WordBits \in Int /\ n % WordBits \in 0..WordBits-1
      /\ n = (n \div WordBits) * WordBits + (n % WordBits)
  BY <1>0, <1>1
<1> DEFINE q == n \div WordBits
           r == n % WordBits
<1> HIDE DEF q, r
<1>3. q \in Int /\ r \in 0..WordBits-1 /\ n = q * WordBits + r
  BY <1>2 DEF q, r
<1>4. q >= 0
  <2> SUFFICES ASSUME q <= -1 PROVE FALSE
    BY <1>3
  <2>1. q * WordBits <= (-1) * WordBits
    BY <1>0, <1>3
  <2> QED BY <1>0, <1>1, <1>3, <2>1
<1>5. q <= Words - 1
  <2> SUFFICES ASSUME q >= Words PROVE FALSE
    BY <1>0, <1>3
  <2>1. q * WordBits >= Words * WordBits
    BY <1>0, <1>3
  <2>2. Words * WordBits = WordBits * Words /\ Words * WordBits \in Int /\ q * WordBits \in Int
    BY <1>0, <1>3
  <2> QED BY <1>0, <1>1, <1>3, <2>1, <2>2
<1> QED
  BY <1>0, <1>2, <1>3, <1>4, <1>5 DEF q, r

(* Two numbers with the same word and bit are the same. *)
LEMMA SameBit ==
  ASSUME NEW m \in 0..Limit-1, NEW n \in 0..Limit-1,
         m \div WordBits = n \div WordBits, m % WordBits = n % WordBits
  PROVE  m = n
BY WordAndBit

LEMMA SetNumber ==
  ASSUME NEW f \in FilterSet, NEW n \in 0..Limit-1, NEW b \in BOOLEAN
  PROVE  /\ set_number(f, n, b) \in FilterSet
         /\ \A m \in 0..Limit-1 : sg_filter_contains(set_number(f, n, b), m)
                                  <=> IF m = n THEN b ELSE sg_filter_contains(f, m)
<1> DEFINE v == n \div WordBits
           r == n % WordBits
           g == set_number(f, n, b)
           X == IF b THEN f.words[v] \cup {r} ELSE f.words[v] \ {r}
<1>1. v \in 0..Words-1 /\ r \in 0..WordBits-1
  BY WordAndBit
<1>2. f.words \in [0..Words-1 -> SUBSET (0..WordBits-1)] /\ f.active \in BOOLEAN
  BY DEF FilterSet, WordSet
<1>3. ~(n < 0 \/ n >= Limit) /\ WordBits \in Nat \ {0} /\ Words \in Nat \ {0}
  BY FilterAssumption DEF Limit
<1>4. g = [f EXCEPT !.words[v] = X]
  BY <1>3 DEF set_number
<1>5. X \in SUBSET (0..WordBits-1)
  BY <1>1, <1>2
<1>6. g \in FilterSet /\ g.words = [f.words EXCEPT ![v] = X]
  <2> HIDE DEF g, v, X
  <2>1. g \in FilterSet
    BY <1>1, <1>4, <1>5 DEF FilterSet, WordSet
  <2>2. g.words = [f.words EXCEPT ![v] = X]
    BY <1>1, <1>4, <1>5 DEF FilterSet, WordSet
  <2> QED BY <2>1, <2>2
<1>7. ASSUME NEW m \in 0..Limit-1
      PROVE  sg_filter_contains(g, m) <=> IF m = n THEN b ELSE sg_filter_contains(f, m)
  <2>1. m \div WordBits \in 0..Words-1 /\ m % WordBits \in 0..WordBits-1
    BY WordAndBit
  <2>2. m \div WordBits = v /\ m % WordBits = r => m = n
    BY SameBit
  <2> HIDE DEF g
  <2>3. sg_filter_contains(g, m) <=> m % WordBits \in g.words[m \div WordBits]
    BY DEF sg_filter_contains
  <2>4. sg_filter_contains(f, m) <=> m % WordBits \in f.words[m \div WordBits]
    BY DEF sg_filter_contains
  <2> DEFINE w == m \div WordBits
             c == m % WordBits
  <2> HIDE DEF w, c
  <2>5. g.words[w] = IF w = v THEN X ELSE f.words[w]
    BY <1>2, <1>6, <2>1 DEF w
  <2>6. m = n => w = v /\ c = r
    BY DEF w, c
  <2>7. w = v /\ c = r => m = n
    BY <2>2 DEF w, c
  <2>8. /\ sg_filter_contains(g, m) <=> c \in g.words[w]
        /\ sg_filter_contains(f, m) <=> c \in f.words[w]
    BY <2>3, <2>4 DEF w, c
  <2> HIDE DEF v, r
  <2> QED BY <2>5, <2>6, <2>7, <2>8
<1> QED
  BY <1>6, <1>7

LEMMA ApplyClass ==
  ASSUME NEW f \in FilterSet, NEW class \in DOMAIN Classes, NEW b \in BOOLEAN
  PROVE  /\ apply_class(f, class, b) \in FilterSet
         /\ \A m \in 0..Limit-1 : sg_filter_contains(apply_class(f, class, b), m)
                                  <=> IF m \in Classes[class] THEN b
                                      ELSE sg_filter_contains(f, m)
<1> DEFINE bits(w) == {n % WordBits : n \in {m \in Classes[class] : m \div WordBits = w}}
           W == [w \in 0..Words-1 |-> IF b THEN f.words[w] \cup bits(w) ELSE f.words[w] \ bits(w)]
           g == apply_class(f, class, b)
<1>0. /\ WordBits \in Nat \ {0} /\ Words \in Nat \ {0}
      /\ Classes[class] \subseteq 0..Limit-1
  BY FilterAssumption
<1>1. f.words \in [0..Words-1 -> SUBSET (0..WordBits-1)] /\ f.active \in BOOLEAN
  BY DEF FilterSet, WordSet
<1>2. g = [f EXCEPT !.words = W]
  BY DEF apply_class
<1>3. \A w : bits(w) \subseteq 0..WordBits-1
  BY <1>0, WordAndBit
<1>4. W \in WordSet
  <2> HIDE DEF bits
  <2> QED BY <1>1, <1>3 DEF WordSet
<1>5. g \in FilterSet /\ g.words = W
  <2> HIDE DEF g, W
  <2> QED BY <1>2, <1>4 DEF FilterSet
<1>6. ASSUME NEW m \in 0..Limit-1
      PROVE  sg_filter_contains(g, m) <=> IF m \in Classes[class] THEN b
                                          ELSE sg_filter_contains(f, m)
  <2> DEFINE v == m \div WordBits
             c == m % WordBits
  <2>1. v \in 0..Words-1 /\ c \in 0..WordBits-1
    BY WordAndBit
  <2>2. c \in bits(v) <=> m \in Classes[class]
    <3>1. ASSUME m \in Classes[class] PROVE c \in bits(v)
      BY <3>1
    <3>2. ASSUME c \in bits(v) PROVE m \in Classes[class]
      <4>1. PICK n \in Classes[class] : n \div WordBits = v /\ c = n % WordBits
        BY <3>2
      <4>2. n = m
        BY <1>0, <4>1, SameBit
      <4> QED BY <4>2
    <3> QED BY <3>1, <3>2
  <2> HIDE DEF g, bits
  <2>3. /\ sg_filter_contains(g, m) <=> c \in g.words[v]
        /\ sg_filter_contains(f, m) <=> c \in f.words[v]
    BY DEF sg_filter_contains
  <2> HIDE DEF v, c
  <2>4. g.words[v] = IF b THEN f.words[v] \cup bits(v) ELSE f.words[v] \ bits(v)
    BY <1>5, <2>1
  <2> QED BY <2>2, <2>3, <2>4
<1> QED
  BY <1>5, <1>6

(* A freshly cleared filter selects nothing, a filled one everything. *)
LEMMA ClearAndFill ==
  /\ Cleared \in FilterSet /\ [Cleared EXCEPT !.active = TRUE] \in FilterSet
  /\ sg_filter_fill \in FilterSet
  /\ \A n \in 0..Limit-1 : /\ ~sg_filter_contains([Cleared EXCEPT !.active = TRUE], n)
                           /\ sg_filter_contains(sg_filter_fill, n)
<1>1. /\ Cleared \in FilterSet /\ [Cleared EXCEPT !.active = TRUE] \in FilterSet
      /\ sg_filter_fill \in FilterSet
  BY DEF Cleared, FilterSet, WordSet, sg_filter_fill
<1>2. ASSUME NEW n \in 0..Limit-1
      PROVE  /\ ~sg_filter_contains([Cleared EXCEPT !.active = TRUE], n)
             /\ sg_filter_contains(sg_filter_fill, n)
  <2>1. n \div WordBits \in 0..Words-1 /\ n % WordBits \in 0..WordBits-1
    BY WordAndBit
  <2> QED BY <2>1 DEF sg_filter_contains, Cleared, sg_filter_fill
<1> QED BY <1>1, <1>2

-----------------------------------------------------------------------------
(* The numbers of the first w words that are selected. *)
InWords(f, w) == {n \in 0..(w * WordBits - 1) : sg_filter_contains(f, n)}

(* One word more adds as many numbers as it has bits. *)
LEMMA OneWordMore ==
  ASSUME NEW f \in FilterSet, NEW w \in 0..Words-1, IsFiniteSet(InWords(f, w))
  PROVE  /\ IsFiniteSet(InWords(f, w + 1))
         /\ Cardinality(InWords(f, w + 1)) = Cardinality(InWords(f, w)) + Cardinality(f.words[w])
<1> DEFINE B == f.words[w]
           base == w * WordBits
           N == {base + b : b \in B}
<1>0. WordBits \in Nat \ {0} /\ Words \in Nat \ {0} /\ Limit = WordBits * Words /\ w \in Nat
  BY FilterAssumption DEF Limit
<1>1. B \subseteq 0..WordBits-1 /\ base \in Nat
  BY <1>0 DEF FilterSet, WordSet
<1>2. (w + 1) * WordBits = base + WordBits /\ base + WordBits \in Nat
  BY <1>0
<1>3. base + WordBits <= Limit
  <2>1. (w + 1) * WordBits <= Words * WordBits
    BY <1>0
  <2> QED BY <1>0, <1>2, <2>1
<1> HIDE DEF base, B
<1>4. \A n \in 0..(base - 1) : n \in 0..Limit-1
  BY <1>0, <1>1, <1>3
<1>5. ASSUME NEW c \in 0..WordBits-1
      PROVE  (base + c) \div WordBits = w /\ (base + c) % WordBits = c /\ base + c \in 0..Limit-1
  <2>1. base + c \in 0..Limit-1
    BY <1>0, <1>1, <1>3
  <2> DEFINE q == (base + c) \div WordBits
             r == (base + c) % WordBits
  <2>2. q \in 0..Words-1 /\ r \in 0..WordBits-1 /\ base + c = q * WordBits + r
    BY <2>1, WordAndBit
  <2> HIDE DEF q, r
  <2>3. q \in Int /\ r \in Int /\ 0 <= r /\ r < WordBits /\ c \in Int /\ 0 <= c /\ c < WordBits
    BY <1>0, <2>2
  <2>4. w * WordBits + c = q * WordBits + r
    BY <2>2 DEF base
  <2>5. ~(q >= w + 1)
    <3> SUFFICES ASSUME q >= w + 1 PROVE FALSE
      OBVIOUS
    <3>1. q * WordBits >= (w + 1) * WordBits
      BY <1>0, <2>3
    <3> QED BY <1>0, <2>3, <2>4, <3>1
  <2>6. ~(q + 1 <= w)
    <3> SUFFICES ASSUME q + 1 <= w PROVE FALSE
      OBVIOUS
    <3>1. (q + 1) * WordBits <= w * WordBits
      BY <1>0, <2>3
    <3>2. (q + 1) * WordBits = q * WordBits + WordBits
      BY <1>0, <2>3
    <3> QED BY <1>0, <2>3, <2>4, <3>1, <3>2
  <2>7. q = w
    BY <1>0, <2>3, <2>5, <2>6
  <2>8. r = c
    BY <1>0, <2>3, <2>4, <2>7
  <2> QED BY <2>1, <2>7, <2>8 DEF q, r
<1>6. \A c \in 0..WordBits-1 : sg_filter_contains(f, base + c) <=> c \in B
  BY <1>5 DEF sg_filter_contains, B
<1>7. InWords(f, w + 1) = InWords(f, w) \cup N
  <2>1. InWords(f, w) = {n \in 0..(base - 1) : sg_filter_contains(f, n)}
    BY DEF InWords, base
  <2>2. \A n : n \in InWords(f, w + 1)
               <=> n \in 0..(base + WordBits - 1) /\ sg_filter_contains(f, n)
    <3> DEFINE u == (w + 1) * WordBits
    <3>1. u = base + WordBits /\ \A n : n \in InWords(f, w + 1)
                                       <=> n \in 0..(u - 1) /\ sg_filter_contains(f, n)
      BY <1>2 DEF InWords
    <3> HIDE DEF u
    <3> QED BY <1>0, <1>1, <1>2, <3>1
  <2>3. ASSUME NEW n \in InWords(f, w + 1) PROVE n \in InWords(f, w) \cup N
    <3>0. n \in 0..(base + WordBits - 1) /\ sg_filter_contains(f, n)
      BY <2>2
    <3>1. CASE n < base
      <4>1. n \in 0..(base - 1)
        BY <1>0, <1>1, <3>0, <3>1
      <4> QED BY <2>1, <3>0, <4>1
    <3>2. CASE n >= base
      <4>1. n - base \in 0..WordBits-1 /\ n = base + (n - base)
        BY <1>0, <1>1, <3>0, <3>2
      <4>2. n - base \in B
        BY <1>6, <3>0, <4>1
      <4> QED BY <4>1, <4>2
    <3> QED BY <1>0, <1>1, <3>0, <3>1, <3>2
  <2>4. ASSUME NEW n \in InWords(f, w) PROVE n \in InWords(f, w + 1)
    BY <1>0, <1>1, <2>1, <2>2
  <2>5. ASSUME NEW n \in N PROVE n \in InWords(f, w + 1)
    <3>1. PICK b \in B : n = base + b
      OBVIOUS
    <3>2. b \in 0..WordBits-1 /\ n \in 0..(base + WordBits - 1)
      BY <1>0, <1>1, <3>1
    <3> QED BY <1>6, <2>2, <3>1, <3>2
  <2> HIDE DEF N
  <2> QED BY <2>3, <2>4, <2>5
<1>8. InWords(f, w) \cap N = {}
  <2> SUFFICES ASSUME NEW n \in InWords(f, w), n \in N PROVE FALSE
    OBVIOUS
  <2>1. n \in 0..(base - 1)
    BY DEF InWords, base
  <2>2. PICK b \in B : n = base + b
    OBVIOUS
  <2> QED BY <1>0, <1>1, <2>1, <2>2
<1>9. IsFiniteSet(B)
  <2>1. IsFiniteSet(0..WordBits-1)
    <3>1. 0 \in Int /\ WordBits - 1 \in Int
      BY <1>0
    <3> QED BY <3>1, FS_Interval
  <2> QED BY <1>1, <2>1, FS_Subset
<1>10. IsFiniteSet(N) /\ Cardinality(N) = Cardinality(B)
  <2> DEFINE h == [b \in B |-> base + b]
  <2>1. h \in [B -> N] /\ \A x \in N : \E b \in B : h[b] = x
    OBVIOUS
  <2>2. \A b, c \in B : h[b] = h[c] => b = c
    <3>1. \A b \in B : b \in Int
      BY <1>0, <1>1
    <3> QED BY <1>1, <3>1
  <2> HIDE DEF h, N
  <2>3. h \in Bijection(B, N)
    BY <2>1, <2>2 DEF Bijection, Injection, IsInjective, Surjection
  <2>4. ExistsBijection(B, N)
    BY <2>3 DEF ExistsBijection
  <2> QED BY <1>9, <2>4, FS_Bijection
<1> HIDE DEF N
<1>11. /\ IsFiniteSet(InWords(f, w) \cup N)
       /\ Cardinality(InWords(f, w) \cup N)
            = Cardinality(InWords(f, w)) + Cardinality(N) - Cardinality(InWords(f, w) \cap N)
  BY <1>10, FS_Union
<1>12. Cardinality(InWords(f, w)) \in Nat /\ Cardinality(N) \in Nat
  BY <1>10, FS_CardinalityType
<1> QED
  BY <1>7, <1>8, <1>10, <1>11, <1>12, FS_EmptySet DEF B

(* sg_filter_count counts the selected numbers. *)
LEMMA CountIs ==
  ASSUME NEW f \in FilterSet
  PROVE  /\ IsFiniteSet({n \in 0..Limit-1 : sg_filter_contains(f, n)})
         /\ sg_filter_count(f) = Cardinality({n \in 0..Limit-1 : sg_filter_contains(f, n)})
<1> DEFINE F(g, k) == g = [w \in 0..k |-> IF w = 0 THEN 0 ELSE g[w - 1] + Cardinality(f.words[w - 1])]
           Good(k) == \E g : F(g, k)
           Bad == {k \in 0..Words : ~Good(k)}
           count == CHOOSE g : g = [w \in 0..Words |->
                                      IF w = 0 THEN 0 ELSE g[w - 1] + Cardinality(f.words[w - 1])]
<1>0. Words \in Nat \ {0} /\ WordBits \in Nat \ {0} /\ Limit = Words * WordBits
  BY FilterAssumption DEF Limit
<1>1. Bad = {}
  <2> SUFFICES ASSUME Bad # {} PROVE FALSE
    OBVIOUS
  <2>1. Bad \in SUBSET Nat
    <3>1. Bad \subseteq 0..Words
      <4> HIDE DEF Good
      <4> QED OBVIOUS
    <3> HIDE DEF Bad
    <3> QED BY <1>0, <3>1
  <2>2. PICK m \in Bad : \A j \in Bad : m <= j
    <3> HIDE DEF Bad
    <3> QED BY <2>1, LeastElement
  <2>3. m \in 0..Words /\ ~Good(m)
    OBVIOUS
  <2>4. CASE m = 0
    <3>1. F([w \in 0..0 |-> 0], 0)
      OBVIOUS
    <3> QED BY <2>3, <2>4, <3>1
  <2>5. CASE m # 0
    <3>1. m \in Nat /\ m - 1 \in 0..Words /\ ~(m <= m - 1)
      BY <1>0, <2>3, <2>5
    <3>2. m - 1 \notin Bad
      <4> HIDE DEF Bad
      <4> QED BY <2>2, <3>1
    <3>3. PICK h : F(h, m - 1)
      BY <3>1, <3>2
    <3> DEFINE g == [w \in 0..m |-> IF w = m THEN h[m - 1] + Cardinality(f.words[m - 1]) ELSE h[w]]
    <3>4. \A w \in 0..(m - 1) : h[w] = IF w = 0 THEN 0 ELSE h[w - 1] + Cardinality(f.words[w - 1])
      BY <3>3
    <3>5. \A w \in 0..m : g[w] = IF w = 0 THEN 0 ELSE g[w - 1] + Cardinality(f.words[w - 1])
      <4> SUFFICES ASSUME NEW w \in 0..m
                   PROVE  g[w] = IF w = 0 THEN 0 ELSE g[w - 1] + Cardinality(f.words[w - 1])
        OBVIOUS
      <4>1. CASE w = m
        <5>1. g[m] = h[m - 1] + Cardinality(f.words[m - 1]) /\ g[m - 1] = h[m - 1]
          <6>1. m \in 0..m /\ m - 1 \in 0..m /\ m - 1 # m
            BY <3>1, <2>5
          <6> HIDE DEF F
          <6> QED BY <6>1
        <5> QED BY <2>5, <4>1, <5>1
      <4>2. CASE w # m
        <5>1. w \in 0..(m - 1) /\ g[w] = h[w] /\ (w # 0 => g[w - 1] = h[w - 1])
          BY <3>1, <4>2
        <5>2. h[w] = IF w = 0 THEN 0 ELSE h[w - 1] + Cardinality(f.words[w - 1])
          BY <3>4, <5>1
        <5> HIDE DEF g
        <5>3. CASE w = 0
          BY <5>1, <5>2, <5>3
        <5>4. CASE w # 0
          <6>1. g[w - 1] = h[w - 1] /\ g[w] = h[w]
            BY <5>1, <5>4
          <6> QED BY Zenon, <5>2, <5>4, <6>1
        <5> QED BY <5>3, <5>4
      <4> QED BY <4>1, <4>2
    <3>6. F(g, m)
      BY <3>5
    <3> QED BY <2>3, <3>6
  <2> QED BY <2>4, <2>5
<1>2. F(count, Words)
  <2>0. Words \in 0..Words
    BY <1>0
  <2>1. Good(Words)
    <3> HIDE DEF Good
    <3> QED BY <1>1, <2>0
  <2> QED BY Zenon, <2>1
<1>3. sg_filter_count(f) = count[Words]
  BY Zenon DEF sg_filter_count
<1> HIDE DEF count
<1>4. \A w \in 0..Words : count[w] = IF w = 0 THEN 0 ELSE count[w - 1] + Cardinality(f.words[w - 1])
  BY <1>2
<1> DEFINE Right(w) == /\ IsFiniteSet(InWords(f, w))
                       /\ count[w] = Cardinality(InWords(f, w))
           Off == {w \in 0..Words : ~Right(w)}
<1>5. Off = {}
  <2> SUFFICES ASSUME Off # {} PROVE FALSE
    OBVIOUS
  <2>1. Off \in SUBSET Nat
    <3> HIDE DEF Right
    <3> QED BY <1>0
  <2>2. PICK m \in Off : \A j \in Off : m <= j
    <3> HIDE DEF Off
    <3> QED BY <2>1, LeastElement
  <2>3. m \in 0..Words /\ ~Right(m)
    OBVIOUS
  <2>4. CASE m = 0
    <3>1. InWords(f, 0) = {}
      <4>1. 0 * WordBits - 1 = -1
        BY <1>0
      <4>2. 0..(-1) = {}
        OBVIOUS
      <4> QED BY <4>1, <4>2 DEF InWords
    <3>2. count[0] = 0
      BY <1>0, <1>4
    <3> QED BY <2>3, <2>4, <3>1, <3>2, FS_EmptySet
  <2>5. CASE m # 0
    <3>1. m \in Nat /\ m - 1 \in 0..Words /\ m - 1 \in 0..Words-1 /\ ~(m <= m - 1) /\ (m - 1) + 1 = m
      BY <1>0, <2>3, <2>5
    <3>2. m - 1 \notin Off
      <4> HIDE DEF Off
      <4> QED BY <2>2, <3>1
    <3>3. Right(m - 1)
      <4> HIDE DEF Right
      <4> QED BY <3>1, <3>2
    <3>4. count[m] = count[m - 1] + Cardinality(f.words[m - 1])
      BY <1>4, <2>3, <2>5
    <3>5. /\ IsFiniteSet(InWords(f, (m - 1) + 1))
          /\ Cardinality(InWords(f, (m - 1) + 1))
               = Cardinality(InWords(f, m - 1)) + Cardinality(f.words[m - 1])
      BY <3>1, <3>3, OneWordMore
    <3>6. Right(m)
      BY <3>1, <3>3, <3>4, <3>5
    <3> QED BY <2>3, <3>6
  <2> QED BY <2>4, <2>5
<1>6. Right(Words)
  <2> HIDE DEF Right
  <2> QED BY <1>0, <1>5
<1>7. InWords(f, Words) = {n \in 0..Limit-1 : sg_filter_contains(f, n)}
  BY <1>0 DEF InWords
<1> QED
  BY <1>3, <1>6, <1>7

-----------------------------------------------------------------------------
(* One term more: it decides for the calls it mentions. *)
LEMMA OneTermMore ==
  ASSUME NEW k \in Nat \ {0}, NEW f, NEW g, Selects(f, k - 1),
         \A n \in 0..Limit-1 : sg_filter_contains(g, n)
                               <=> IF Mentions(spec[k], n) THEN ~spec[k].neg
                                   ELSE sg_filter_contains(f, n)
  PROVE  Selects(g, k)
<1> SUFFICES ASSUME NEW n \in 0..Limit-1
             PROVE  sg_filter_contains(g, n)
                    <=> IF Named(n, k) # {} THEN ~spec[Max(Named(n, k))].neg
                        ELSE ~has_positive_term(spec)
  BY DEF Selects
<1>1. k \in 1..k /\ \A i \in 1..k : i # k => i \in 1..(k - 1)
  OBVIOUS
<1>2. CASE Mentions(spec[k], n)
  <2>1. k \in Named(n, k) /\ Named(n, k) \subseteq 0..k
    BY <1>1, <1>2 DEF Named
  <2>2. Max(Named(n, k)) \in Named(n, k) /\ \A y \in Named(n, k) : y <= Max(Named(n, k))
    <3> DEFINE K == Named(n, k)
    <3>1. K \subseteq 0..k /\ K # {}
      BY <2>1
    <3> HIDE DEF K
    <3>2. Max(K) \in K /\ \A y \in K : y <= Max(K)
      BY <3>1, GreatestIs
    <3> QED BY <3>2 DEF K
  <2>3. Max(Named(n, k)) = k
    <3>1. Max(Named(n, k)) \in 0..k /\ k <= Max(Named(n, k))
      BY <2>1, <2>2
    <3> QED BY <3>1
  <2> QED BY <1>2, <2>1, <2>3
<1>3. CASE ~Mentions(spec[k], n)
  <2>1. Named(n, k) = Named(n, k - 1)
    BY <1>1, <1>3 DEF Named
  <2>2. sg_filter_contains(f, n)
        <=> IF Named(n, k - 1) # {} THEN ~spec[Max(Named(n, k - 1))].neg
            ELSE ~has_positive_term(spec)
    BY DEF Selects
  <2>3. sg_filter_contains(g, n) <=> sg_filter_contains(f, n)
    BY <1>3
  <2> QED BY Zenon, <2>1, <2>2, <2>3
<1> QED BY <1>2, <1>3

(* A term applied to a filter. *)
LEMMA AppliedIs ==
  ASSUME NEW f \in FilterSet, NEW t \in Term, t.kind \in {"name", "class"}
  PROVE  /\ Applied(f, t) \in FilterSet
         /\ \A n \in 0..Limit-1 : sg_filter_contains(Applied(f, t), n)
                                  <=> IF Mentions(t, n) THEN ~t.neg
                                      ELSE sg_filter_contains(f, n)
<1>0. t.neg \in BOOLEAN
  BY DEF Term
<1> DEFINE b == ~t.neg
<1>b. b \in BOOLEAN
  OBVIOUS
<1>1. CASE t.kind = "name"
  <2>1. t.what \in 0..Limit-1
    BY <1>1, FilterAssumption DEF Term
  <2>2. Applied(f, t) = set_number(f, t.what, b)
    BY <1>1 DEF Applied
  <2>3. \A n : Mentions(t, n) <=> n = t.what
    BY <1>1 DEF Mentions
  <2> HIDE DEF b
  <2>4. /\ set_number(f, t.what, b) \in FilterSet
        /\ \A m \in 0..Limit-1 : sg_filter_contains(set_number(f, t.what, b), m)
                                  <=> IF m = t.what THEN b ELSE sg_filter_contains(f, m)
    BY <1>b, <2>1, SetNumber
  <2>5. b <=> ~t.neg
    BY DEF b
  <2> QED BY <2>2, <2>3, <2>4, <2>5
<1>2. CASE t.kind = "class"
  <2>1. t.what \in DOMAIN Classes
    BY <1>2 DEF Term
  <2>2. Applied(f, t) = apply_class(f, t.what, b)
    BY <1>2 DEF Applied
  <2>3. \A n : Mentions(t, n) <=> n \in Classes[t.what]
    BY <1>2 DEF Mentions
  <2> HIDE DEF b
  <2>4. /\ apply_class(f, t.what, b) \in FilterSet
        /\ \A m \in 0..Limit-1 : sg_filter_contains(apply_class(f, t.what, b), m)
                                  <=> IF m \in Classes[t.what] THEN b
                                      ELSE sg_filter_contains(f, m)
    BY <1>b, <2>1, ApplyClass
  <2>5. b <=> ~t.neg
    BY DEF b
  <2> QED BY <2>2, <2>3, <2>4, <2>5
<1> QED BY <1>1, <1>2


LEMMA FilterInit == Init => FilterInv
<1> SUFFICES ASSUME Init PROVE FilterInv
  OBVIOUS
<1>1. Cleared \in FilterSet
  BY ClearAndFill
<1> QED
  BY <1>1 DEF Init, FilterInv, sg_filter_clear

LEMMA BeginKeeps ==
  ASSUME FilterInv, NEW s \in Specs, Begin(s)
  PROVE  FilterInv'
<1>1. s \in Seq(Term) /\ s # << >> /\ Len(s) \in Nat /\ Len(s) # 0
  <2>1. PICK k \in 1..MaxTerms : s \in [1..k -> Term]
    BY DEF Specs
  <2>2. k \in Nat
    BY FilterAssumption
  <2>3. s \in Seq(Term)
    BY <2>1, <2>2
  <2> QED BY <2>3 DEF Begin
<1>2. /\ spec' = s /\ at' = 1 /\ pc' = "term" /\ filter' = filter
      /\ candidate' = IF has_positive_term(s) THEN [Cleared EXCEPT !.active = TRUE]
                      ELSE sg_filter_fill
  BY DEF Begin, sg_filter_clear
<1>3. candidate' \in FilterSet
  BY <1>2, ClearAndFill
<1>4. filter = Cleared /\ filter \in FilterSet
  BY DEF FilterInv, Begin
<1>5. Selects(candidate, 0)'
  <2>1. \A n : Named(n, 0)' = {}
    <3>1. 1..0 = {}
      OBVIOUS
    <3> QED BY <3>1 DEF Named
  <2>2. ASSUME NEW n \in 0..Limit-1
        PROVE  sg_filter_contains(candidate', n) <=> ~has_positive_term(s)
    BY <1>2, ClearAndFill
  <2> QED BY <1>2, <2>1, <2>2 DEF Selects, has_positive_term
<1>6. Known(0)'
  BY DEF Known
<1>7. at' \in 1..Len(spec') /\ at' - 1 = 0 /\ at' \in Nat
  BY <1>1, <1>2
<1>8. Selects(candidate, at - 1)' /\ Known(at - 1)'
  <2>1. (at - 1)' = 0
    BY <1>7
  <2> QED BY <2>1, <1>5, <1>6 DEF Selects, Known, Named
<1> QED
  BY <1>1, <1>2, <1>3, <1>4, <1>7, <1>5, <1>6, <1>8 DEF FilterInv

LEMMA ParseKeeps ==
  ASSUME FilterInv, ParseTerm
  PROVE  FilterInv'
<1> DEFINE t == spec[at]
           c == Applied(candidate, t)
<1>1. /\ pc = "term" /\ at \in 1..Len(spec) /\ Selects(candidate, at - 1) /\ Known(at - 1)
      /\ spec \in Seq(Term) /\ at \in Nat /\ candidate \in FilterSet /\ filter \in FilterSet
      /\ filter = Cleared
  BY DEF FilterInv, ParseTerm
<1>2. t \in Term
  BY <1>1
<1>3. spec' = spec /\ program' = program /\ capacity' = capacity
  BY DEF ParseTerm
<1>4. CASE t.kind \in {"name", "class"}
  <2>1. /\ candidate' = c /\ filter' = Stored(c) /\ at' = at + 1
        /\ pc' = IF at = Len(spec) THEN "accepted" ELSE "term"
    BY <1>4 DEF ParseTerm
  <2>2. /\ c \in FilterSet
        /\ \A n \in 0..Limit-1 : sg_filter_contains(c, n)
                                 <=> IF Mentions(t, n) THEN ~t.neg
                                     ELSE sg_filter_contains(candidate, n)
    <3> HIDE DEF t
    <3> QED BY <1>1, <1>2, <1>4, AppliedIs
  <2>3. Selects(c, at)
    <3> HIDE DEF c
    <3>1. at \in Nat \ {0}
      BY <1>1
    <3> QED BY <1>1, <2>2, <3>1, OneTermMore
  <2>4. Known(at)
    BY <1>1, <1>4 DEF Known
  <2> HIDE DEF c
  <2>5. CASE at = Len(spec)
    <3>1. filter' = c /\ pc' = "accepted" /\ candidate' = c
      BY <2>1, <2>5 DEF Stored
    <3>2. Selects(filter, Len(spec))' /\ Known(Len(spec))'
      BY <1>3, <2>3, <2>4, <2>5, <3>1 DEF Selects, Known, Named
    <3> QED BY <1>1, <1>3, <2>1, <2>2, <3>1, <3>2 DEF FilterInv
  <2>6. CASE at # Len(spec)
    <3>1. filter' = Cleared /\ filter' = filter /\ pc' = "term" /\ candidate' = c
      BY <1>1, <2>1, <2>6 DEF Stored
    <3>2. (at - 1)' = at /\ at' \in 1..Len(spec') /\ at' \in Nat
      BY <1>1, <1>3, <2>1, <2>6
    <3>3. Selects(candidate, at - 1)' /\ Known(at - 1)'
      BY <1>3, <2>3, <2>4, <3>1, <3>2 DEF Selects, Known, Named
    <3> QED BY <1>1, <1>3, <2>2, <3>1, <3>2, <3>3 DEF FilterInv
  <2> QED BY <2>5, <2>6
<1>5. CASE t.kind \notin {"name", "class"}
  <2>1. pc' = "rejected" /\ UNCHANGED <<candidate, filter, at>>
    BY <1>5 DEF ParseTerm
  <2> QED BY <1>1, <1>3, <2>1 DEF FilterInv
<1> QED BY <1>4, <1>5

LEMMA FilterNext == FilterInv /\ [Next]_vars => FilterInv'
<1> SUFFICES ASSUME FilterInv, [Next]_vars PROVE FilterInv'
  OBVIOUS
<1>1. CASE Malformed
  BY <1>1 DEF Malformed, FilterInv
<1>2. CASE \E s \in Specs : Begin(s)
  BY <1>2, BeginKeeps
<1>3. CASE ParseTerm
  BY <1>3, ParseKeeps
<1>4. CASE Prepare
  <2>1. /\ pc = "accepted" /\ pc' = "program" /\ UNCHANGED <<spec, at, candidate, filter>>
        /\ program' = Program(filter) /\ capacity' = Capacity(filter)
    BY <1>4 DEF Prepare
  <2>2. Selects(filter, Len(spec)) /\ Known(Len(spec))
    BY <2>1 DEF FilterInv
  <2>3. Selects(filter, Len(spec))' /\ Known(Len(spec))'
    BY <2>1, <2>2 DEF Selects, Known, Named
  <2>4. program' = Program(filter') /\ capacity' = Capacity(filter')
    BY <2>1
  <2>5. /\ spec \in Seq(Term) /\ at \in Nat /\ candidate \in FilterSet /\ filter \in FilterSet
    BY DEF FilterInv
  <2> QED BY <2>1, <2>3, <2>4, <2>5 DEF FilterInv
<1>5. CASE Stop \/ UNCHANGED vars
  <2>1. UNCHANGED vars
    BY <1>5 DEF Stop
  <2> QED BY <2>1 DEF vars, FilterInv, Selects, Known, Named
<1> QED BY <1>1, <1>2, <1>3, <1>4, <1>5 DEF Next

LEMMA AlwaysFilterInv == Spec => []FilterInv
BY FilterInit, FilterNext, PTL DEF Spec

(* Where no positive term takes a call back, the last term that names it,  *)
(* if one does, says what all of them together say.                        *)
LEMMA LastSpeaks ==
  ASSUME spec \in Seq(Term), NEW n, ~Retaken(n)
  PROVE  Documented(n) <=> IF Mentioning(n) # {} THEN ~spec[Max(Mentioning(n))].neg
                           ELSE \A i \in DOMAIN spec : spec[i].neg
<1>1. /\ Mentioning(n) \subseteq 1..Len(spec) /\ Len(spec) \in Nat
      /\ \A i \in Mentioning(n) : spec[i].neg \in BOOLEAN
  <2>1. \A i \in DOMAIN spec : spec[i] \in Term
    OBVIOUS
  <2>2. \A t \in Term : t.neg \in BOOLEAN
    BY DEF Term
  <2> QED BY <2>1, <2>2 DEF Mentioning
<1>2. CASE Mentioning(n) = {}
  BY <1>2 DEF Documented
<1>3. CASE Mentioning(n) # {}
  <2> DEFINE m == Max(Mentioning(n))
  <2>1. m \in Mentioning(n) /\ \A i \in Mentioning(n) : i <= m
    <3> DEFINE K == Mentioning(n)
    <3>1. Len(spec) \in Nat /\ K \subseteq 0..Len(spec) /\ K # {}
      BY <1>1, <1>3
    <3> HIDE DEF K
    <3>2. Max(K) \in K /\ \A i \in K : i <= Max(K)
      BY <3>1, GreatestIs
    <3> QED BY <3>2 DEF K
  <2> HIDE DEF m
  <2>2. CASE spec[m].neg
    BY <1>3, <2>1, <2>2 DEF Documented, m
  <2>3. CASE ~spec[m].neg
    <3>1. ASSUME NEW i \in Mentioning(n) PROVE ~spec[i].neg
      <4>1. i = m \/ i < m
        BY <1>1, <2>1
      <4> QED BY <2>1, <2>3, <4>1 DEF Retaken
    <3>2. Documented(n)
      BY <2>1, <2>3, <3>1 DEF Documented
    <3> QED BY <1>3, <2>3, <3>2 DEF m
  <2> QED BY <2>2, <2>3
<1> QED BY <1>2, <1>3

LEMMA MeaningFollows == FilterInv => FilterMeaning
<1> SUFFICES ASSUME FilterInv PROVE FilterMeaning
  OBVIOUS
<1> DEFINE Wanted(n) == IF Mentioning(n) # {} THEN ~spec[Max(Mentioning(n))].neg
                        ELSE \A i \in DOMAIN spec : spec[i].neg
           Read(n) == IF Retaken(n) THEN ~spec[Max(Mentioning(n))].neg ELSE Documented(n)
<1>1. pc \in {"term", "rejected"} => filter = Cleared
  BY DEF FilterInv
<1>2. ASSUME pc \in {"accepted", "program"}
      PROVE  /\ \A n \in 0..Limit-1 : sg_filter_contains(filter, n) <=> Read(n)
             /\ sg_filter_count(filter) = Cardinality({n \in 0..Limit-1 : sg_filter_contains(filter, n)})
  <2>1. /\ Selects(filter, Len(spec)) /\ Known(Len(spec)) /\ filter \in FilterSet
        /\ spec \in Seq(Term) /\ DOMAIN spec = 1..Len(spec)
    BY <1>2 DEF FilterInv
  <2>2. ~has_positive_term(spec) <=> \A i \in DOMAIN spec : spec[i].neg
    BY <2>1 DEF Known, has_positive_term
  <2>3. ASSUME NEW n \in 0..Limit-1
        PROVE  sg_filter_contains(filter, n) <=> Read(n)
    <3>1. Mentioning(n) = Named(n, Len(spec))
      BY <2>1 DEF Mentioning, Named
    <3>2. sg_filter_contains(filter, n)
          <=> IF Named(n, Len(spec)) # {} THEN ~spec[Max(Named(n, Len(spec)))].neg
              ELSE ~has_positive_term(spec)
      BY <2>1 DEF Selects
    <3>3. sg_filter_contains(filter, n) <=> Wanted(n)
      BY Zenon, <2>2, <3>1, <3>2
    <3>4. CASE Retaken(n)
      <4>1. Mentioning(n) # {}
        BY <3>4 DEF Retaken
      <4> QED BY Zenon, <3>3, <3>4, <4>1
    <3>5. CASE ~Retaken(n)
      <4>1. Documented(n) <=> Wanted(n)
        BY Zenon, <2>1, <3>5, LastSpeaks
      <4> QED BY Zenon, <3>3, <3>5, <4>1
    <3> QED BY Zenon, <3>4, <3>5
  <2>4. sg_filter_count(filter) = Cardinality({n \in 0..Limit-1 : sg_filter_contains(filter, n)})
    BY <2>1, CountIs
  <2> QED BY Zenon, <2>3, <2>4
<1> QED
  BY Zenon, <1>1, <1>2 DEF FilterMeaning

(* An accepted expression selects what README.md says, call by call, save  *)
(* that a positive term after a negative one takes a call back, and the    *)
(* count of the bits is the number of calls; a rejected one leaves the     *)
(* caller's filter as it was (sg_filter_parse, sg_filter_contains,         *)
(* sg_filter_count): for every catalogue, classes and word size.           *)
THEOREM FilterAsWritten == Spec => []FilterMeaning
BY AlwaysFilterInv, MeaningFollows, PTL

-----------------------------------------------------------------------------
(* The calls below n that get a test in the program. *)
Tested(f, n) == {k \in 0..(n - 1) : InProgram(f, k)}
Tests(f, n)  == Cardinality(Tested(f, n))

TestsFor(f, n) == IF InProgram(f, n) THEN Test(n) ELSE << >>

One(op, jt, jf, k) == [op |-> op, jt |-> jt, jf |-> jf, k |-> k]

(* p begins with the preamble, and holds the test of every call below n,   *)
(* behind the tests of the smaller ones.                                   *)
LaidOut(p, f, n) ==
  /\ p[1] = One("load", 0, 0, "arch") /\ p[2] = One("jeq", 1, 0, "x86_64")
  /\ p[3] = One("ret", 0, 0, "bad_arch") /\ p[4] = One("load", 0, 0, "nr")
  /\ p[5] = One("jge", 0, 1, X32Bit) /\ p[6] = One("ret", 0, 0, "bad_abi")
  /\ \A k \in Tested(f, n) : /\ p[7 + 2 * Tests(f, k)] = One("jeq", 0, 1, k)
                             /\ p[8 + 2 * Tests(f, k)] = One("ret", 0, 0, "trace")

Instructions == [op : {"load", "jeq", "jge", "ret"}, jt : Nat, jf : Nat,
                 k : {"arch", "x86_64", "bad_arch", "nr", "bad_abi", "trace", "allow"} \cup Int]

LEMMA LimitType == Limit \in Nat
BY FilterAssumption DEF Limit

LEMMA TestsType ==
  ASSUME NEW f, NEW n \in Nat
  PROVE  /\ IsFiniteSet(Tested(f, n)) /\ Tests(f, n) \in Nat
         /\ Tests(f, n + 1) = Tests(f, n) + IF InProgram(f, n) THEN 1 ELSE 0
         /\ Tested(f, n + 1) = IF InProgram(f, n) THEN Tested(f, n) \cup {n} ELSE Tested(f, n)
<1>1. IsFiniteSet(Tested(f, n))
  <2>1. IsFiniteSet(0..(n - 1))
    <3>1. 0 \in Int /\ n - 1 \in Int
      OBVIOUS
    <3> QED BY <3>1, FS_Interval
  <2> QED BY <2>1, FS_Subset DEF Tested
<1>2. Tests(f, n) \in Nat
  BY <1>1, FS_CardinalityType DEF Tests
<1>3. \A k : k \in 0..n <=> k \in 0..(n - 1) \/ k = n
  OBVIOUS
<1>4. Tested(f, n + 1) = IF InProgram(f, n) THEN Tested(f, n) \cup {n} ELSE Tested(f, n)
  <2>1. n + 1 - 1 = n
    OBVIOUS
  <2>2. \A k : k \in Tested(f, n + 1) <=> k \in 0..n /\ InProgram(f, k)
    BY <2>1 DEF Tested
  <2>3. \A k : k \in Tested(f, n) <=> k \in 0..(n - 1) /\ InProgram(f, k)
    BY DEF Tested
  <2> QED BY <1>3, <2>2, <2>3
<1>5. n \notin Tested(f, n)
  BY DEF Tested
<1>6. Cardinality(Tested(f, n) \cup {n}) = Cardinality(Tested(f, n)) + 1
  BY <1>1, <1>5, FS_AddElement
<1>7. CASE InProgram(f, n)
  BY <1>1, <1>2, <1>4, <1>6, <1>7 DEF Tests
<1>8. CASE ~InProgram(f, n)
  BY <1>1, <1>2, <1>4, <1>8 DEF Tests
<1> QED BY <1>7, <1>8

(* There are at least as many tests below n as below any smaller call, and *)
(* one more if that one is tested.                                         *)
LEMMA TestsGrow ==
  ASSUME NEW f, NEW n \in Nat, NEW k \in 0..(n - 1)
  PROVE  Tests(f, k + 1) <= Tests(f, n) /\ Tests(f, k) \in Nat /\ Tests(f, k + 1) \in Nat
<1>1. Tested(f, k + 1) \subseteq Tested(f, n)
  BY DEF Tested
<1>2. IsFiniteSet(Tested(f, n)) /\ Tests(f, k) \in Nat /\ Tests(f, k + 1) \in Nat
  <2>1. k \in Nat /\ k + 1 \in Nat
    OBVIOUS
  <2> QED BY <2>1, TestsType
<1> QED BY <1>1, <1>2, FS_Subset DEF Tests

(* What a sequence is that has been appended to. *)
Join(q, s, r)     == q = s \o r
JoinOne(q, s, x)  == q = s \o <<x>>

LEMMA Joined ==
  ASSUME NEW s \in Seq(Instructions), NEW r \in Seq(Instructions), NEW q, Join(q, s, r)
  PROVE  /\ q \in Seq(Instructions) /\ Len(q) = Len(s) + Len(r)
         /\ \A i \in 1..Len(s) : q[i] = s[i]
         /\ \A i \in 1..Len(r) : q[Len(s) + i] = r[i]
<1>1. s \o r \in Seq(Instructions) /\ Len(s \o r) = Len(s) + Len(r) /\ Len(s) \in Nat /\ Len(r) \in Nat
  OBVIOUS
<1>2. ASSUME NEW i \in 1..Len(s) PROVE (s \o r)[i] = s[i]
  BY <1>1
<1>3. ASSUME NEW i \in 1..Len(r) PROVE (s \o r)[Len(s) + i] = r[i]
  <2>1. Len(s) + i \in 1..(Len(s) + Len(r)) /\ ~(Len(s) + i <= Len(s)) /\ (Len(s) + i) - Len(s) = i
    BY <1>1
  <2>2. \A j \in 1..(Len(s) + Len(r)) : (s \o r)[j] = IF j <= Len(s) THEN s[j] ELSE r[j - Len(s)]
    OBVIOUS
  <2> QED BY <2>1, <2>2
<1> QED BY Zenon, <1>1, <1>2, <1>3 DEF Join

LEMMA OneJoined ==
  ASSUME NEW s \in Seq(Instructions), NEW x \in Instructions, NEW q, JoinOne(q, s, x)
  PROVE  /\ q \in Seq(Instructions) /\ Len(q) = Len(s) + 1
         /\ \A i \in 1..Len(s) : q[i] = s[i]
         /\ q[Len(s) + 1] = x
<1> DEFINE r == <<x>>
<1>1. r \in Seq(Instructions) /\ Len(r) = 1 /\ r[1] = x /\ 1 \in 1..1 /\ Join(q, s, r)
  BY DEF Join, JoinOne
<1> HIDE DEF r
<1>2. /\ q \in Seq(Instructions) /\ Len(q) = Len(s) + Len(r)
      /\ \A i \in 1..Len(s) : q[i] = s[i]
      /\ \A i \in 1..Len(r) : q[Len(s) + i] = r[i]
  BY <1>1, Joined, ZenonT(40)
<1> QED BY <1>1, <1>2

(* The loop appends the test of one call. *)
LEMMA AppendTest ==
  ASSUME NEW f, NEW n \in Nat, NEW p \in Seq(Instructions),
         LaidOut(p, f, n), Len(p) = 6 + 2 * Tests(f, n)
  PROVE  /\ p \o TestsFor(f, n) \in Seq(Instructions)
         /\ LaidOut(p \o TestsFor(f, n), f, n + 1)
         /\ Len(p \o TestsFor(f, n)) = 6 + 2 * Tests(f, n + 1)
<1> DEFINE c == Tests(f, n)
           a == One("jeq", 0, 1, n)
           b == One("ret", 0, 0, "trace")
           q == p \o TestsFor(f, n)
<1>1. /\ c \in Nat /\ Tests(f, n + 1) = c + (IF InProgram(f, n) THEN 1 ELSE 0)
      /\ Tested(f, n + 1) = IF InProgram(f, n) THEN Tested(f, n) \cup {n} ELSE Tested(f, n)
  BY TestsType
<1>2. CASE ~InProgram(f, n)
  <2>1. TestsFor(f, n) = << >> /\ q = p
    BY <1>2 DEF TestsFor
  <2> HIDE DEF q, c
  <2>2. Tests(f, n + 1) = c /\ Tested(f, n + 1) = Tested(f, n)
    BY <1>1, <1>2
  <2>3. LaidOut(p, f, n + 1) /\ Len(p) = 6 + 2 * Tests(f, n + 1)
    BY <2>2 DEF LaidOut, c
  <2>4. q = p \o TestsFor(f, n)
    BY DEF q
  <2> QED BY Zenon, <2>1, <2>3, <2>4
<1>3. CASE InProgram(f, n)
  <2>1. TestsFor(f, n) = <<a>> \o <<b>>
    BY <1>3 DEF TestsFor, Test, Instruction, One
  <2>2. a \in Instructions /\ b \in Instructions
    BY DEF Instructions, One
  <2> HIDE DEF a, b, c
  <2>3. /\ q \in Seq(Instructions) /\ Len(q) = Len(p) + 2
        /\ \A i \in 1..Len(p) : q[i] = p[i]
        /\ q[Len(p) + 1] = a /\ q[Len(p) + 2] = b
    <3> DEFINE s == <<a>>
               r == s \o <<b>>
    <3>1. s \in Seq(Instructions) /\ Len(s) = 1 /\ s[1] = a
      BY <2>2
    <3>2. Join(q, p, r)
      BY <2>1 DEF Join
    <3> HIDE DEF s
    <3>3. /\ r \in Seq(Instructions) /\ Len(r) = Len(s) + 1
          /\ \A i \in 1..Len(s) : r[i] = s[i]
          /\ r[Len(s) + 1] = b
      <4>1. JoinOne(r, s, b)
        BY DEF JoinOne
      <4> HIDE DEF r
      <4> QED BY <2>2, <3>1, <4>1, OneJoined, ZenonT(40)
    <3> HIDE DEF r, q
    <3>4. Len(r) = 2 /\ r[1] = a /\ r[2] = b /\ 1 \in 1..2 /\ 2 \in 1..2
      BY <3>1, <3>3
    <3>5. /\ q \in Seq(Instructions) /\ Len(q) = Len(p) + Len(r)
          /\ \A i \in 1..Len(p) : q[i] = p[i]
          /\ \A i \in 1..Len(r) : q[Len(p) + i] = r[i]
      BY <3>2, <3>3, Joined, SMTT(30)
    <3> QED BY <3>4, <3>5
  <2> HIDE DEF q
  <2>4. Len(p) = 6 + 2 * c /\ c \in Nat
    BY <1>1 DEF c
  <2>5. Len(q) = 6 + 2 * Tests(f, n + 1)
    <3>1. Tests(f, n + 1) = c + 1
      BY <1>1, <1>3
    <3> QED BY <2>3, <2>4, <3>1
  <2>6. q[7 + 2 * c] = a /\ q[8 + 2 * c] = b
    BY <2>3, <2>4
  <2>7. ASSUME NEW k \in Tested(f, n)
        PROVE  q[7 + 2 * Tests(f, k)] = One("jeq", 0, 1, k) /\ q[8 + 2 * Tests(f, k)] = b
    <3>1. k \in 0..(n - 1) /\ InProgram(f, k) /\ k \in Nat
      BY DEF Tested
    <3>2. Tests(f, k + 1) <= c /\ Tests(f, k) \in Nat
      BY <3>1, TestsGrow DEF c
    <3>3. Tests(f, k + 1) = Tests(f, k) + 1
      BY <3>1, TestsType
    <3>4. 7 + 2 * Tests(f, k) \in 1..Len(p) /\ 8 + 2 * Tests(f, k) \in 1..Len(p)
      BY <2>4, <3>2, <3>3
    <3> QED BY <2>3, <3>4 DEF LaidOut, b
  <2>8. /\ q[1] = p[1] /\ q[2] = p[2] /\ q[3] = p[3]
        /\ q[4] = p[4] /\ q[5] = p[5] /\ q[6] = p[6]
    BY <2>3, <2>4
  <2>9. LaidOut(q, f, n + 1)
    BY <1>1, <1>3, <2>6, <2>7, <2>8 DEF LaidOut, a, b, c
  <2> QED BY <2>3, <2>5, <2>9 DEF q
<1> QED BY <1>2, <1>3

LEMMA PreambleIs ==
  ASSUME NEW f
  PROVE  Preamble \in Seq(Instructions) /\ Len(Preamble) = 6 /\ LaidOut(Preamble, f, 0)
<1>0. Tested(f, 0) = {}
  <2>1. 0..(0 - 1) = {}
    OBVIOUS
  <2> QED BY <2>1 DEF Tested
<1> DEFINE a1 == One("load", 0, 0, "arch")
           a2 == One("jeq", 1, 0, "x86_64")
           a3 == One("ret", 0, 0, "bad_arch")
           a4 == One("load", 0, 0, "nr")
           a5 == One("jge", 0, 1, X32Bit)
           a6 == One("ret", 0, 0, "bad_abi")
           p1 == <<a1>>
           p2 == p1 \o <<a2>>
           p3 == p2 \o <<a3>>
           p4 == p3 \o <<a4>>
           p5 == p4 \o <<a5>>
           p6 == p5 \o <<a6>>
<1>3. Preamble = p6
  BY Zenon DEF Preamble, Instruction, One
<1>4. /\ a1 \in Instructions /\ a2 \in Instructions /\ a3 \in Instructions
      /\ a4 \in Instructions /\ a5 \in Instructions /\ a6 \in Instructions
  BY FilterAssumption DEF One, Instructions
<1> HIDE DEF a1, a2, a3, a4, a5, a6
<1>11. p1 \in Seq(Instructions) /\ Len(p1) = 1 /\ p1[1] = a1
  BY <1>4
<1> HIDE DEF p1
<1>12. p2 \in Seq(Instructions) /\ Len(p2) = 2 /\ p2[1] = a1 /\ p2[2] = a2
  <2>1. /\ p2 \in Seq(Instructions) /\ Len(p2) = Len(p1) + 1
        /\ \A i \in 1..Len(p1) : p2[i] = p1[i]
        /\ p2[Len(p1) + 1] = a2
    <3>1. JoinOne(p2, p1, a2)
      BY DEF JoinOne
    <3> HIDE DEF p2
    <3> QED BY <1>4, <1>11, <3>1, OneJoined, ZenonT(40)
  <2> QED BY <1>11, <2>1
<1> HIDE DEF p2
<1>13. p3 \in Seq(Instructions) /\ Len(p3) = 3 /\ p3[1] = a1 /\ p3[2] = a2 /\ p3[3] = a3
  <2>1. /\ p3 \in Seq(Instructions) /\ Len(p3) = Len(p2) + 1
        /\ \A i \in 1..Len(p2) : p3[i] = p2[i]
        /\ p3[Len(p2) + 1] = a3
    <3>1. JoinOne(p3, p2, a3)
      BY DEF JoinOne
    <3> HIDE DEF p3
    <3> QED BY <1>4, <1>12, <3>1, OneJoined, ZenonT(40)
  <2> QED BY <1>12, <2>1
<1> HIDE DEF p3
<1>14. p4 \in Seq(Instructions) /\ Len(p4) = 4 /\ p4[1] = a1 /\ p4[2] = a2 /\ p4[3] = a3 /\ p4[4] = a4
  <2>1. /\ p4 \in Seq(Instructions) /\ Len(p4) = Len(p3) + 1
        /\ \A i \in 1..Len(p3) : p4[i] = p3[i]
        /\ p4[Len(p3) + 1] = a4
    <3>1. JoinOne(p4, p3, a4)
      BY DEF JoinOne
    <3> HIDE DEF p4
    <3> QED BY <1>4, <1>13, <3>1, OneJoined, ZenonT(40)
  <2> QED BY <1>13, <2>1
<1> HIDE DEF p4
<1>15. /\ p5 \in Seq(Instructions) /\ Len(p5) = 5 /\ p5[1] = a1 /\ p5[2] = a2 /\ p5[3] = a3
       /\ p5[4] = a4 /\ p5[5] = a5
  <2>1. /\ p5 \in Seq(Instructions) /\ Len(p5) = Len(p4) + 1
        /\ \A i \in 1..Len(p4) : p5[i] = p4[i]
        /\ p5[Len(p4) + 1] = a5
    <3>1. JoinOne(p5, p4, a5)
      BY DEF JoinOne
    <3> HIDE DEF p5
    <3> QED BY <1>4, <1>14, <3>1, OneJoined, ZenonT(40)
  <2> QED BY <1>14, <2>1
<1> HIDE DEF p5
<1>16. /\ p6 \in Seq(Instructions) /\ Len(p6) = 6 /\ p6[1] = a1 /\ p6[2] = a2 /\ p6[3] = a3
       /\ p6[4] = a4 /\ p6[5] = a5 /\ p6[6] = a6
  <2>1. /\ p6 \in Seq(Instructions) /\ Len(p6) = Len(p5) + 1
        /\ \A i \in 1..Len(p5) : p6[i] = p5[i]
        /\ p6[Len(p5) + 1] = a6
    <3>1. JoinOne(p6, p5, a6)
      BY DEF JoinOne
    <3> HIDE DEF p6
    <3> QED BY <1>4, <1>15, <3>1, OneJoined, ZenonT(40)
  <2> QED BY <1>15, <2>1
<1> HIDE DEF p6
<1> QED
  BY <1>0, <1>3, <1>16 DEF LaidOut, a1, a2, a3, a4, a5, a6

(* prepare_seccomp_program: the tests in the order of their calls. *)
LEMMA ProgramIs ==
  ASSUME NEW f
  PROVE  /\ Program(f) \in Seq(Instructions) /\ LaidOut(Program(f), f, Limit)
         /\ Len(Program(f)) = 7 + 2 * Tests(f, Limit)
         /\ Program(f)[Len(Program(f))] = One("ret", 0, 0, "allow")
<1> DEFINE F(g, k) == g = [n \in 0..k |-> IF n = 0 THEN Preamble
                             ELSE g[n - 1] \o (IF InProgram(f, n - 1) THEN Test(n - 1) ELSE << >>)]
           Good(k) == \E g : F(g, k)
           Bad == {k \in 0..Limit : ~Good(k)}
           before == CHOOSE g : g = [n \in 0..Limit |-> IF n = 0 THEN Preamble
                             ELSE g[n - 1] \o (IF InProgram(f, n - 1) THEN Test(n - 1) ELSE << >>)]
<1>0. Limit \in Nat /\ X32Bit \in Nat
  BY FilterAssumption DEF Limit
<1>1. Bad = {}
  <2> SUFFICES ASSUME Bad # {} PROVE FALSE
    OBVIOUS
  <2>1. Bad \in SUBSET Nat
    <3>1. Bad \subseteq 0..Limit
      <4> HIDE DEF Good
      <4> QED OBVIOUS
    <3> HIDE DEF Bad
    <3> QED BY <1>0, <3>1
  <2>2. PICK m \in Bad : \A j \in Bad : m <= j
    <3> HIDE DEF Bad
    <3> QED BY <2>1, LeastElement
  <2>3. m \in 0..Limit /\ ~Good(m)
    OBVIOUS
  <2>4. CASE m = 0
    <3>1. F([n \in 0..0 |-> Preamble], 0)
      OBVIOUS
    <3> QED BY <2>3, <2>4, <3>1
  <2>5. CASE m # 0
    <3>1. m \in Nat /\ m - 1 \in 0..Limit /\ ~(m <= m - 1)
      BY <1>0, <2>3, <2>5
    <3>2. m - 1 \notin Bad
      <4> HIDE DEF Bad
      <4> QED BY <2>2, <3>1
    <3>3. PICK h : F(h, m - 1)
      BY <3>1, <3>2
    <3> DEFINE S(n) == IF InProgram(f, n - 1) THEN Test(n - 1) ELSE << >>
               g == [n \in 0..m |-> IF n = m THEN h[m - 1] \o S(m) ELSE h[n]]
    <3>4. \A n \in 0..(m - 1) : h[n] = IF n = 0 THEN Preamble ELSE h[n - 1] \o S(n)
      BY <3>3
    <3>5. \A n \in 0..m : g[n] = IF n = 0 THEN Preamble ELSE g[n - 1] \o S(n)
      <4> HIDE DEF S
      <4> SUFFICES ASSUME NEW n \in 0..m
                   PROVE  g[n] = IF n = 0 THEN Preamble ELSE g[n - 1] \o S(n)
        OBVIOUS
      <4>1. CASE n = m
        <5>1. g[m] = h[m - 1] \o S(m) /\ g[m - 1] = h[m - 1]
          <6>1. m \in 0..m /\ m - 1 \in 0..m /\ m - 1 # m
            BY <3>1, <2>5
          <6> HIDE DEF F
          <6> QED BY <6>1
        <5> QED BY <2>5, <4>1, <5>1
      <4>2. CASE n # m
        <5>1. n \in 0..(m - 1) /\ g[n] = h[n] /\ (n # 0 => g[n - 1] = h[n - 1])
          BY <3>1, <4>2
        <5>2. h[n] = IF n = 0 THEN Preamble ELSE h[n - 1] \o S(n)
          BY <3>4, <5>1
        <5> HIDE DEF g
        <5>3. CASE n = 0
          BY <5>1, <5>2, <5>3
        <5>4. CASE n # 0
          <6>1. g[n - 1] = h[n - 1] /\ g[n] = h[n]
            BY <5>1, <5>4
          <6> QED BY Zenon, <5>2, <5>4, <6>1
        <5> QED BY <5>3, <5>4
      <4> QED BY <4>1, <4>2
    <3>6. F(g, m)
      BY <3>5
    <3> QED BY <2>3, <3>6
  <2> QED BY <2>4, <2>5
<1>2. F(before, Limit)
  <2>0. Limit \in 0..Limit
    BY <1>0
  <2>1. Good(Limit)
    <3> HIDE DEF Good
    <3> QED BY <1>1, <2>0
  <2> QED BY Zenon, <2>1
<1>3. Program(f) = before[Limit] \o Instruction("ret", 0, 0, "allow")
  BY Zenon DEF Program
<1> HIDE DEF before
<1>4. \A n \in 0..Limit : before[n] = IF n = 0 THEN Preamble ELSE before[n - 1] \o TestsFor(f, n - 1)
  BY <1>2 DEF TestsFor
<1> DEFINE Right(n) == /\ before[n] \in Seq(Instructions) /\ LaidOut(before[n], f, n)
                       /\ Len(before[n]) = 6 + 2 * Tests(f, n)
           Off == {n \in 0..Limit : ~Right(n)}
<1>5. Off = {}
  <2> SUFFICES ASSUME Off # {} PROVE FALSE
    OBVIOUS
  <2>1. Off \in SUBSET Nat
    <3> HIDE DEF Right
    <3> QED BY <1>0
  <2>2. PICK m \in Off : \A j \in Off : m <= j
    <3> HIDE DEF Off
    <3> QED BY <2>1, LeastElement
  <2>3. m \in 0..Limit /\ ~Right(m)
    OBVIOUS
  <2>4. CASE m = 0
    <3>1. Tested(f, 0) = {} /\ Tests(f, 0) = 0
      <4>1. 0..(0 - 1) = {}
        OBVIOUS
      <4> QED BY <4>1, FS_EmptySet DEF Tested, Tests
    <3>2. before[0] = Preamble
      BY <1>0, <1>4
    <3>5. Preamble \in Seq(Instructions) /\ Len(Preamble) = 6 /\ LaidOut(Preamble, f, 0)
      BY PreambleIs
    <3> QED BY <2>3, <2>4, <3>1, <3>2, <3>5
  <2>5. CASE m # 0
    <3>1. m \in Nat /\ m - 1 \in 0..Limit /\ m - 1 \in Nat /\ ~(m <= m - 1) /\ (m - 1) + 1 = m
      BY <1>0, <2>3, <2>5
    <3>2. m - 1 \notin Off
      <4> HIDE DEF Off
      <4> QED BY <2>2, <3>1
    <3>3. Right(m - 1)
      <4> HIDE DEF Right
      <4> QED BY <3>1, <3>2
    <3>4. before[m] = before[m - 1] \o TestsFor(f, m - 1)
      BY <1>4, <2>3, <2>5
    <3> DEFINE h == m - 1
    <3>5. h \in Nat /\ h + 1 = m /\ Right(h) /\ before[m] = before[h] \o TestsFor(f, h)
      BY <3>1, <3>3, <3>4
    <3> HIDE DEF h
    <3>6. /\ before[h] \o TestsFor(f, h) \in Seq(Instructions)
          /\ LaidOut(before[h] \o TestsFor(f, h), f, h + 1)
          /\ Len(before[h] \o TestsFor(f, h)) = 6 + 2 * Tests(f, h + 1)
      BY <3>5, AppendTest
    <3>7. Right(m)
      BY <3>5, <3>6
    <3> QED BY <2>3, <3>7
  <2> QED BY <2>4, <2>5
<1>6. Right(Limit)
  <2> HIDE DEF Right
  <2> QED BY <1>0, <1>5
<1> DEFINE p == before[Limit]
           a == One("ret", 0, 0, "allow")
<1>7. Program(f) = p \o <<a>> /\ a \in Instructions
  BY <1>3 DEF Instruction, One, Instructions
<1>8. p \in Seq(Instructions) /\ Len(p) = 6 + 2 * Tests(f, Limit) /\ LaidOut(p, f, Limit)
  BY <1>6
<1> HIDE DEF p, a
<1>9. /\ Program(f) \in Seq(Instructions) /\ Len(Program(f)) = Len(p) + 1
      /\ \A i \in 1..Len(p) : Program(f)[i] = p[i]
      /\ Program(f)[Len(p) + 1] = a
  BY <1>7, <1>8
<1>10. Tests(f, Limit) \in Nat
  BY <1>0, TestsType
<1>11. ASSUME NEW k \in Tested(f, Limit)
       PROVE  7 + 2 * Tests(f, k) \in 1..Len(p) /\ 8 + 2 * Tests(f, k) \in 1..Len(p)
  <2>1. k \in 0..(Limit - 1) /\ InProgram(f, k) /\ k \in Nat
    BY <1>0 DEF Tested
  <2>2. Tests(f, k + 1) <= Tests(f, Limit) /\ Tests(f, k) \in Nat
    BY <1>0, <2>1, TestsGrow
  <2>3. Tests(f, k + 1) = Tests(f, k) + 1
    BY <2>1, TestsType
  <2> QED BY <1>8, <1>10, <2>2, <2>3
<1>12. LaidOut(Program(f), f, Limit)
  <2>1. 1 \in 1..Len(p) /\ 2 \in 1..Len(p) /\ 3 \in 1..Len(p)
        /\ 4 \in 1..Len(p) /\ 5 \in 1..Len(p) /\ 6 \in 1..Len(p)
    BY <1>8, <1>10
  <2> QED BY <1>8, <1>9, <1>11, <2>1 DEF LaidOut
<1> QED
  BY <1>8, <1>9, <1>10, <1>12 DEF a

-----------------------------------------------------------------------------
(* The kernel's machine at instruction x. *)
M(x, acc, v) == [k |-> x, acc |-> acc, verdict |-> v]

LEMMA ExecutesLoad ==
  ASSUME NEW p, NEW arch, NEW nr, NEW x \in Nat, NEW acc, NEW what,
         p[x] = One("load", 0, 0, what)
  PROVE  Execute(p, arch, nr, M(x, acc, "none")) = M(x + 1, what, "none")
BY DEF Execute, M, One

LEMMA ExecutesTest ==
  ASSUME NEW p, NEW arch, NEW nr, NEW x \in Nat, NEW acc, NEW jt \in Nat, NEW jf \in Nat, NEW k,
         p[x] = One("jeq", jt, jf, k)
  PROVE  LET a == IF acc = "arch" THEN arch ELSE nr
         IN  Execute(p, arch, nr, M(x, acc, "none"))
               = M(x + 1 + (IF a = k THEN jt ELSE jf), acc, "none")
BY DEF Execute, M, One

LEMMA ExecutesMatch ==
  ASSUME NEW p, NEW arch, NEW nr, NEW x \in Nat, NEW jt \in Nat, NEW jf \in Nat,
         p[x] = One("jeq", jt, jf, nr)
  PROVE  Execute(p, arch, nr, M(x, "nr", "none")) = M(x + 1 + jt, "nr", "none")
BY DEF Execute, M, One

LEMMA ExecutesCompare ==
  ASSUME NEW p, NEW arch, NEW nr \in Int, NEW x \in Nat, NEW jt \in Nat, NEW jf \in Nat,
         NEW k \in Int, p[x] = One("jge", jt, jf, k)
  PROVE  Execute(p, arch, nr, M(x, "nr", "none"))
           = M(x + 1 + (IF nr >= k THEN jt ELSE jf), "nr", "none")
BY DEF Execute, M, One

LEMMA ExecutesReturn ==
  ASSUME NEW p, NEW arch, NEW nr, NEW x \in Nat, NEW acc, NEW v,
         p[x] = One("ret", 0, 0, v)
  PROVE  Execute(p, arch, nr, M(x, acc, "none")) = M(x, acc, v)
BY DEF Execute, M, One

LEMMA Stopped ==
  ASSUME NEW p, NEW arch, NEW nr, NEW x, NEW acc, NEW v, v # "none"
  PROVE  Execute(p, arch, nr, M(x, acc, v)) = M(x, acc, v)
BY DEF Execute, M

(* The run of a program, step by step. *)
Runs(g, p, arch, nr) ==
  /\ g[0] = M(1, "none", "none")
  /\ \A n \in 1..Len(p) : g[n] = Execute(p, arch, nr, g[n - 1])

LEMMA RunIs ==
  ASSUME NEW p \in Seq(Instructions), NEW arch, NEW nr
  PROVE  \E g : Runs(g, p, arch, nr) /\ Verdict(p, arch, nr) = g[Len(p)].verdict
<1> DEFINE N == Len(p)
           F(g, k) == g = [n \in 0..k |-> IF n = 0 THEN [k |-> 1, acc |-> "none", verdict |-> "none"]
                                          ELSE Execute(p, arch, nr, g[n - 1])]
           Good(k) == \E g : F(g, k)
           Bad == {k \in 0..N : ~Good(k)}
           after == CHOOSE g : g = [n \in 0..Len(p) |->
                               IF n = 0 THEN [k |-> 1, acc |-> "none", verdict |-> "none"]
                               ELSE Execute(p, arch, nr, g[n - 1])]
           start == M(1, "none", "none")
<1>0. N \in Nat
  OBVIOUS
<1>1. Bad = {}
  <2> SUFFICES ASSUME Bad # {} PROVE FALSE
    OBVIOUS
  <2>1. Bad \in SUBSET Nat
    <3>1. Bad \subseteq 0..N
      <4> HIDE DEF Good
      <4> QED OBVIOUS
    <3> HIDE DEF Bad
    <3> QED BY <1>0, <3>1
  <2>2. PICK m \in Bad : \A j \in Bad : m <= j
    <3> HIDE DEF Bad
    <3> QED BY <2>1, LeastElement
  <2>3. m \in 0..N /\ ~Good(m)
    OBVIOUS
  <2>4. CASE m = 0
    <3>1. F([n \in 0..0 |-> [k |-> 1, acc |-> "none", verdict |-> "none"]], 0)
      OBVIOUS
    <3> QED BY <2>3, <2>4, <3>1
  <2>5. CASE m # 0
    <3>1. m \in Nat /\ m - 1 \in 0..N /\ ~(m <= m - 1)
      BY <1>0, <2>3, <2>5
    <3>2. m - 1 \notin Bad
      <4> HIDE DEF Bad
      <4> QED BY <2>2, <3>1
    <3>3. PICK h : F(h, m - 1)
      BY <3>1, <3>2
    <3> DEFINE g == [n \in 0..m |-> IF n = m THEN Execute(p, arch, nr, h[m - 1]) ELSE h[n]]
    <3>4. \A n \in 0..(m - 1) : h[n] = IF n = 0 THEN start ELSE Execute(p, arch, nr, h[n - 1])
      BY <3>3 DEF M
    <3>5. \A n \in 0..m : g[n] = IF n = 0 THEN start ELSE Execute(p, arch, nr, g[n - 1])
      <4> HIDE DEF start
      <4> SUFFICES ASSUME NEW n \in 0..m
                   PROVE  g[n] = IF n = 0 THEN start ELSE Execute(p, arch, nr, g[n - 1])
        OBVIOUS
      <4>1. CASE n = m
        <5>1. g[m] = Execute(p, arch, nr, h[m - 1]) /\ g[m - 1] = h[m - 1]
          <6>1. m \in 0..m /\ m - 1 \in 0..m /\ m - 1 # m
            BY <3>1, <2>5
          <6> HIDE DEF F
          <6> QED BY <6>1
        <5> QED BY <2>5, <4>1, <5>1
      <4>2. CASE n # m
        <5>1. n \in 0..(m - 1) /\ g[n] = h[n] /\ (n # 0 => g[n - 1] = h[n - 1])
          BY <3>1, <4>2
        <5>2. h[n] = IF n = 0 THEN start ELSE Execute(p, arch, nr, h[n - 1])
          BY <3>4, <5>1
        <5> HIDE DEF g
        <5>3. CASE n = 0
          BY <5>1, <5>2, <5>3
        <5>4. CASE n # 0
          <6>1. g[n - 1] = h[n - 1] /\ g[n] = h[n]
            BY <5>1, <5>4
          <6> QED BY Zenon, <5>2, <5>4, <6>1
        <5> QED BY <5>3, <5>4
      <4> QED BY <4>1, <4>2
    <3>6. F(g, m)
      BY <3>5 DEF M
    <3> QED BY <2>3, <3>6
  <2> QED BY <2>4, <2>5
<1>2. F(after, N)
  <2>0. N \in 0..N
    BY <1>0
  <2>1. Good(N)
    <3> HIDE DEF Good, N
    <3> QED BY <1>1, <2>0
  <2> QED BY Zenon, <2>1
<1>3. Verdict(p, arch, nr) = after[Len(p)].verdict
  BY Zenon DEF Verdict
<1> HIDE DEF after
<1>4. \A n \in 0..N : after[n] = IF n = 0 THEN start ELSE Execute(p, arch, nr, after[n - 1])
  BY <1>2 DEF M
<1>5. Runs(after, p, arch, nr)
  <2>1. 0 \in 0..N /\ \A n \in 1..Len(p) : n \in 0..N /\ n # 0
    BY <1>0
  <2> HIDE DEF N
  <2> QED BY <1>4, <2>1 DEF Runs
<1> QED BY <1>3, <1>5

(* The next step of a run. *)
LEMMA RunStep ==
  ASSUME NEW g, NEW p \in Seq(Instructions), NEW arch, NEW nr, Runs(g, p, arch, nr),
         NEW n \in Nat, n < Len(p), NEW m, g[n] = m
  PROVE  g[n + 1] = Execute(p, arch, nr, m)
<1>1. n + 1 \in 1..Len(p) /\ (n + 1) - 1 = n
  OBVIOUS
<1> QED BY <1>1 DEF Runs

(* A verdict is final. *)
LEMMA RunEnds ==
  ASSUME NEW g, NEW p \in Seq(Instructions), NEW arch, NEW nr, Runs(g, p, arch, nr),
         NEW n \in Nat, n <= Len(p), NEW x, NEW acc, NEW v, v # "none", g[n] = M(x, acc, v)
  PROVE  g[Len(p)].verdict = v
<1> DEFINE Off == {k \in 0..Len(p) : n <= k /\ g[k] # M(x, acc, v)}
<1>0. Len(p) \in Nat
  OBVIOUS
<1>1. Off = {}
  <2> SUFFICES ASSUME Off # {} PROVE FALSE
    OBVIOUS
  <2>1. Off \in SUBSET Nat
    BY <1>0
  <2>2. PICK m \in Off : \A j \in Off : m <= j
    <3> HIDE DEF Off
    <3> QED BY <2>1, LeastElement
  <2>3. m \in 0..Len(p) /\ n <= m /\ g[m] # M(x, acc, v)
    OBVIOUS
  <2>4. m # n /\ m - 1 \in Nat /\ m - 1 \in 0..Len(p) /\ n <= m - 1 /\ ~(m <= m - 1)
        /\ m - 1 < Len(p) /\ (m - 1) + 1 = m
    BY <1>0, <2>3
  <2>5. m - 1 \notin Off
    <3> HIDE DEF Off
    <3> QED BY <2>2, <2>4
  <2>6. g[m - 1] = M(x, acc, v)
    BY <2>4, <2>5
  <2>7. g[m] = Execute(p, arch, nr, M(x, acc, v))
    <3> DEFINE h == m - 1
    <3>1. h \in Nat /\ h < Len(p) /\ g[h] = M(x, acc, v) /\ h + 1 = m
      BY <2>4, <2>6
    <3> HIDE DEF h
    <3>2. g[h + 1] = Execute(p, arch, nr, M(x, acc, v))
      BY <3>1, RunStep
    <3> QED BY <3>1, <3>2
  <2>8. Execute(p, arch, nr, M(x, acc, v)) = M(x, acc, v)
    BY Stopped
  <2> QED BY <2>3, <2>7, <2>8
<1>2. g[Len(p)] = M(x, acc, v)
  BY <1>0, <1>1
<1> QED BY <1>2 DEF M

(* The first instructions turn away the other ABIs. *)
LEMMA BadArch ==
  ASSUME NEW f, NEW nr \in Nat
  PROVE  Verdict(Program(f), "i386", nr) = "bad_arch"
<1> DEFINE p == Program(f)
<1>1. p \in Seq(Instructions) /\ LaidOut(p, f, Limit) /\ Len(p) = 7 + 2 * Tests(f, Limit)
  BY ProgramIs
<1>2. Tests(f, Limit) \in Nat
  BY LimitType, TestsType
<1> HIDE DEF p
<1>3. PICK g : Runs(g, p, "i386", nr) /\ Verdict(p, "i386", nr) = g[Len(p)].verdict
  BY <1>1, RunIs
<1>4. /\ 0 < Len(p) /\ 1 < Len(p) /\ 2 < Len(p) /\ 3 <= Len(p)
      /\ 0 \in Nat /\ 1 \in Nat /\ 2 \in Nat /\ 3 \in Nat
      /\ 0 + 1 = 1 /\ 1 + 1 = 2 /\ 2 + 1 = 3
  BY <1>1, <1>2
<1>5. /\ p[1] = One("load", 0, 0, "arch") /\ p[2] = One("jeq", 1, 0, "x86_64")
      /\ p[3] = One("ret", 0, 0, "bad_arch")
  BY <1>1 DEF LaidOut
<1>6. g[0] = M(1, "none", "none")
  BY <1>3 DEF Runs
<1>7. g[1] = M(2, "arch", "none")
  <2>1. g[0 + 1] = Execute(p, "i386", nr, M(1, "none", "none"))
    BY <1>1, <1>3, <1>4, <1>6, RunStep
  <2>2. Execute(p, "i386", nr, M(1, "none", "none")) = M(1 + 1, "arch", "none")
    BY <1>4, <1>5, ExecutesLoad
  <2> QED BY <2>1, <2>2
<1>8. g[2] = M(3, "arch", "none")
  <2>1. g[1 + 1] = Execute(p, "i386", nr, M(2, "arch", "none"))
    BY <1>1, <1>3, <1>4, <1>7, RunStep
  <2>2. Execute(p, "i386", nr, M(2, "arch", "none"))
          = M(2 + 1 + (IF (IF "arch" = "arch" THEN "i386" ELSE nr) = "x86_64" THEN 1 ELSE 0), "arch", "none")
    BY <1>4, <1>5, ExecutesTest
  <2> QED BY <2>1, <2>2
<1>9. g[3] = M(3, "arch", "bad_arch")
  <2>1. g[2 + 1] = Execute(p, "i386", nr, M(3, "arch", "none"))
    BY <1>1, <1>3, <1>4, <1>8, RunStep
  <2>2. Execute(p, "i386", nr, M(3, "arch", "none")) = M(3, "arch", "bad_arch")
    BY <1>4, <1>5, ExecutesReturn
  <2> QED BY <2>1, <2>2
<1>10. g[Len(p)].verdict = "bad_arch"
  BY <1>1, <1>3, <1>4, <1>9, RunEnds
<1> QED BY <1>3, <1>10 DEF p

(* A call of the x86_64 ABI gets past the preamble. *)
LEMMA PastPreamble ==
  ASSUME NEW f, NEW nr \in Nat, NEW p, p = Program(f), NEW g, Runs(g, p, "x86_64", nr)
  PROVE  /\ nr >= X32Bit => g[5] = M(6, "nr", "bad_abi")
         /\ nr < X32Bit => g[4] = M(7, "nr", "none")
<1>1. p \in Seq(Instructions) /\ LaidOut(p, f, Limit) /\ Len(p) = 7 + 2 * Tests(f, Limit)
  BY ProgramIs
<1>2. Tests(f, Limit) \in Nat /\ X32Bit \in Int /\ nr \in Int
  <2>1. Limit \in Nat /\ Tests(f, Limit) \in Nat
    BY LimitType, TestsType
  <2> QED BY <2>1, FilterAssumption
<1>4. /\ 0 < Len(p) /\ 1 < Len(p) /\ 2 < Len(p) /\ 3 < Len(p) /\ 4 < Len(p)
      /\ 0 \in Nat /\ 1 \in Nat /\ 2 \in Nat /\ 3 \in Nat /\ 4 \in Nat /\ 5 \in Nat /\ 6 \in Nat
  BY <1>1, <1>2
<1>5. /\ p[1] = One("load", 0, 0, "arch") /\ p[2] = One("jeq", 1, 0, "x86_64")
      /\ p[4] = One("load", 0, 0, "nr") /\ p[5] = One("jge", 0, 1, X32Bit)
      /\ p[6] = One("ret", 0, 0, "bad_abi")
  BY <1>1 DEF LaidOut
<1>6. g[0] = M(1, "none", "none")
  BY DEF Runs
<1>7. g[1] = M(2, "arch", "none")
  <2>1. g[0 + 1] = Execute(p, "x86_64", nr, M(1, "none", "none"))
    BY <1>1, <1>4, <1>6, RunStep
  <2>2. Execute(p, "x86_64", nr, M(1, "none", "none")) = M(1 + 1, "arch", "none")
    <3>1. 1 \in Nat /\ p[1] = One("load", 0, 0, "arch")
      BY <1>5
    <3> QED BY <3>1, ExecutesLoad
  <2> QED BY <2>1, <2>2
<1>8. g[2] = M(4, "arch", "none")
  <2>1. g[1 + 1] = Execute(p, "x86_64", nr, M(2, "arch", "none"))
    BY <1>1, <1>4, <1>7, RunStep
  <2>2. Execute(p, "x86_64", nr, M(2, "arch", "none"))
          = M(2 + 1 + (IF (IF "arch" = "arch" THEN "x86_64" ELSE nr) = "x86_64" THEN 1 ELSE 0), "arch", "none")
    BY <1>4, <1>5, ExecutesTest
  <2> QED BY <2>1, <2>2
<1>9. g[3] = M(5, "nr", "none")
  <2>1. g[2 + 1] = Execute(p, "x86_64", nr, M(4, "arch", "none"))
    BY <1>1, <1>4, <1>8, RunStep
  <2>2. Execute(p, "x86_64", nr, M(4, "arch", "none")) = M(4 + 1, "nr", "none")
    <3>1. 4 \in Nat /\ p[4] = One("load", 0, 0, "nr")
      BY <1>5
    <3> QED BY <3>1, ExecutesLoad
  <2> QED BY <2>1, <2>2
<1>10. g[4] = M(6 + (IF nr >= X32Bit THEN 0 ELSE 1), "nr", "none")
  <2>1. g[3 + 1] = Execute(p, "x86_64", nr, M(5, "nr", "none"))
    BY <1>1, <1>4, <1>9, RunStep
  <2>2. Execute(p, "x86_64", nr, M(5, "nr", "none"))
          = M(5 + 1 + (IF nr >= X32Bit THEN 0 ELSE 1), "nr", "none")
    BY <1>2, <1>4, <1>5, ExecutesCompare
  <2> QED BY <2>1, <2>2
<1>11. ASSUME nr >= X32Bit PROVE g[5] = M(6, "nr", "bad_abi")
  <2>0. g[4] = M(6, "nr", "none")
    BY <1>10, <1>11
  <2>1. g[4 + 1] = Execute(p, "x86_64", nr, M(6, "nr", "none"))
    BY <1>1, <1>4, <2>0, RunStep
  <2>2. Execute(p, "x86_64", nr, M(6, "nr", "none")) = M(6, "nr", "bad_abi")
    BY <1>4, <1>5, ExecutesReturn
  <2> QED BY <2>1, <2>2
<1>12. ASSUME nr < X32Bit PROVE g[4] = M(7, "nr", "none")
  <2>1. ~(nr >= X32Bit)
    BY <1>2, <1>12
  <2> QED BY <1>10, <2>1
<1> QED BY <1>11, <1>12

(* It goes through the tests of the smaller calls one by one. *)
LEMMA ThroughTests ==
  ASSUME NEW f, NEW nr \in Nat, nr < X32Bit, NEW p, p = Program(f),
         NEW g, Runs(g, p, "x86_64", nr), NEW n \in 0..Limit, nr \notin Tested(f, n)
  PROVE  g[4 + Tests(f, n)] = M(7 + 2 * Tests(f, n), "nr", "none")
<1> DEFINE Right(j) == nr \notin Tested(f, j) => g[4 + Tests(f, j)] = M(7 + 2 * Tests(f, j), "nr", "none")
           Off == {j \in 0..Limit : ~Right(j)}
<1>0. Limit \in Nat /\ Tests(f, Limit) \in Nat
  BY LimitType, TestsType
<1>1. p \in Seq(Instructions) /\ LaidOut(p, f, Limit) /\ Len(p) = 7 + 2 * Tests(f, Limit)
  BY ProgramIs
<1>2. Off = {}
  <2> SUFFICES ASSUME Off # {} PROVE FALSE
    OBVIOUS
  <2>1. Off \in SUBSET Nat
    <3> HIDE DEF Right
    <3> QED BY <1>0
  <2>2. PICK m \in Off : \A j \in Off : m <= j
    <3> HIDE DEF Off
    <3> QED BY <2>1, LeastElement
  <2>3. m \in 0..Limit /\ ~Right(m)
    OBVIOUS
  <2>4. CASE m = 0
    <3>1. Tests(f, 0) = 0
      <4>1. 0..(0 - 1) = {}
        OBVIOUS
      <4> QED BY <4>1, FS_EmptySet DEF Tested, Tests
    <3>2. g[4] = M(7, "nr", "none")
      BY PastPreamble
    <3>3. 4 + 0 = 4 /\ 7 + 2 * 0 = 7
      OBVIOUS
    <3> QED BY <2>3, <2>4, <3>1, <3>2, <3>3
  <2>5. CASE m # 0
    <3> DEFINE h == m - 1
    <3>1. h \in Nat /\ h \in 0..Limit /\ h \in 0..(Limit - 1) /\ ~(m <= h) /\ h + 1 = m
      BY <1>0, <2>3, <2>5
    <3> HIDE DEF h
    <3>2. h \notin Off
      <4> HIDE DEF Off
      <4> QED BY <2>2, <3>1
    <3>3. Right(h)
      <4> HIDE DEF Right
      <4> QED BY <3>1, <3>2
    <3>4. nr \notin Tested(f, m) /\ g[4 + Tests(f, m)] # M(7 + 2 * Tests(f, m), "nr", "none")
      BY <2>3
    <3> DEFINE c == Tests(f, h)
    <3>5. /\ c \in Nat /\ Tests(f, h + 1) = c + (IF InProgram(f, h) THEN 1 ELSE 0)
          /\ Tested(f, h + 1) = IF InProgram(f, h) THEN Tested(f, h) \cup {h} ELSE Tested(f, h)
      BY <3>1, TestsType
    <3>6. nr \notin Tested(f, h) /\ (InProgram(f, h) => nr # h)
      BY <3>1, <3>4, <3>5
    <3>7. g[4 + c] = M(7 + 2 * c, "nr", "none")
      BY <3>3, <3>6
    <3> HIDE DEF c, Right, Off
    <3>8. CASE ~InProgram(f, h)
      <4>1. Tests(f, m) = c
        BY <3>1, <3>5, <3>8
      <4> QED BY <3>4, <3>7, <4>1
    <3>9. CASE InProgram(f, h)
      <4>1. Tests(f, m) = c + 1
        BY <3>1, <3>5, <3>9
      <4>2. h \in Tested(f, Limit)
        BY <1>0, <3>1, <3>9 DEF Tested
      <4>3. p[7 + 2 * c] = One("jeq", 0, 1, h)
        BY <1>1, <4>2 DEF LaidOut, c
      <4>4. c + 1 <= Tests(f, Limit)
        <5>1. Tests(f, h + 1) <= Tests(f, Limit)
          BY <1>0, <3>1, TestsGrow
        <5> QED BY <3>1, <4>1, <5>1
      <4>5. 4 + c \in Nat /\ 4 + c < Len(p) /\ 7 + 2 * c \in Nat /\ 0 \in Nat /\ 1 \in Nat
        BY <1>0, <1>1, <3>5, <4>4
      <4>6. g[4 + c + 1] = Execute(p, "x86_64", nr, M(7 + 2 * c, "nr", "none"))
        BY <1>1, <3>7, <4>5, RunStep
      <4>7. Execute(p, "x86_64", nr, M(7 + 2 * c, "nr", "none"))
              = M(7 + 2 * c + 1 + (IF (IF "nr" = "arch" THEN "x86_64" ELSE nr) = h THEN 0 ELSE 1), "nr", "none")
        BY <4>3, <4>5, ExecutesTest
      <4>8. (IF "nr" = "arch" THEN "x86_64" ELSE nr) # h
        BY <3>6, <3>9
      <4>9. g[4 + c + 1] = M(7 + 2 * c + 1 + 1, "nr", "none")
        BY Zenon, <4>6, <4>7, <4>8
      <4>10. 4 + c + 1 = 4 + (c + 1) /\ 7 + 2 * c + 1 + 1 = 7 + 2 * (c + 1)
        BY <3>5
      <4> QED BY <3>4, <4>1, <4>9, <4>10
    <3> QED BY <3>8, <3>9
  <2> QED BY <2>4, <2>5
<1>3. Right(n)
  <2> HIDE DEF Right
  <2> QED BY <1>2
<1> QED BY <1>3

LEMMA NativeCall ==
  ASSUME NEW f, NEW nr \in Nat
  PROVE  Verdict(Program(f), "x86_64", nr) =
           IF nr >= X32Bit THEN "bad_abi" ELSE IF InProgram(f, nr) THEN "trace" ELSE "allow"
<1> DEFINE p == Program(f)
<1>0. Limit \in Nat /\ Tests(f, Limit) \in Nat /\ X32Bit \in Nat /\ X32Bit >= Limit
      /\ RtSigreturn \in 0..(Limit - 1)
  <2>1. Limit \in Nat /\ Tests(f, Limit) \in Nat
    BY LimitType, TestsType
  <2> QED BY <2>1, FilterAssumption
<1>1. /\ p \in Seq(Instructions) /\ LaidOut(p, f, Limit) /\ Len(p) = 7 + 2 * Tests(f, Limit)
      /\ p[Len(p)] = One("ret", 0, 0, "allow")
  BY ProgramIs
<1>2. PICK g : Runs(g, p, "x86_64", nr) /\ Verdict(p, "x86_64", nr) = g[Len(p)].verdict
  BY <1>1, RunIs
<1>p. p = Program(f)
  OBVIOUS
<1> HIDE DEF p
<1>3. CASE nr >= X32Bit
  <2>1. g[5] = M(6, "nr", "bad_abi")
    BY <1>2, <1>p, <1>3, PastPreamble
  <2>2. 5 \in Nat /\ 5 <= Len(p)
    BY <1>0, <1>1
  <2>3. g[Len(p)].verdict = "bad_abi"
    BY <1>1, <1>2, <2>1, <2>2, RunEnds
  <2> QED BY <1>2, <1>p, <1>3, <2>3
<1>4. CASE nr < X32Bit /\ InProgram(f, nr)
  <2> DEFINE c == Tests(f, nr)
  <2>1. nr \in 0..(Limit - 1) /\ nr \in 0..Limit /\ nr \notin Tested(f, nr)
    BY <1>0, <1>4 DEF InProgram, sg_filter_contains, Tested
  <2>2. g[4 + c] = M(7 + 2 * c, "nr", "none")
    BY <1>2, <1>p, <1>4, <2>1, ThroughTests
  <2>3. nr \in Tested(f, Limit)
    BY <1>4, <2>1 DEF Tested
  <2>4. p[7 + 2 * c] = One("jeq", 0, 1, nr) /\ p[8 + 2 * c] = One("ret", 0, 0, "trace")
    BY <1>1, <2>3 DEF LaidOut
  <2>5. c \in Nat /\ c + 1 <= Tests(f, Limit)
    <3>1. Tests(f, nr + 1) <= Tests(f, Limit) /\ Tests(f, nr) \in Nat
      BY <1>0, <2>1, TestsGrow
    <3>2. Tests(f, nr + 1) = Tests(f, nr) + 1
      BY <1>4, TestsType
    <3> QED BY <3>1, <3>2
  <2> HIDE DEF c
  <2>6. /\ 4 + c \in Nat /\ 4 + c < Len(p) /\ 7 + 2 * c \in Nat /\ 8 + 2 * c \in Nat /\ 0 \in Nat /\ 1 \in Nat
        /\ 5 + c \in Nat /\ 5 + c < Len(p) /\ 6 + c \in Nat /\ 6 + c <= Len(p)
        /\ 4 + c + 1 = 5 + c /\ 5 + c + 1 = 6 + c
    BY <1>0, <1>1, <2>5
  <2>7. g[4 + c + 1] = Execute(p, "x86_64", nr, M(7 + 2 * c, "nr", "none"))
    BY <1>1, <1>2, <2>2, <2>6, RunStep, SMTT(30)
  <2>8. Execute(p, "x86_64", nr, M(7 + 2 * c, "nr", "none")) = M(7 + 2 * c + 1 + 0, "nr", "none")
    BY <2>4, <2>6, ExecutesMatch, SMTT(30)
  <2>10. 7 + 2 * c + 1 + 0 = 8 + 2 * c
    BY <2>5
  <2>11. g[5 + c] = M(8 + 2 * c, "nr", "none")
    BY Zenon, <2>6, <2>7, <2>8, <2>10
  <2>12. g[5 + c + 1] = Execute(p, "x86_64", nr, M(8 + 2 * c, "nr", "none"))
    BY <1>1, <1>2, <2>6, <2>11, RunStep, SMTT(30)
  <2>13. Execute(p, "x86_64", nr, M(8 + 2 * c, "nr", "none")) = M(8 + 2 * c, "nr", "trace")
    BY <2>4, <2>6, ExecutesReturn
  <2>14. g[6 + c] = M(8 + 2 * c, "nr", "trace")
    BY <2>6, <2>12, <2>13
  <2>15. g[Len(p)].verdict = "trace"
    BY <1>1, <1>2, <2>6, <2>14, RunEnds, SMTT(30)
  <2> QED BY <1>0, <1>2, <1>p, <1>4, <2>15
<1>5. CASE nr < X32Bit /\ ~InProgram(f, nr)
  <2> DEFINE c == Tests(f, Limit)
  <2>1. nr \notin Tested(f, Limit) /\ Limit \in 0..Limit
    BY <1>0, <1>5 DEF Tested
  <2>2. g[4 + c] = M(7 + 2 * c, "nr", "none")
    BY <1>2, <1>p, <1>5, <2>1, ThroughTests
  <2>3. c \in Nat /\ Len(p) = 7 + 2 * c
    BY <1>0, <1>1
  <2> HIDE DEF c
  <2>4. 4 + c \in Nat /\ 4 + c < Len(p) /\ 7 + 2 * c \in Nat /\ 5 + c \in Nat /\ 5 + c <= Len(p)
        /\ 4 + c + 1 = 5 + c
    BY <2>3
  <2>5. g[4 + c + 1] = Execute(p, "x86_64", nr, M(7 + 2 * c, "nr", "none"))
    BY <1>1, <1>2, <2>2, <2>4, RunStep
  <2>6. p[7 + 2 * c] = One("ret", 0, 0, "allow")
    BY <1>1, <2>3
  <2>7. Execute(p, "x86_64", nr, M(7 + 2 * c, "nr", "none")) = M(7 + 2 * c, "nr", "allow")
    BY <2>4, <2>6, ExecutesReturn
  <2>8. g[5 + c] = M(7 + 2 * c, "nr", "allow")
    BY <2>4, <2>5, <2>7
  <2>9. g[Len(p)].verdict = "allow"
    BY <1>1, <1>2, <2>4, <2>8, RunEnds
  <2> QED BY <1>0, <1>2, <1>p, <1>5, <2>9
<1> QED BY <1>0, <1>3, <1>4, <1>5

(* As many tests as prepare_seccomp_program makes room for. *)
LEMMA RoomIsExact ==
  ASSUME NEW f \in FilterSet
  PROVE  Len(Program(f)) = Capacity(f)
<1> DEFINE S == {n \in 0..(Limit - 1) : sg_filter_contains(f, n)}
<1>0. Limit \in Nat /\ RtSigreturn \in 0..(Limit - 1)
  BY FilterAssumption DEF Limit
<1>1. IsFiniteSet(S) /\ sg_filter_count(f) = Cardinality(S)
  BY CountIs
<1>2. Tested(f, Limit) = S \cup {RtSigreturn}
  BY <1>0 DEF Tested, InProgram
<1>3. RtSigreturn \in S <=> sg_filter_contains(f, RtSigreturn)
  BY <1>0
<1> HIDE DEF S
<1>4. Cardinality(S) \in Nat
  BY <1>1, FS_CardinalityType
<1>5. Cardinality(S \cup {RtSigreturn})
        = IF RtSigreturn \in S THEN Cardinality(S) ELSE Cardinality(S) + 1
  BY <1>1, FS_AddElement
<1>6. Tests(f, Limit) = Cardinality(S) + (IF sg_filter_contains(f, RtSigreturn) THEN 0 ELSE 1)
  BY <1>2, <1>3, <1>4, <1>5 DEF Tests
<1>7. Len(Program(f)) = 7 + 2 * Tests(f, Limit)
  BY ProgramIs
<1> QED BY <1>1, <1>6, <1>7 DEF Capacity

LEMMA ExactnessFollows == FilterInv => ProgramExact
<1> SUFFICES ASSUME FilterInv, pc = "program" PROVE ProgramExact
  BY DEF ProgramExact
<1>1. program = Program(filter) /\ capacity = Capacity(filter) /\ filter \in FilterSet
  BY DEF FilterInv
<1>2. Len(program) = capacity
  BY <1>1, RoomIsExact
<1>3. ASSUME NEW n \in 0..X32Bit+1
      PROVE  /\ Verdict(program, "i386", n) = "bad_arch"
             /\ Verdict(program, "x86_64", n) =
                  IF n >= X32Bit THEN "bad_abi"
                  ELSE IF sg_filter_contains(filter, n) \/ n = RtSigreturn THEN "trace"
                  ELSE "allow"
  <2>1. n \in Nat
    BY FilterAssumption
  <2>2. Verdict(program, "i386", n) = "bad_arch"
    BY <1>1, <2>1, BadArch
  <2>3. Verdict(program, "x86_64", n) =
          IF n >= X32Bit THEN "bad_abi" ELSE IF InProgram(filter, n) THEN "trace" ELSE "allow"
    BY <1>1, <2>1, NativeCall
  <2> QED BY <2>2, <2>3 DEF InProgram
<1> QED BY <1>2, <1>3 DEF ProgramExact

(* The seccomp program stops exactly the selected calls and rt_sigreturn,  *)
(* turns away every other ABI, and fills the memory that was allocated for *)
(* it to the last instruction: for every filter an expression can make     *)
(* (prepare_seccomp_program).                                              *)
THEOREM StopsWhatIsSelected == Spec => []ProgramExact
BY AlwaysFilterInv, ExactnessFollows, PTL
=============================================================================
