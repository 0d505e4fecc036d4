--------------------------- MODULE DecoderProofs ---------------------------
(***************************************************************************)
(* The binary search of sg_syscall_by_number is right for every sorted     *)
(* table and every number asked for; and the decoder built on it shows     *)
(* every input argument as it was when the call was entered, quoted so     *)
(* that it can be read back, cut where it says so, and flags to the bit.   *)
(***************************************************************************)
EXTENDS Decoder, WellFoundedInduction, FiniteSetTheorems, TLAPS

Lookups == [at : {"idle", "search", "done"}, number : Int, left : Int, right : Int, found : Int]

(* Why the search may narrow: the entries it has left behind are smaller   *)
(* than the number, the ones from right on are not.                        *)
Bracketed ==
  /\ 0 <= lookup.left /\ lookup.left <= lookup.right /\ lookup.right <= Count
  /\ \A i \in 0..(Count - 1) : i < lookup.left => Numbers[i] < lookup.number
  /\ \A i \in 0..(Count - 1) : lookup.right <= i => Numbers[i] >= lookup.number

Answered ==
  IF lookup.found = Missing
    THEN \A i \in 0..(Count - 1) : Numbers[i] # lookup.number
    ELSE lookup.found \in 0..(Count - 1) /\ Numbers[lookup.found] = lookup.number

CatalogInv ==
  /\ lookup \in Lookups
  /\ lookup.at = "search" => Bracketed
  /\ lookup.at = "done" => Answered

-----------------------------------------------------------------------------
(* Every non-empty set of naturals has a least element. *)
LEMMA LeastElement ==
  ASSUME NEW K \in SUBSET Nat, K # {}
  PROVE  \E m \in K : \A j \in K : m <= j
<1> DEFINE R == OpToRel(<, Nat)
<1>1. IsWellFoundedOn(R, Nat)
  BY NatLessThanWellFounded
<1>2. PICK m \in K : \A j \in K : <<j, m>> \notin R
  <2> HIDE DEF R
  <2> QED BY <1>1, WFMin
<1>3. \A j \in K : ~(j < m)
  BY <1>2 DEF OpToRel
<1> QED BY <1>3

(* An entry of the table is a number below SG_SYSCALL_LIMIT. *)
LEMMA EntryInRange == \A i \in 0..(Count - 1) : Numbers[i] \in Int /\ 0 <= Numbers[i]
                                                /\ Numbers[i] < Limit
BY CatalogAssumption

(* The middle lies in the range that is still searched. *)
LEMMA MiddleInside ==
  ASSUME CatalogInv, lookup.at = "search", lookup.left < lookup.right
  PROVE  /\ Middle \in Int /\ lookup.left <= Middle /\ Middle < lookup.right
         /\ Middle \in 0..(Count - 1)
<1>1. lookup.left \in Int /\ lookup.right \in Int
  BY DEF CatalogInv, Lookups
<1>2. 0 <= lookup.left /\ lookup.right <= Count
  BY DEF CatalogInv, Bracketed
<1>3. Count \in Int
  BY CatalogAssumption
<1> QED
  BY <1>1, <1>2, <1>3 DEF Middle

(* A number that is out of range is in no entry; otherwise the search      *)
(* starts with the whole table.                                            *)
LEMMA BeginKeeps ==
  ASSUME CatalogInv, NEW n \in Asked, BeginLookup(n)
  PROVE  CatalogInv'
<1>1. n \in Int /\ Count \in Nat /\ Limit \in Nat
  BY CatalogAssumption
<1>2. CASE n < 0 \/ n >= Limit
  <2>1. lookup' = [lookup EXCEPT !.at = "done", !.number = n, !.found = Missing]
    BY <1>2 DEF BeginLookup
  <2>a. Missing \in Int
    BY DEF Missing
  <2>b. lookup \in Lookups
    BY DEF CatalogInv
  <2>2. lookup' \in Lookups /\ lookup'.at = "done" /\ lookup'.number = n
        /\ lookup'.found = Missing
    BY <1>1, <2>1, <2>a, <2>b DEF Lookups
  <2>3. \A i \in 0..(Count - 1) : Numbers[i] # n
    BY <1>1, <1>2, EntryInRange
  <2> QED
    BY <2>2, <2>3 DEF CatalogInv, Answered
<1>3. CASE ~(n < 0 \/ n >= Limit)
  <2>1. lookup' = [at |-> "search", number |-> n, left |-> 0, right |-> Count,
                   found |-> Missing]
    BY <1>3 DEF BeginLookup
  <2> QED
    BY <1>1, <2>1 DEF CatalogInv, Lookups, Bracketed, Missing
<1> QED
  BY <1>2, <1>3

(* Either half can be dropped because the table is sorted. *)
LEMMA NarrowKeeps ==
  ASSUME CatalogInv, Narrow
  PROVE  CatalogInv'
<1>1. lookup.at = "search" /\ lookup.left < lookup.right /\ lookup' = Narrowed(Middle)
  BY DEF Narrow
<1>2. Middle \in Int /\ lookup.left <= Middle /\ Middle < lookup.right
      /\ Middle \in 0..(Count - 1)
  BY <1>1, MiddleInside
<1>3. lookup \in Lookups /\ Bracketed
  BY <1>1 DEF CatalogInv
<1>4. \A i, j \in 0..(Count - 1) : i < j => Numbers[i] < Numbers[j]
  BY CatalogAssumption
<1>5. Count \in Int /\ lookup.number \in Int /\ lookup.left \in Int /\ lookup.right \in Int
  BY <1>3, CatalogAssumption DEF Lookups
<1>6. CASE Numbers[Middle] < lookup.number
  <2>1. lookup' = [lookup EXCEPT !.left = Middle + 1]
    BY <1>1, <1>6 DEF Narrowed
  <2>2. /\ lookup' \in Lookups /\ lookup'.at = "search" /\ lookup'.left = Middle + 1
        /\ lookup'.right = lookup.right /\ lookup'.number = lookup.number
    BY <1>1, <1>2, <1>3, <2>1 DEF Lookups
  <2>3. ASSUME NEW i \in 0..(Count - 1), i < Middle + 1
        PROVE  Numbers[i] < lookup.number
    <3>1. i = Middle \/ i < Middle
      BY <1>2, <2>3
    <3>2. Numbers[i] \in Int /\ Numbers[Middle] \in Int
      BY <1>2, EntryInRange
    <3> QED
      BY <1>2, <1>4, <1>5, <1>6, <3>1, <3>2
  <2>4. Bracketed'
    BY <1>2, <1>3, <1>5, <2>2, <2>3 DEF Bracketed
  <2> QED
    BY <2>2, <2>4 DEF CatalogInv
<1>7. CASE ~(Numbers[Middle] < lookup.number)
  <2>1. lookup' = [lookup EXCEPT !.right = Middle]
    BY <1>1, <1>7 DEF Narrowed
  <2>2. /\ lookup' \in Lookups /\ lookup'.at = "search" /\ lookup'.left = lookup.left
        /\ lookup'.right = Middle /\ lookup'.number = lookup.number
    BY <1>1, <1>2, <1>3, <2>1 DEF Lookups
  <2>3. ASSUME NEW i \in 0..(Count - 1), Middle <= i
        PROVE  Numbers[i] >= lookup.number
    <3>1. i = Middle \/ Middle < i
      BY <1>2, <2>3
    <3>2. Numbers[i] \in Int /\ Numbers[Middle] \in Int
      BY <1>2, EntryInRange
    <3> QED
      BY <1>2, <1>4, <1>5, <1>7, <3>1, <3>2
  <2>4. Bracketed'
    BY <1>2, <1>3, <1>5, <2>2, <2>3 DEF Bracketed
  <2> QED
    BY <2>2, <2>4 DEF CatalogInv
<1> QED
  BY <1>6, <1>7

(* Where left and right meet, left is the first entry that is not smaller: *)
(* if it is another number, the number is in no entry.                     *)
LEMMA EndKeeps ==
  ASSUME CatalogInv, EndLookup
  PROVE  CatalogInv'
<1> DEFINE Hit == lookup.left < Count /\ Numbers[lookup.left] = lookup.number
<1>1. /\ lookup.at = "search" /\ lookup.left >= lookup.right
      /\ lookup' = [lookup EXCEPT !.at = "done",
                      !.found = IF Hit THEN lookup.left ELSE Missing]
  BY DEF EndLookup
<1>2. lookup \in Lookups /\ Bracketed
  BY <1>1 DEF CatalogInv
<1>3. Count \in Int /\ lookup.number \in Int /\ lookup.left \in Int /\ lookup.right \in Int
  BY <1>2, CatalogAssumption DEF Lookups
<1>a. (IF Hit THEN lookup.left ELSE Missing) \in Int
  BY <1>3 DEF Missing
<1> HIDE DEF Hit
<1>4. /\ lookup' \in Lookups /\ lookup'.at = "done" /\ lookup'.number = lookup.number
      /\ lookup'.found = IF Hit THEN lookup.left ELSE Missing
  BY <1>1, <1>2, <1>a DEF Lookups
<1> USE DEF Hit
<1>5. CASE Hit
  BY <1>2, <1>3, <1>4, <1>5 DEF CatalogInv, Answered, Bracketed, Missing
<1>6. CASE ~Hit
  <2>1. ASSUME NEW i \in 0..(Count - 1)
        PROVE  Numbers[i] # lookup.number
    <3>1. Numbers[i] \in Int
      BY EntryInRange
    <3>2. CASE i < lookup.left
      BY <1>2, <1>3, <3>1, <3>2 DEF Bracketed
    <3>3. CASE i = lookup.left
      BY <1>3, <1>6, <3>3
    <3>4. CASE lookup.left < i
      <4>1. lookup.left \in 0..(Count - 1) /\ lookup.right <= lookup.left
        BY <1>1, <1>2, <1>3, <3>4 DEF Bracketed
      <4>2. Numbers[lookup.left] >= lookup.number /\ Numbers[lookup.left] < Numbers[i]
        BY <1>2, <3>4, <4>1, CatalogAssumption DEF Bracketed
      <4>3. Numbers[lookup.left] \in Int
        BY <4>1, EntryInRange
      <4> QED
        BY <1>3, <3>1, <4>2, <4>3
    <3> QED
      BY <1>3, <3>2, <3>3, <3>4
  <2> QED
    BY <1>4, <1>6, <2>1 DEF CatalogInv, Answered
<1> QED
  BY <1>5, <1>6

-----------------------------------------------------------------------------
(* Every step of a search. *)
LEMMA SearchKeeps ==
  ASSUME CatalogInv, [CatalogNext]_lookup
  PROVE  CatalogInv'
<1>1. CASE Narrow
  BY <1>1, NarrowKeeps
<1>2. CASE EndLookup
  BY <1>2, EndKeeps
<1>3. CASE \E n \in Asked : BeginLookup(n)
  BY <1>3, BeginKeeps
<1>4. CASE UNCHANGED lookup
  BY <1>4 DEF CatalogInv, Lookups, Bracketed, Answered
<1> QED
  BY <1>1, <1>2, <1>3, <1>4 DEF CatalogNext

(* sg_syscall_by_number reads only entries of the table, and its answer is *)
(* right, whatever the sorted table and whatever number it is given.       *)
THEOREM SearchIsExact == CatalogSpec => []LookupExact
<1>1. CatalogInit => CatalogInv
  BY DEF CatalogInit, CatalogInv, Lookups, Missing
<1>2. CatalogInv /\ [CatalogNext]_lookup => CatalogInv'
  BY SearchKeeps
<1>3. CatalogInv => LookupExact
  BY DEF CatalogInv, Bracketed, Answered, LookupExact
<1> QED
  BY <1>1, <1>2, <1>3, PTL DEF CatalogSpec

-----------------------------------------------------------------------------
(* X holds the places of t, up to the n-th, that are escaped. *)
EscapedUpTo(t, X, n) ==
  /\ X \subseteq 1..n
  /\ \A i \in 1..n : i \in X <=> (i > 1 /\ t[i - 1] = "\\" /\ (i - 1) \notin X)

(* Escaped, a recursion, is that set. *)
LEMMA EscapedIs ==
  ASSUME NEW t, Len(t) \in Nat
  PROVE  EscapedUpTo(t, Escaped(t), Len(t))
<1> DEFINE N == Len(t)
           Step(X, n) == IF n < 2 THEN {}
                         ELSE IF t[n - 1] = "\\" /\ n - 1 \notin X THEN X \cup {n} ELSE X
           F(f, k) == f = [n \in 0..k |-> IF n < 2 THEN {}
                                          ELSE IF t[n - 1] = "\\" /\ n - 1 \notin f[n - 1]
                                                 THEN f[n - 1] \cup {n}
                                          ELSE f[n - 1]]
           Good(k) == \E f : F(f, k)
           Bad == {k \in 0..N : ~Good(k)}
           upto == CHOOSE f : f = [n \in 0..Len(t) |->
                                     IF n < 2 THEN {}
                                     ELSE IF t[n - 1] = "\\" /\ n - 1 \notin f[n - 1]
                                            THEN f[n - 1] \cup {n}
                                     ELSE f[n - 1]]
<1>0. N \in Nat
  OBVIOUS
<1>1. Bad = {}
  <2> SUFFICES ASSUME Bad # {} PROVE FALSE
    OBVIOUS
  <2>1. Bad \in SUBSET Nat
    BY <1>0
  <2>2. PICK m \in Bad : \A j \in Bad : m <= j
    <3> HIDE DEF Bad
    <3> QED BY <2>1, LeastElement
  <2>3. m \in 0..N /\ ~Good(m)
    OBVIOUS
  <2>4. CASE m = 0
    <3>1. F([n \in 0..0 |-> {}], 0)
      OBVIOUS
    <3> QED BY <2>3, <2>4, <3>1
  <2>5. CASE m # 0
    <3>1. m \in Nat /\ m - 1 \in 0..N /\ ~(m <= m - 1)
      BY <1>0, <2>3, <2>5
    <3>2. m - 1 \notin Bad
      <4> HIDE DEF Bad
      <4> QED BY <2>2, <3>1
    <3>3. PICK f : F(f, m - 1)
      BY <3>1, <3>2
    <3> DEFINE g == [n \in 0..m |-> IF n = m THEN Step(f[m - 1], m) ELSE f[n]]
    <3>4. \A n \in 0..(m - 1) : f[n] = IF n < 2 THEN {}
                                       ELSE IF t[n - 1] = "\\" /\ n - 1 \notin f[n - 1]
                                              THEN f[n - 1] \cup {n}
                                       ELSE f[n - 1]
      BY <3>3
    <3>5. \A n \in 0..m : g[n] = IF n < 2 THEN {}
                                 ELSE IF t[n - 1] = "\\" /\ n - 1 \notin g[n - 1]
                                        THEN g[n - 1] \cup {n}
                                 ELSE g[n - 1]
      <4> SUFFICES ASSUME NEW n \in 0..m
                   PROVE  g[n] = IF n < 2 THEN {}
                                 ELSE IF t[n - 1] = "\\" /\ n - 1 \notin g[n - 1]
                                        THEN g[n - 1] \cup {n}
                                 ELSE g[n - 1]
        OBVIOUS
      <4>1. CASE n = m
        <5>1. g[m] = Step(f[m - 1], m) /\ g[m - 1] = f[m - 1]
          BY <3>1, <2>5
        <5> QED BY <4>1, <5>1
      <4>2. CASE n # m
        <5>1. n \in 0..(m - 1) /\ g[n] = f[n] /\ (n >= 2 => g[n - 1] = f[n - 1])
          BY <3>1, <4>2
        <5>2. f[n] = IF n < 2 THEN {}
                     ELSE IF t[n - 1] = "\\" /\ n - 1 \notin f[n - 1]
                            THEN f[n - 1] \cup {n}
                     ELSE f[n - 1]
          BY <3>4, <5>1
        <5> HIDE DEF g
        <5>3. CASE n < 2
          BY <5>1, <5>2, <5>3
        <5>4. CASE ~(n < 2)
          <6>1. g[n - 1] = f[n - 1] /\ g[n] = f[n]
            BY <5>1, <5>4
          <6> QED BY Zenon, <5>2, <5>4, <6>1
        <5> QED BY <5>3, <5>4
      <4> QED BY <4>1, <4>2
    <3>6. F(g, m)
      BY <3>5
    <3> QED BY <2>3, <3>6
  <2> QED BY <2>4, <2>5
<1>2. F(upto, N)
  <2>0. N \in 0..N
    BY <1>0
  <2>1. Good(N)
    <3> HIDE DEF Good, N
    <3> QED BY <1>1, <2>0
  <2> QED BY Zenon, <2>1
<1>3. Escaped(t) = upto[Len(t)]
  BY Zenon DEF Escaped
<1> HIDE DEF upto
<1>4. \A n \in 0..N : upto[n] = IF n < 2 THEN {}
                                ELSE IF t[n - 1] = "\\" /\ n - 1 \notin upto[n - 1]
                                       THEN upto[n - 1] \cup {n}
                                ELSE upto[n - 1]
  BY <1>2
<1> DEFINE Off == {n \in 0..N : ~EscapedUpTo(t, upto[n], n)}
<1>5. Off = {}
  <2> SUFFICES ASSUME Off # {} PROVE FALSE
    OBVIOUS
  <2>1. Off \in SUBSET Nat
    BY <1>0
  <2>2. PICK m \in Off : \A j \in Off : m <= j
    <3> HIDE DEF Off
    <3> QED BY <2>1, LeastElement
  <2>3. m \in 0..N /\ ~EscapedUpTo(t, upto[m], m)
    OBVIOUS
  <2>4. CASE m < 2
    <3>1. upto[m] = {}
      BY <1>4, <2>3, <2>4
    <3> QED BY <1>0, <2>3, <2>4, <3>1 DEF EscapedUpTo
  <2>5. CASE m >= 2
    <3>1. m \in Nat /\ m - 1 \in 0..N /\ ~(m <= m - 1)
      BY <1>0, <2>3, <2>5
    <3>2. m - 1 \notin Off
      <4> HIDE DEF Off
      <4> QED BY <2>2, <3>1
    <3>3. EscapedUpTo(t, upto[m - 1], m - 1)
      BY <3>1, <3>2
    <3>4. upto[m] = IF t[m - 1] = "\\" /\ m - 1 \notin upto[m - 1]
                      THEN upto[m - 1] \cup {m} ELSE upto[m - 1]
      <4>1. upto[m] = IF m < 2 THEN {}
                      ELSE IF t[m - 1] = "\\" /\ m - 1 \notin upto[m - 1]
                             THEN upto[m - 1] \cup {m}
                      ELSE upto[m - 1]
        BY <1>4, <2>3
      <4>2. ~(m < 2)
        BY <2>5, <3>1
      <4> QED BY <4>1, <4>2
    <3> QED BY <2>3, <2>5, <3>1, <3>3, <3>4, SMTT(30) DEF EscapedUpTo
  <2> QED BY <1>0, <2>3, <2>4, <2>5
<1>6. EscapedUpTo(t, upto[N], N)
  BY <1>0, <1>5
<1> QED BY <1>3, <1>6

(* There is one such set. *)
LEMMA EscapedUnique ==
  ASSUME NEW n \in Nat, NEW t, NEW u, NEW X, NEW Y, NEW k \in Nat, n <= k,
         EscapedUpTo(t, X, n), EscapedUpTo(u, Y, k), \A i \in 1..n : t[i] = u[i]
  PROVE  \A i \in 1..n : i \in X <=> i \in Y
<1> DEFINE Off == {i \in 1..n : ~(i \in X <=> i \in Y)}
<1> SUFFICES ASSUME Off # {} PROVE FALSE
  OBVIOUS
<1>1. Off \in SUBSET Nat
  OBVIOUS
<1>2. PICK m \in Off : \A j \in Off : m <= j
  <2> HIDE DEF Off
  <2> QED BY <1>1, LeastElement
<1>3. m \in 1..n /\ ~(m \in X <=> m \in Y) /\ m \in 1..k
  OBVIOUS
<1>4. m > 1
  BY <1>3 DEF EscapedUpTo
<1>5. m - 1 \in 1..n /\ ~(m <= m - 1)
  BY <1>3, <1>4
<1>6. m - 1 \notin Off
  <2> HIDE DEF Off
  <2> QED BY <1>2, <1>5
<1>7. (m - 1 \in X) <=> (m - 1 \in Y)
  BY <1>5, <1>6
<1> HIDE DEF Off
<1> QED BY <1>3, <1>4, <1>5, <1>7 DEF EscapedUpTo

(* What the loops append for a character. *)
Piece(p) == \/ \E c : c # "newline" /\ p = <<"\\", c>>
            \/ \E c : c \notin {"quote", "\\", "newline"} /\ p = <<c>>

(* Whether the next character of t would be escaped. *)
Pending(t) == t[Len(t)] = "\\" /\ Len(t) \notin Escaped(t)

LEMMA AtPlace ==
  ASSUME NEW t, NEW X, NEW n, EscapedUpTo(t, X, n), NEW i, i \in 1..n, NEW h, h = i - 1
  PROVE  i \in X <=> (i > 1 /\ t[h] = "\\" /\ h \notin X)
BY DEF EscapedUpTo

(* What t \o <<c>> and t \o <<"\\", c>> escape. *)
LEMMA EscapedAppend ==
  ASSUME NEW S, NEW t \in Seq(S), Len(t) >= 1, ~Pending(t), NEW p \in Seq(S)
  PROVE  /\ Len(p) = 1 => Escaped(t \o p) = Escaped(t)
         /\ Len(p) = 2 /\ p[1] = "\\" => Escaped(t \o p) = Escaped(t) \cup {Len(t) + 2}
<1> DEFINE L == Len(t)
           u == t \o p
           E == Escaped(t)
           D == Escaped(u)
<1>1. /\ L \in Nat /\ L >= 1 /\ Len(u) \in Nat /\ Len(u) = L + Len(p) /\ Len(p) \in Nat
      /\ \A i \in 1..L : t[i] = u[i]
      /\ \A i \in 1..Len(p) : u[L + i] = p[i]
  OBVIOUS
<1> HIDE DEF u
<1>2. EscapedUpTo(t, E, L) /\ EscapedUpTo(u, D, Len(u))
  BY <1>1, EscapedIs
<1>3. ~(t[L] = "\\" /\ L \notin E)
  BY DEF Pending
<1> HIDE DEF E, D, L
<1>4. \A i \in 1..L : i \in E <=> i \in D
  BY <1>1, <1>2, EscapedUnique
<1>5. L + 1 \in 1..Len(u) => L + 1 \notin D
  <2> SUFFICES ASSUME L + 1 \in 1..Len(u) PROVE L + 1 \notin D
    OBVIOUS
  <2>1. L = (L + 1) - 1 /\ L \in 1..L
    BY <1>1
  <2>2. L + 1 \in D <=> (L + 1 > 1 /\ u[L] = "\\" /\ L \notin D)
    BY <1>2, <2>1, AtPlace
  <2> QED BY <1>1, <1>3, <1>4, <2>1, <2>2
<1>6. D \subseteq 1..Len(u) /\ E \subseteq 1..L
  BY <1>2 DEF EscapedUpTo
<1>7. ASSUME Len(p) = 1 PROVE D = E
  <2>1. 1..Len(u) = 1..L \cup {L + 1} /\ L + 1 \in 1..Len(u)
    BY <1>1, <1>7
  <2> QED BY <1>4, <1>5, <1>6, <2>1
<1>8. ASSUME Len(p) = 2, p[1] = "\\" PROVE D = E \cup {L + 2}
  <2>1. 1..Len(u) = 1..L \cup {L + 1, L + 2} /\ L + 1 \in 1..Len(u) /\ L + 2 \in 1..Len(u)
    BY <1>1, <1>8
  <2>2. u[L + 1] = "\\"
    BY <1>1, <1>8
  <2>3. (L + 2) - 1 = L + 1 /\ L + 2 > 1
    BY <1>1
  <2>4. L + 2 \in D <=> (L + 2 > 1 /\ u[L + 1] = "\\" /\ L + 1 \notin D)
    BY <1>2, <2>1, <2>3, AtPlace
  <2>5. L + 2 \in D
    BY <1>5, <2>1, <2>2, <2>3, <2>4
  <2> QED BY <1>4, <1>5, <1>6, <2>1, <2>5
<1> QED
  BY <1>7, <1>8 DEF D, E, L, u

(* The text after k pieces. *)
OpenText(t, k, S) ==
  /\ t \in Seq(S) /\ Len(t) >= 1 /\ t[1] = "quote" /\ ~Pending(t)
  /\ \A j \in 2..Len(t) : t[j] = "quote" => j \in Escaped(t)
  /\ \A j \in 1..Len(t) : t[j] # "newline"
  /\ IsFiniteSet(Escaped(t)) /\ Cardinality(Escaped(t)) = Len(t) - 1 - k

LEMMA PieceAppended ==
  ASSUME NEW S, NEW t, NEW k \in Nat, OpenText(t, k, S), NEW p \in Seq(S), Piece(p)
  PROVE  OpenText(t \o p, k + 1, S)
<1> DEFINE L == Len(t)
           u == t \o p
           E == Escaped(t)
           D == Escaped(u)
<1>0. /\ t \in Seq(S) /\ L \in Nat /\ L >= 1 /\ t[1] = "quote" /\ ~Pending(t)
      /\ IsFiniteSet(E) /\ Cardinality(E) = L - 1 - k
      /\ \A j \in 2..L : t[j] = "quote" => j \in E
      /\ \A j \in 1..L : t[j] # "newline"
  BY DEF OpenText
<1>1. /\ u \in Seq(S) /\ Len(u) = L + Len(p) /\ Len(p) \in Nat
      /\ \A i \in 1..L : u[i] = t[i]
      /\ \A i \in 1..Len(p) : u[L + i] = p[i]
  BY <1>0
<1>2. /\ Len(p) = 1 => D = E
      /\ Len(p) = 2 /\ p[1] = "\\" => D = E \cup {L + 2}
  BY <1>0, EscapedAppend
<1>3. E \subseteq 1..L
  BY <1>0, EscapedIs DEF EscapedUpTo
<1> HIDE DEF u, L, E, D
<1>4. CASE \E c : c \notin {"quote", "\\", "newline"} /\ p = <<c>>
  <2>1. PICK c : c \notin {"quote", "\\", "newline"} /\ p = <<c>>
    BY <1>4
  <2>2. Len(p) = 1 /\ p[1] = c
    BY <2>1
  <2>3. D = E /\ Len(u) = L + 1 /\ u[L + 1] = c
    BY <1>1, <1>2, <2>2
  <2>4. u[1] = "quote" /\ Len(u) >= 1 /\ L + 1 \notin 1..L
    BY <1>0, <1>1, <2>3
  <2>5. \A j \in 1..Len(u) : j \in 1..L \/ j = L + 1
    BY <1>0, <2>3
  <2>6. \A j \in 1..Len(u) : u[j] # "newline"
    BY <1>0, <1>1, <2>1, <2>3, <2>5
  <2>7. \A j \in 2..Len(u) : u[j] = "quote" => j \in D
    <3>1. \A j \in 2..Len(u) : (j \in 2..L /\ j \in 1..L) \/ j = L + 1
      BY <1>0, <2>3
    <3> QED BY <1>0, <1>1, <2>1, <2>3, <3>1
  <2>8. Cardinality(D) = Len(u) - 1 - (k + 1) /\ IsFiniteSet(D)
    BY <1>0, <2>3
  <2>9. ~(u[Len(u)] = "\\" /\ Len(u) \notin D)
    BY <2>1, <2>3
  <2> QED
    BY <1>1, <2>4, <2>6, <2>7, <2>8, <2>9 DEF OpenText, Pending, D, u
<1>5. CASE \E c : c # "newline" /\ p = <<"\\", c>>
  <2>1. PICK c : c # "newline" /\ p = <<"\\", c>>
    BY <1>5
  <2>2. Len(p) = 2 /\ p[1] = "\\" /\ p[2] = c
    BY <2>1
  <2>3. D = E \cup {L + 2} /\ Len(u) = L + 2 /\ u[L + 1] = "\\" /\ u[L + 2] = c
    BY <1>1, <1>2, <2>2
  <2>4. u[1] = "quote" /\ Len(u) >= 1 /\ L + 2 \notin 1..L
    BY <1>0, <1>1, <2>3
  <2>5. \A j \in 1..Len(u) : j \in 1..L \/ j = L + 1 \/ j = L + 2
    BY <1>0, <2>3
  <2>6. \A j \in 1..Len(u) : u[j] # "newline"
    BY <1>0, <1>1, <2>1, <2>3, <2>5
  <2>7. \A j \in 2..Len(u) : u[j] = "quote" => j \in D
    <3>1. \A j \in 2..Len(u) : (j \in 2..L /\ j \in 1..L) \/ j = L + 1 \/ j = L + 2
      BY <1>0, <2>3
    <3> QED BY <1>0, <1>1, <2>1, <2>3, <3>1
  <2>8. Cardinality(D) = Len(u) - 1 - (k + 1) /\ IsFiniteSet(D)
    <3>1. L + 2 \notin E
      BY <1>3, <2>4
    <3>2. Cardinality(D) = Cardinality(E) + 1 /\ IsFiniteSet(D)
      BY <1>0, <2>3, <3>1, FS_AddElement
    <3> QED BY <1>0, <2>3, <3>2
  <2>9. ~(u[Len(u)] = "\\" /\ Len(u) \notin D)
    BY <2>3
  <2> QED
    BY <1>1, <2>4, <2>6, <2>7, <2>8, <2>9 DEF OpenText, Pending, D, u
<1> QED
  BY <1>4, <1>5 DEF Piece

(* The closing quote is found. *)
LEMMA TextClosed ==
  ASSUME NEW S, NEW t, NEW k \in Nat, OpenText(t, k, S), "quote" \in S
  PROVE  /\ Delimited(t \o <<"quote">>) /\ BytesShown(t \o <<"quote">>) = k
         /\ t \o <<"quote">> \in Seq(S)
<1> DEFINE L == Len(t)
           u == t \o <<"quote">>
           E == Escaped(t)
           D == Escaped(u)
<1>0. /\ t \in Seq(S) /\ L \in Nat /\ L >= 1 /\ t[1] = "quote" /\ ~Pending(t)
      /\ IsFiniteSet(E) /\ Cardinality(E) = L - 1 - k
      /\ \A j \in 2..L : t[j] = "quote" => j \in E
      /\ \A j \in 1..L : t[j] # "newline"
  BY DEF OpenText
<1>1. /\ u \in Seq(S) /\ Len(u) = L + 1 /\ DOMAIN u = 1..(L + 1)
      /\ \A i \in 1..L : u[i] = t[i]
      /\ u[L + 1] = "quote"
  BY <1>0
<1>2. D = E
  <2>1. <<"quote">> \in Seq(S) /\ Len(<<"quote">>) = 1
    OBVIOUS
  <2> QED BY <1>0, <2>1, EscapedAppend
<1>3. EscapedUpTo(t, E, L)
  BY <1>0, EscapedIs
<1>4. E \subseteq 1..L /\ 1 \notin E
  BY <1>0, <1>3 DEF EscapedUpTo
<1> HIDE DEF u, L, E, D
<1>5. \A j \in 1..(L + 1) : j = 1 \/ j = L + 1 \/ (j \in 2..L /\ j \in 1..L)
  BY <1>0
<1>6. {j \in DOMAIN u : u[j] = "quote"} \ D = {1, L + 1}
  <2>1. 1 \in 1..L /\ L + 1 \notin 1..L /\ 1 \in 1..(L + 1) /\ L + 1 \in 1..(L + 1)
    BY <1>0
  <2> QED BY <1>0, <1>1, <1>2, <1>4, <1>5, <2>1
<1>7. \A j \in DOMAIN u : u[j] # "newline"
  <2>1. \A j \in 1..(L + 1) : j \in 1..L \/ j = L + 1
    BY <1>0
  <2> QED BY <1>0, <1>1, <2>1
<1>8. Len(u) - 2 - Cardinality(D) = k
  BY <1>0, <1>1, <1>2
<1> QED
  BY <1>1, <1>6, <1>7, <1>8 DEF Delimited, BytesShown, D, u

(* Between quotes, any pieces can be told from the quotes, and counted. *)
LEMMA BetweenText ==
  ASSUME NEW S, NEW P \in Seq(Seq(S)), "quote" \in S, \A i \in 1..Len(P) : Piece(P[i])
  PROVE  /\ Delimited(Between(P)) /\ BytesShown(Between(P)) = Len(P)
         /\ Between(P) \in Seq(S)
<1> DEFINE N == Len(P)
           F(f, k) == f = [n \in 0..k |-> IF n = 0 THEN <<"quote">> ELSE f[n - 1] \o P[n]]
           Good(k) == \E f : F(f, k)
           Bad == {k \in 0..N : ~Good(k)}
           text == CHOOSE f : f = [n \in 0..Len(P) |->
                                     IF n = 0 THEN <<"quote">> ELSE f[n - 1] \o P[n]]
<1>0. N \in Nat /\ \A i \in 1..N : P[i] \in Seq(S)
  OBVIOUS
<1>1. Bad = {}
  <2> SUFFICES ASSUME Bad # {} PROVE FALSE
    OBVIOUS
  <2>1. Bad \in SUBSET Nat
    <3>1. Bad \subseteq 0..N
      <4> HIDE DEF Good
      <4> QED OBVIOUS
    <3> HIDE DEF Bad
    <3> QED BY <1>0, <3>1
  <2>2. PICK m \in Bad : \A j \in Bad : m <= j
    <3> HIDE DEF Bad
    <3> QED BY <2>1, LeastElement
  <2>3. m \in 0..N /\ ~Good(m)
    OBVIOUS
  <2>4. CASE m = 0
    <3>1. F([n \in 0..0 |-> <<"quote">>], 0)
      OBVIOUS
    <3> QED BY <2>3, <2>4, <3>1
  <2>5. CASE m # 0
    <3>1. m \in Nat /\ m - 1 \in 0..N /\ ~(m <= m - 1)
      BY <1>0, <2>3, <2>5
    <3>2. m - 1 \notin Bad
      <4> HIDE DEF Bad
      <4> QED BY <2>2, <3>1
    <3>3. PICK f : F(f, m - 1)
      BY <3>1, <3>2
    <3> DEFINE g == [n \in 0..m |-> IF n = m THEN f[m - 1] \o P[m] ELSE f[n]]
    <3>4. \A n \in 0..(m - 1) : f[n] = IF n = 0 THEN <<"quote">> ELSE f[n - 1] \o P[n]
      BY <3>3
    <3>5. \A n \in 0..m : g[n] = IF n = 0 THEN <<"quote">> ELSE g[n - 1] \o P[n]
      <4> SUFFICES ASSUME NEW n \in 0..m
                   PROVE  g[n] = IF n = 0 THEN <<"quote">> ELSE g[n - 1] \o P[n]
        OBVIOUS
      <4>1. CASE n = m
        <5>1. g[m] = f[m - 1] \o P[m] /\ g[m - 1] = f[m - 1]
          <6>1. m \in 0..m /\ m - 1 \in 0..m /\ m - 1 # m
            BY <3>1, <2>5
          <6> HIDE DEF F
          <6> QED BY <6>1
        <5> QED BY <2>5, <4>1, <5>1
      <4>2. CASE n # m
        <5>1. n \in 0..(m - 1) /\ g[n] = f[n] /\ (n # 0 => g[n - 1] = f[n - 1])
          BY <3>1, <4>2
        <5>2. f[n] = IF n = 0 THEN <<"quote">> ELSE f[n - 1] \o P[n]
          BY <3>4, <5>1
        <5> HIDE DEF g
        <5>3. CASE n = 0
          BY <5>1, <5>2, <5>3
        <5>4. CASE n # 0
          <6>1. g[n - 1] = f[n - 1] /\ g[n] = f[n]
            BY <5>1, <5>4
          <6> QED BY Zenon, <5>2, <5>4, <6>1
        <5> QED BY <5>3, <5>4
      <4> QED BY <4>1, <4>2
    <3>6. F(g, m)
      BY <3>5
    <3> QED BY <2>3, <3>6
  <2> QED BY <2>4, <2>5
<1>2. F(text, N)
  <2>0. N \in 0..N
    BY <1>0
  <2>1. Good(N)
    <3> HIDE DEF Good, N
    <3> QED BY <1>1, <2>0
  <2> QED BY Zenon, <2>1
<1>3. Between(P) = text[Len(P)] \o <<"quote">>
  BY Zenon DEF Between
<1> HIDE DEF text
<1>4. \A n \in 0..N : text[n] = IF n = 0 THEN <<"quote">> ELSE text[n - 1] \o P[n]
  BY <1>2
<1> DEFINE Off == {n \in 0..N : ~OpenText(text[n], n, S)}
<1>5. Off = {}
  <2> SUFFICES ASSUME Off # {} PROVE FALSE
    OBVIOUS
  <2>1. Off \in SUBSET Nat
    BY <1>0
  <2>2. PICK m \in Off : \A j \in Off : m <= j
    <3> HIDE DEF Off
    <3> QED BY <2>1, LeastElement
  <2>3. m \in 0..N /\ ~OpenText(text[m], m, S)
    OBVIOUS
  <2>4. CASE m = 0
    <3> DEFINE q == <<"quote">>
    <3>1. text[m] = q
      BY <1>4, <2>3, <2>4
    <3>2. q \in Seq(S) /\ Len(q) = 1 /\ q[1] = "quote"
      OBVIOUS
    <3> HIDE DEF q
    <3>3. EscapedUpTo(q, Escaped(q), 1)
      <4>1. Len(q) \in Nat
        BY <3>2
      <4>2. EscapedUpTo(q, Escaped(q), Len(q))
        BY <4>1, EscapedIs
      <4> QED BY <3>2, <4>2
    <3>4. Escaped(q) = {}
      <4>1. /\ Escaped(q) \subseteq 1..1
            /\ \A i \in 1..1 : i \in Escaped(q) <=> (i > 1 /\ q[i - 1] = "\\" /\ (i - 1) \notin Escaped(q))
        BY <3>3 DEF EscapedUpTo
      <4>2. 1..1 = {1}
        OBVIOUS
      <4>3. 1 \notin Escaped(q)
        BY <4>1, <4>2
      <4> QED BY <4>1, <4>2, <4>3
    <3>5. Cardinality(Escaped(q)) = 0 /\ IsFiniteSet(Escaped(q))
      BY <3>4, FS_EmptySet
    <3>6. OpenText(q, 0, S)
      BY <3>2, <3>4, <3>5 DEF OpenText, Pending
    <3> QED BY <2>3, <2>4, <3>1, <3>6
  <2>5. CASE m # 0
    <3>1. m \in Nat /\ m \in 1..N /\ m - 1 \in 0..N /\ ~(m <= m - 1) /\ m - 1 \in Nat /\ (m - 1) + 1 = m
      BY <1>0, <2>3, <2>5
    <3>2. m - 1 \notin Off
      <4> HIDE DEF Off
      <4> QED BY <2>2, <3>1
    <3>3. OpenText(text[m - 1], m - 1, S)
      BY <3>1, <3>2
    <3>4. text[m] = text[m - 1] \o P[m]
      BY <1>4, <2>3, <2>5
    <3>5. P[m] \in Seq(S) /\ Piece(P[m])
      BY <1>0, <3>1
    <3>6. OpenText(text[m - 1] \o P[m], (m - 1) + 1, S)
      BY <3>1, <3>3, <3>5, PieceAppended
    <3> QED BY <2>3, <3>1, <3>4, <3>6
  <2> QED BY <2>4, <2>5
<1>6. OpenText(text[Len(P)], Len(P), S)
  BY <1>0, <1>5
<1> QED
  BY <1>0, <1>3, <1>6, TextClosed

(* What append_escaped and append_json_string append are pieces. *)
LEMMA PiecesQuoted ==
  ASSUME NEW n \in Nat, NEW P, P = [i \in 1..n |-> P[i]], \A i \in 1..n : Piece(P[i])
  PROVE  /\ Delimited(Between(P)) /\ BytesShown(Between(P)) = n
         /\ \E S : Between(P) \in Seq(S)
<1> DEFINE S == {"quote"} \cup {P[i][1] : i \in 1..n} \cup {P[i][2] : i \in 1..n}
<1>1. ASSUME NEW i \in 1..n PROVE P[i] \in Seq(S)
  <2>1. P[i][1] \in S /\ P[i][2] \in S
    OBVIOUS
  <2>2. CASE \E c : P[i] = <<"\\", c>>
    <3>1. PICK c : P[i] = <<"\\", c>>
      BY <2>2
    <3>2. P[i][1] = "\\" /\ P[i][2] = c
      BY <3>1
    <3> HIDE DEF S
    <3>3. "\\" \in S /\ c \in S
      BY <2>1, <3>2
    <3>4. <<"\\", c>> \in Seq(S)
      BY <3>3
    <3> QED BY <3>1, <3>4
  <2>3. CASE \E c : P[i] = <<c>>
    <3>1. PICK c : P[i] = <<c>>
      BY <2>3
    <3>2. P[i][1] = c
      BY <3>1
    <3> HIDE DEF S
    <3>3. c \in S
      BY <2>1, <3>2
    <3>4. <<c>> \in Seq(S)
      BY <3>3
    <3> QED BY <3>1, <3>4
  <2> QED BY <2>2, <2>3 DEF Piece
<1>2. "quote" \in S
  OBVIOUS
<1> HIDE DEF S
<1>3. P \in [1..n -> Seq(S)]
  BY <1>1
<1>4. P \in Seq(Seq(S)) /\ Len(P) = n
  BY <1>3
<1> QED
  BY <1>2, <1>4, BetweenText

LEMMA EscapedQuoted ==
  ASSUME NEW n \in Nat, NEW d, Len(d) = n
  PROVE  /\ Delimited(append_escaped(d)) /\ BytesShown(append_escaped(d)) = n
         /\ Delimited(append_json_string(append_escaped(d)))
<1> DEFINE P == [i \in 1..n |-> Escape(d[i])]
           t == append_escaped(d)
<1>1. \A i \in 1..n : Piece(P[i])
  BY DEF Escape, Piece
<1>2. t = Between(P)
  BY DEF append_escaped
<1> HIDE DEF P
<1>3. P = [i \in 1..n |-> P[i]]
  BY DEF P
<1>4. Delimited(t) /\ BytesShown(t) = n /\ \E S : t \in Seq(S)
  BY <1>1, <1>2, <1>3, PiecesQuoted
<1> HIDE DEF t
<1>5. PICK m \in Nat : Len(t) = m
  BY <1>4
<1> DEFINE Q == [i \in 1..m |-> JsonEscape(t[i])]
<1>6. \A i \in 1..m : Piece(Q[i])
  BY DEF JsonEscape, Piece
<1>7. append_json_string(t) = Between(Q)
  BY <1>5 DEF append_json_string
<1> HIDE DEF Q
<1>8. Q = [i \in 1..m |-> Q[i]]
  BY DEF Q
<1>9. Delimited(append_json_string(t))
  BY <1>6, <1>7, <1>8, PiecesQuoted
<1> QED
  BY <1>4, <1>9 DEF t

(* The names printed among the first n, and what is left, make up value. *)
Accounted(f, value, n) ==
  LET printed == {i \in 1..n : FlagNames[i] \subseteq f[i - 1]}
  IN  /\ f[n] \cup UNION {FlagNames[j] : j \in printed} = value
      /\ \A j, k \in printed : j # k => FlagNames[j] \cap FlagNames[k] = {}
      /\ \A j \in printed : FlagNames[j] \cap f[n] = {}

(* append_flags accounts for every bit, once. *)
LEMMA FlagWord ==
  ASSUME NEW value
  PROVE  Exact(append_flags(value), value)
<1> DEFINE N == Len(FlagNames)
           After(x, n) == IF FlagNames[n] \subseteq x THEN Clear(x, n) ELSE x
           F(f, k) == f = [i \in 0..k |-> IF i = 0 THEN value
                                          ELSE IF FlagNames[i] \subseteq f[i - 1]
                                                 THEN Clear(f[i - 1], i)
                                          ELSE f[i - 1]]
           Good(k) == \E f : F(f, k)
           Bad == {k \in 0..N : ~Good(k)}
           after == CHOOSE f : f = [i \in 0..Len(FlagNames) |->
                                      IF i = 0 THEN value
                                      ELSE IF FlagNames[i] \subseteq f[i - 1]
                                             THEN Clear(f[i - 1], i)
                                      ELSE f[i - 1]]
<1>0. N \in Nat /\ DOMAIN FlagNames = 1..N
  BY DecoderAssumption
<1>1. Bad = {}
  <2> SUFFICES ASSUME Bad # {} PROVE FALSE
    OBVIOUS
  <2>1. Bad \in SUBSET Nat
    <3>1. Bad \subseteq 0..N
      <4> HIDE DEF Good
      <4> QED OBVIOUS
    <3> HIDE DEF Bad
    <3> QED BY <1>0, <3>1
  <2>2. PICK m \in Bad : \A j \in Bad : m <= j
    <3> HIDE DEF Bad
    <3> QED BY <2>1, LeastElement
  <2>3. m \in 0..N /\ ~Good(m)
    OBVIOUS
  <2>4. CASE m = 0
    <3>1. F([n \in 0..0 |-> value], 0)
      OBVIOUS
    <3> QED BY <2>3, <2>4, <3>1
  <2>5. CASE m # 0
    <3>1. m \in Nat /\ m - 1 \in 0..N /\ ~(m <= m - 1)
      BY <1>0, <2>3, <2>5
    <3>2. m - 1 \notin Bad
      <4> HIDE DEF Bad
      <4> QED BY <2>2, <3>1
    <3>3. PICK f : F(f, m - 1)
      BY <3>1, <3>2
    <3> DEFINE g == [n \in 0..m |-> IF n = m THEN After(f[m - 1], m) ELSE f[n]]
    <3>4. \A n \in 0..(m - 1) : f[n] = IF n = 0 THEN value ELSE After(f[n - 1], n)
      BY <3>3
    <3> HIDE DEF After
    <3>5. \A n \in 0..m : g[n] = IF n = 0 THEN value ELSE After(g[n - 1], n)
      <4> SUFFICES ASSUME NEW n \in 0..m
                   PROVE  g[n] = IF n = 0 THEN value ELSE After(g[n - 1], n)
        OBVIOUS
      <4>1. CASE n = m
        <5>1. g[m] = After(f[m - 1], m) /\ g[m - 1] = f[m - 1]
          <6>1. m \in 0..m /\ m - 1 \in 0..m /\ m - 1 # m
            BY <3>1, <2>5
          <6> HIDE DEF F
          <6> QED BY <6>1
        <5> QED BY <2>5, <4>1, <5>1
      <4>2. CASE n # m
        <5>1. n \in 0..(m - 1) /\ g[n] = f[n] /\ (n # 0 => g[n - 1] = f[n - 1])
          BY <3>1, <4>2
        <5>2. f[n] = IF n = 0 THEN value ELSE After(f[n - 1], n)
          BY <3>4, <5>1
        <5> HIDE DEF g
        <5>3. CASE n = 0
          BY <5>1, <5>2, <5>3
        <5>4. CASE n # 0
          <6>1. g[n - 1] = f[n - 1] /\ g[n] = f[n]
            BY <5>1, <5>4
          <6> QED BY Zenon, <5>2, <5>4, <6>1
        <5> QED BY <5>3, <5>4
      <4> QED BY <4>1, <4>2
    <3>6. F(g, m)
      <4>1. \A n \in 0..m : g[n] = IF n = 0 THEN value
                                   ELSE IF FlagNames[n] \subseteq g[n - 1]
                                          THEN Clear(g[n - 1], n)
                                   ELSE g[n - 1]
        BY <3>5 DEF After
      <4> QED BY <4>1
    <3> QED BY <2>3, <3>6
  <2> QED BY <2>4, <2>5
<1>2. F(after, N)
  <2>0. N \in 0..N
    BY <1>0
  <2>1. Good(N)
    <3> HIDE DEF Good, N
    <3> QED BY <1>1, <2>0
  <2> QED BY Zenon, <2>1
<1>3. append_flags(value) =
        [form  |-> "flags", rest |-> after[Len(FlagNames)],
         names |-> {i \in DOMAIN FlagNames : FlagNames[i] \subseteq after[i - 1]}]
  BY Zenon DEF append_flags
<1> HIDE DEF after
<1>4. /\ 0 \in 0..N => after[0] = value
      /\ \A n \in 1..N : after[n] = IF FlagNames[n] \subseteq after[n - 1]
                                      THEN after[n - 1] \ FlagNames[n] ELSE after[n - 1]
  <2>1. \A n \in 0..N : after[n] = IF n = 0 THEN value
                                   ELSE IF FlagNames[n] \subseteq after[n - 1]
                                          THEN Clear(after[n - 1], n)
                                   ELSE after[n - 1]
    BY <1>2
  <2>2. \A n \in 1..N : n \in 0..N /\ n # 0
    BY <1>0
  <2> QED BY <2>1, <2>2 DEF Clear
<1> DEFINE Off == {n \in 0..N : ~Accounted(after, value, n)}
<1>5. Off = {}
  <2> SUFFICES ASSUME Off # {} PROVE FALSE
    OBVIOUS
  <2>1. Off \in SUBSET Nat
    BY <1>0
  <2>2. PICK m \in Off : \A j \in Off : m <= j
    <3> HIDE DEF Off
    <3> QED BY <2>1, LeastElement
  <2>3. m \in 0..N /\ ~Accounted(after, value, m)
    OBVIOUS
  <2>4. CASE m = 0
    <3>1. after[m] = value /\ {i \in 1..m : FlagNames[i] \subseteq after[i - 1]} = {}
      BY <1>4, <2>3, <2>4
    <3> QED BY <2>3, <3>1 DEF Accounted
  <2>5. CASE m # 0
    <3>1. m \in Nat /\ m \in 1..N /\ m - 1 \in 0..N /\ ~(m <= m - 1)
      BY <1>0, <2>3, <2>5
    <3>2. m - 1 \notin Off
      <4> HIDE DEF Off
      <4> QED BY <2>2, <3>1
    <3> DEFINE x == after[m - 1]
               y == after[m]
               Printed(k) == {i \in 1..k : FlagNames[i] \subseteq after[i - 1]}
               A == Printed(m - 1)
               B == Printed(m)
    <3>3. /\ x \cup UNION {FlagNames[j] : j \in A} = value
          /\ \A j, k \in A : j # k => FlagNames[j] \cap FlagNames[k] = {}
          /\ \A j \in A : FlagNames[j] \cap x = {}
      BY <3>1, <3>2 DEF Accounted
    <3>4. y = IF FlagNames[m] \subseteq x THEN x \ FlagNames[m] ELSE x
      BY <1>4, <3>1
    <3>5. B = IF FlagNames[m] \subseteq x THEN A \cup {m} ELSE A
      <4>1. 1..m = 1..(m - 1) \cup {m}
        BY <3>1
      <4> QED BY <4>1
    <3>6. m \notin A
      BY <3>1
    <3> HIDE DEF A, B, x, y
    <3>7. CASE FlagNames[m] \subseteq x
      <4>1. y = x \ FlagNames[m] /\ B = A \cup {m}
        BY <3>4, <3>5, <3>7
      <4>2. y \cup UNION {FlagNames[j] : j \in B} = value
        BY <3>3, <3>7, <4>1
      <4>3. \A j, k \in B : j # k => FlagNames[j] \cap FlagNames[k] = {}
        BY <3>3, <3>7, <4>1
      <4>4. \A j \in B : FlagNames[j] \cap y = {}
        BY <3>3, <4>1
      <4>5. Accounted(after, value, m)
        BY <4>2, <4>3, <4>4 DEF Accounted, B, y
      <4> QED BY <2>3, <4>5
    <3>8. CASE ~(FlagNames[m] \subseteq x)
      <4>1. y = x /\ B = A
        BY <3>4, <3>5, <3>8
      <4>2. Accounted(after, value, m)
        BY <3>3, <4>1 DEF Accounted, B, y
      <4> QED BY <2>3, <4>2
    <3> QED BY <3>7, <3>8
  <2> QED BY <2>4, <2>5
<1>6. Accounted(after, value, N)
  BY <1>0, <1>5
<1>7. /\ append_flags(value).rest = after[N]
      /\ append_flags(value).names = {i \in 1..N : FlagNames[i] \subseteq after[i - 1]}
  BY <1>0, <1>3
<1> QED
  BY <1>6, <1>7 DEF Accounted, Exact

-----------------------------------------------------------------------------
(* The decoder looks numbers up in the same way. *)
LEMMA DecoderSearches ==
  ASSUME [Next]_vars
  PROVE  [CatalogNext]_lookup
BY DEF Next, vars, Search, Capture, CaptureFails, Captured, Unfinished, Decode, DecodeFails,
       Release, Scribble, Over, Enter, Return, CatalogNext

(* How many arguments a call has. *)
LEMMA CountBounded ==
  ASSUME CatalogInv, lookup.at = "done"
  PROVE  effective_argument_count \in 0..6
<1>1. CASE ~Known
  BY <1>1 DEF effective_argument_count
<1>2. CASE Known
  <2>1. lookup.found \in 0..(Count - 1)
    BY <1>2 DEF Known, CatalogInv, Answered
  <2>2. Descriptor.arity \in 0..6
    BY <2>1, DecoderAssumption DEF Descriptor
  <2>3. CASE \E v \in ValuesOf("OPEN_FLAGS") : v \cap Creating = {}
    <3>1. Descriptor.arity # 0
      BY <2>3 DEF ValuesOf
    <3> QED
      BY <1>2, <2>2, <2>3, <3>1 DEF effective_argument_count
  <2> QED
    BY <1>2, <2>2, <2>3 DEF effective_argument_count
<1> QED
  BY <1>1, <1>2

(* The kinds of argument that are captured at entry and have a property. *)
Kept == Inputs \cup FlagKinds \cup {"OPEN_FLAGS"}

(* An input argument is rendered from memory and from the arguments alone, *)
(* and always as something.                                                *)
LEMMA InputsOnly ==
  ASSUME NEW m, NEW e, NEW f, NEW spec, NEW i, spec.kind \in Kept, f.arguments = e.arguments
  PROVE  render_argument(m, f, spec, i) = render_argument(m, e, spec, i)
BY DEF Kept, Inputs, FlagKinds, render_argument

LEMMA RenderedIsSet ==
  ASSUME NEW m, NEW e, NEW spec, NEW i, spec.kind \in Kept
  PROVE  render_argument(m, e, spec, i) # Unset
<1> DEFINE v == e.arguments[i]
<1>1. ASSUME NEW x, x.form # "unset" PROVE x # Unset
  BY <1>1 DEF Unset
<1>2. \A a : append_pointer(a).form # "unset"
  BY DEF append_pointer, Null
<1>3. \A d, more : Quoted(d, more).form # "unset"
  BY DEF Quoted
<1>4. \A d : Fields(d).form # "unset"
  BY DEF Fields
<1>5. \A a, n, z : append_remote_bytes(m, a, n, z).form # "unset"
  BY <1>2, <1>3 DEF append_remote_bytes, Null
<1>6. append_argv(m, v).form # "unset"
  BY DEF append_argv, Null
<1>7. \A n : append_sockaddr(m, v, n).form # "unset"
  BY <1>2, <1>4 DEF append_sockaddr
<1>8. \A n : append_struct(m, v, n).form # "unset"
  BY <1>2, <1>4 DEF append_struct
<1>9. render_argument(m, e, spec, i).form # "unset"
  <2>1. CASE spec.kind \in {"STRING", "BUFFER_IN"}
    BY <1>5, <2>1 DEF render_argument, FlagKinds, append_string
  <2>2. CASE spec.kind = "ARGV"
    BY <1>6, <2>2 DEF render_argument, FlagKinds
  <2>3. CASE spec.kind = "SOCKADDR_IN"
    BY <1>7, <2>3 DEF render_argument, FlagKinds
  <2>4. CASE spec.kind = "TIMESPEC_IN"
    BY <1>8, <2>4 DEF render_argument, FlagKinds
  <2>5. CASE spec.kind \in FlagKinds
    BY <2>5 DEF render_argument, FlagKinds, append_flags
  <2>6. CASE spec.kind = "OPEN_FLAGS"
    BY <2>6 DEF render_argument, FlagKinds, append_open_flags
  <2> QED
    BY <2>1, <2>2, <2>3, <2>4, <2>5, <2>6 DEF Kept, Inputs
<1> QED
  BY <1>1, <1>9

-----------------------------------------------------------------------------
(* What is known of argument j: if it is an input that has been captured,  *)
(* or is shown, it is as memory had it at the entry stop.                  *)
AsEntered(x, j) == \E m \in during : x = render_argument(m, event, ArgumentSpec(j), j)

IsInput(j) == Known /\ j < effective_argument_count /\ ArgumentSpec(j).kind \in Kept

Placed ==
  /\ event = [number |-> event.number, arguments |-> event.arguments,
              result |-> event.result, error |-> event.error]
  /\ at \in {"user", "capture", "running", "exit", "dropped", "release", "released"}
  /\ index \in Nat /\ saved = [j \in 0..5 |-> saved[j]]
  /\ at = "user" \/ lookup.at # "done" => index = 0
  /\ at \in {"running", "exit", "release", "released"} => lookup.at = "done"
  /\ at = "capture" => mem \in during
  /\ at \in {"user", "capture", "dropped"} => line = NoLine

Captures ==
  at \in {"capture", "running", "exit"} /\ lookup.at = "done" =>
    \A j \in 0..5 : IsInput(j) /\ (j < index \/ at # "capture") =>
      saved[j] # Unset /\ AsEntered(saved[j], j)

ShowsEntered == \A i \in Shows(Kept) : AsEntered(Shown(i), i)

Entered == Placed /\ Captures /\ ShowsEntered

LEMMA NothingShown ==
  ASSUME line.args = << >>
  PROVE  ShowsEntered
BY DEF ShowsEntered, Shows, Lines

LEMMA EnteredInit ==
  ASSUME Init
  PROVE  Entered
<1>1. line.args = << >>
  BY DEF Init, NoLine
<1>2. ShowsEntered
  BY <1>1, NothingShown
<1> QED
  BY <1>2 DEF Init, Entered, Placed, Captures, CatalogInit, Nothing

(* The lines shown stay true when nothing but memory changes. *)
LEMMA ShownStays ==
  ASSUME Entered, UNCHANGED <<lookup, line>>, during \subseteq during',
         event'.arguments = event.arguments
  PROVE  ShowsEntered'
<1>1. Shows(Kept)' = Shows(Kept)
  BY DEF Shows, Lines, Known, ArgumentSpec, Descriptor
<1> SUFFICES ASSUME NEW i \in Shows(Kept) PROVE AsEntered(Shown(i), i)'
  BY <1>1 DEF ShowsEntered
<1>2. AsEntered(Shown(i), i) /\ ArgumentSpec(i).kind \in Kept
  BY DEF Entered, ShowsEntered, Shows
<1>3. PICK m \in during : Shown(i) = render_argument(m, event, ArgumentSpec(i), i)
  BY <1>2 DEF AsEntered
<1>4. ArgumentSpec(i)' = ArgumentSpec(i) /\ Shown(i)' = Shown(i)
  BY DEF ArgumentSpec, Descriptor, Shown
<1>5. render_argument(m, event', ArgumentSpec(i), i) = render_argument(m, event, ArgumentSpec(i), i)
  BY <1>2, InputsOnly
<1> QED
  BY <1>3, <1>4, <1>5 DEF AsEntered

LEMMA SavedStays ==
  ASSUME Entered, UNCHANGED lookup, during \subseteq during', NEW j \in 0..5, NEW x,
         event'.arguments = event.arguments, IsInput(j)', AsEntered(x, j)
  PROVE  IsInput(j) /\ AsEntered(x, j)'
<1>1. ArgumentSpec(j)' = ArgumentSpec(j)
  BY DEF ArgumentSpec, Descriptor
<1>2. IsInput(j)
  BY <1>1 DEF IsInput, Known, effective_argument_count, ValuesOf, Descriptor, ArgumentSpec
<1>3. PICK m \in during : x = render_argument(m, event, ArgumentSpec(j), j)
  BY DEF AsEntered
<1>4. render_argument(m, event', ArgumentSpec(j), j) = render_argument(m, event, ArgumentSpec(j), j)
  BY <1>2, InputsOnly DEF IsInput
<1> QED
  BY <1>1, <1>2, <1>3, <1>4 DEF AsEntered

(* A line is made of what was captured. *)
LEMMA LineEntered ==
  ASSUME CatalogInv, Entered, at \in {"running", "exit"}, UNCHANGED <<lookup, event, during>>,
         line'.args = DecodedArguments
  PROVE  ShowsEntered'
<1>1. lookup.at = "done"
  BY DEF Entered, Placed
<1>2. effective_argument_count \in 0..6
  BY <1>1, CountBounded
<1> SUFFICES ASSUME NEW i \in Shows(Kept)' PROVE AsEntered(Shown(i), i)'
  BY DEF ShowsEntered
<1>3. Known' = Known /\ ArgumentSpec(i)' = ArgumentSpec(i)
  BY DEF Known, ArgumentSpec, Descriptor
<1>4. i \in 0..(Len(line'.args) - 1) /\ Known /\ ArgumentSpec(i).kind \in Kept
  BY <1>3 DEF Shows, Lines
<1>5. Len(line'.args) = effective_argument_count
  BY <1>2 DEF DecodedArguments
<1>6. i \in 0..5 /\ i < effective_argument_count /\ i + 1 \in 1..effective_argument_count
  BY <1>2, <1>4, <1>5
<1>7. IsInput(i)
  BY <1>4, <1>6 DEF IsInput
<1>8. saved[i] # Unset /\ AsEntered(saved[i], i)
  BY <1>1, <1>6, <1>7 DEF Entered, Captures
<1>9. Shown(i)' = saved[i]
  <2>1. Shown(i)' = DecodedArguments[i + 1]
    BY DEF Shown
  <2>2. DecodedArguments[i + 1] = Decoded(i + 1 - 1)
    BY <1>6 DEF DecodedArguments
  <2>3. i + 1 - 1 = i
    BY <1>6
  <2> QED
    BY <1>8, <2>1, <2>2, <2>3 DEF Decoded
<1> QED
  BY <1>3, <1>8, <1>9 DEF AsEntered

LEMMA CaptureEntered ==
  ASSUME CatalogInv, Entered, Capture
  PROVE  Entered'
<1>1. /\ at = "capture" /\ lookup.at = "done" /\ Known /\ index < effective_argument_count
      /\ UNCHANGED <<lookup, mem, event, at, line, during>> /\ index' = index + 1
  BY DEF Capture, Capturing
<1>2. effective_argument_count \in 0..6
  BY <1>1, CountBounded
<1>3. index \in 0..5
  BY <1>1, <1>2 DEF Entered, Placed
<1> DEFINE r == render_argument(mem, event, ArgumentSpec(index), index)
<1>4. \/ saved' = saved /\ is_output_argument(ArgumentSpec(index).kind)
      \/ saved' = [saved EXCEPT ![index] = r]
  BY DEF Capture
<1>5. saved = [j \in 0..5 |-> saved[j]] /\ mem \in during
  BY <1>1 DEF Entered, Placed
<1> HIDE DEF r
<1>6. saved' = [j \in 0..5 |-> saved'[j]]
  BY <1>4, <1>5
<1>7. ASSUME NEW j \in 0..5, IsInput(j)', j < index'
      PROVE  (saved[j] # Unset /\ AsEntered(saved[j], j))'
  <2>1. IsInput(j) /\ ArgumentSpec(j)' = ArgumentSpec(j)
    BY <1>1, <1>7 DEF IsInput, Known, effective_argument_count, ValuesOf, Descriptor, ArgumentSpec
  <2>2. CASE j = index
    <3>1. ~is_output_argument(ArgumentSpec(index).kind)
      BY <2>1, <2>2 DEF IsInput, Kept, Inputs, FlagKinds, is_output_argument
    <3>2. saved'[j] = r
      BY <1>4, <1>5, <2>2, <3>1
    <3>3. r # Unset
      BY <2>1, <2>2, RenderedIsSet DEF IsInput, r
    <3>4. AsEntered(r, j)
      BY <1>5, <2>2 DEF AsEntered, r
    <3> QED
      BY <1>1, <2>1, <3>2, <3>3, <3>4 DEF AsEntered
  <2>3. CASE j # index
    <3>1. saved'[j] = saved[j] /\ j < index
      BY <1>1, <1>3, <1>4, <1>5, <1>7, <2>3
    <3>2. saved[j] # Unset /\ AsEntered(saved[j], j)
      BY <1>1, <2>1, <3>1 DEF Entered, Captures
    <3> QED
      BY <1>1, <2>1, <3>1, <3>2 DEF AsEntered
  <2> QED
    BY <2>2, <2>3
<1>8. ShowsEntered'
  BY <1>1, ShownStays
<1>9. Placed'
  BY <1>1, <1>3, <1>6 DEF Entered, Placed
<1> QED
  BY <1>1, <1>7, <1>8, <1>9 DEF Entered, Captures

LEMMA EnteredNext ==
  ASSUME CatalogInv, Entered, [Next]_vars
  PROVE  Entered'
<1>1. /\ event = [number |-> event.number, arguments |-> event.arguments,
                  result |-> event.result, error |-> event.error]
      /\ index \in Nat /\ saved = [j \in 0..5 |-> saved[j]]
  BY DEF Entered, Placed
<1>2. ASSUME UNCHANGED <<lookup, index, saved>>, event'.arguments = event.arguments,
             during \subseteq during', at' = at
      PROVE  Captures'
  <2> SUFFICES ASSUME at \in {"capture", "running", "exit"}, lookup.at = "done",
                      NEW j \in 0..5, IsInput(j)', j < index \/ at # "capture"
               PROVE  saved[j] # Unset /\ AsEntered(saved[j], j)'
    BY <1>2 DEF Captures, AsEntered
  <2>1. IsInput(j)
    BY <1>2 DEF IsInput, Known, effective_argument_count, ValuesOf, Descriptor, ArgumentSpec
  <2>2. saved[j] # Unset /\ AsEntered(saved[j], j)
    BY <2>1 DEF Entered, Captures
  <2> QED
    BY <1>2, <2>2, SavedStays
<1>3. ASSUME NEW n \in Asked, NEW arguments \in Arguments(n), Enter(n, arguments)
      PROVE  Entered'
  <2>1. /\ at = "user" /\ at' = "capture" /\ index = 0 /\ index' = 0 /\ during' = {mem}
        /\ mem' = mem /\ line = NoLine /\ line' = NoLine /\ saved' = saved
    BY <1>3 DEF Enter, Entered, Placed
  <2>2. event' = [number |-> event'.number, arguments |-> event'.arguments,
                  result |-> event'.result, error |-> event'.error]
    BY <1>1, <1>3 DEF Enter
  <2>3. ShowsEntered'
    BY <2>1, NothingShown DEF ShowsEntered, Shows, Lines, NoLine
  <2> QED
    BY <1>1, <2>1, <2>2, <2>3 DEF Entered, Placed, Captures
<1>4. CASE Search
  <2>1. /\ lookup.at = "search" /\ UNCHANGED <<mem, event, at, index, saved, line, during>>
    BY <1>4 DEF Search, Narrow, EndLookup
  <2>2. index = 0 /\ at \in {"user", "capture", "dropped"} /\ line = NoLine
    BY <2>1 DEF Entered, Placed
  <2>3. ShowsEntered'
    BY <2>1, <2>2 DEF ShowsEntered, Shows, Lines, NoLine
  <2> QED
    BY <1>1, <2>1, <2>2, <2>3 DEF Entered, Placed, Captures
<1>5. CASE Capture
  BY <1>5, CaptureEntered
<1>6. CASE CaptureFails
  <2>1. /\ at = "capture" /\ at' = "dropped" /\ lookup.at = "done" /\ saved' = Nothing
        /\ UNCHANGED <<lookup, mem, event, index, line, during>>
    BY <1>6 DEF CaptureFails, Capturing, sg_decoder_release_event
  <2>2. ShowsEntered'
    BY <2>1, ShownStays
  <2> QED
    BY <1>1, <2>1, <2>2 DEF Entered, Placed, Captures, Nothing
<1>7. CASE Captured
  <2>1. /\ at = "capture" /\ at' = "running" /\ lookup.at = "done" /\ ~Capturing
        /\ UNCHANGED <<lookup, mem, event, index, saved, line, during>>
    BY <1>7 DEF Captured
  <2>2. ShowsEntered'
    BY <2>1, ShownStays
  <2>3. effective_argument_count \in 0..6
    BY <2>1, CountBounded
  <2>4. ASSUME NEW j \in 0..5, IsInput(j)' PROVE saved[j] # Unset /\ AsEntered(saved[j], j)'
    <3>1. IsInput(j)
      BY <2>1, <2>4 DEF IsInput, Known, effective_argument_count, ValuesOf, Descriptor, ArgumentSpec
    <3>2. j < index
      BY <1>1, <2>1, <2>3, <3>1 DEF IsInput, Capturing
    <3>3. saved[j] # Unset /\ AsEntered(saved[j], j)
      BY <2>1, <3>1, <3>2 DEF Entered, Captures
    <3> QED
      BY <2>1, <2>4, <3>3, SavedStays
  <2>5. Captures'
    BY <2>1, <2>4 DEF Captures, AsEntered
  <2>6. Placed'
    BY <1>1, <2>1 DEF Entered, Placed
  <2> QED
    BY <2>2, <2>5, <2>6 DEF Entered
<1>8. CASE Unfinished
  <2>1. /\ at = "running" /\ line'.args = DecodedArguments
        /\ UNCHANGED <<lookup, mem, event, at, index, saved, during>>
    BY <1>8 DEF Unfinished
  <2>2. ShowsEntered'
    BY <2>1, LineEntered
  <2>3. Captures'
    BY <1>2, <2>1
  <2>4. Placed'
    BY <1>1, <2>1 DEF Entered, Placed
  <2> QED
    BY <2>2, <2>3, <2>4 DEF Entered
<1>9. CASE Decode
  <2>1. /\ at = "exit" /\ at' = "release" /\ UNCHANGED <<lookup, mem, event, index, saved, during>>
        /\ line'.args = DecodedArguments \/ line'.args = << >>
    BY <1>9 DEF Decode, NoLine
  <2>2. ShowsEntered'
    BY <2>1, LineEntered DEF ShowsEntered, Shows, Lines
  <2> QED
    BY <1>1, <2>1, <2>2 DEF Entered, Placed, Captures
<1>10. CASE DecodeFails \/ Release
  <2>1. /\ at \in {"running", "exit", "release"} /\ at' \in {"release", "released"}
        /\ UNCHANGED <<lookup, mem, event, index, line, during>>
        /\ saved' = saved \/ saved' = Nothing
    BY <1>10 DEF DecodeFails, Release, sg_decoder_release_event
  <2>2. ShowsEntered'
    BY <2>1, ShownStays
  <2> QED
    BY <1>1, <2>1, <2>2 DEF Entered, Placed, Captures, Nothing
<1>11. ASSUME NEW r \in Results, NEW error, Return(r, error)
       PROVE  Entered'
  <2>1. /\ at = "running" /\ at' = "exit" /\ UNCHANGED <<lookup, index, saved, line, during>>
    BY <1>11 DEF Return
  <2>2. /\ event'.arguments = event.arguments
        /\ event' = [number |-> event'.number, arguments |-> event'.arguments,
                     result |-> event'.result, error |-> event'.error]
    BY <1>1, <1>11 DEF Return
  <2>3. ShowsEntered'
    BY <2>1, <2>2, ShownStays
  <2>4. ASSUME NEW j \in 0..5, IsInput(j)' PROVE saved[j] # Unset /\ AsEntered(saved[j], j)'
    <3>1. IsInput(j)
      BY <2>1, <2>2, <2>4
         DEF IsInput, Known, effective_argument_count, ValuesOf, Descriptor, ArgumentSpec
    <3>2. saved[j] # Unset /\ AsEntered(saved[j], j)
      BY <2>1, <3>1 DEF Entered, Captures, Placed
    <3> QED
      BY <2>1, <2>2, <2>4, <3>2, SavedStays
  <2>5. Captures'
    BY <2>1, <2>4 DEF Captures, AsEntered
  <2>6. Placed'
    BY <1>1, <2>1, <2>2 DEF Entered, Placed
  <2> QED
    BY <2>3, <2>5, <2>6 DEF Entered
<1>12. CASE Scribble
  <2>1. /\ UNCHANGED <<lookup, event, at, index, saved, line>>
        /\ during \subseteq during' /\ (at = "capture" => mem' \in during')
    BY <1>12 DEF Scribble
  <2>2. ShowsEntered' /\ Captures'
    BY <1>2, <2>1, ShownStays
  <2>3. Placed'
    BY <1>1, <2>1 DEF Entered, Placed
  <2> QED
    BY <2>2, <2>3 DEF Entered
<1>13. CASE UNCHANGED vars
  <2>1. UNCHANGED <<lookup, mem, event, at, index, saved, line, during>>
    BY <1>13 DEF vars
  <2>2. ShowsEntered' /\ Captures'
    BY <1>2, <2>1, ShownStays
  <2>3. Placed'
    BY <1>1, <2>1 DEF Entered, Placed
  <2> QED
    BY <2>2, <2>3 DEF Entered
<1> QED
  BY <1>3, <1>4, <1>5, <1>6, <1>7, <1>8, <1>9, <1>10, <1>11, <1>12, <1>13 DEF Next, Over

(* Whatever the table, the call, the memory and what other threads write   *)
(* to it: the input arguments in a line are those of the entry stop, and   *)
(* the descriptor they are rendered by is the one of the call's number.    *)
THEOREM InputsTrue == Spec => [](InputsAsEntered /\ LookupExact)
<1> DEFINE I == CatalogInv /\ Entered
<1>1. Init => I
  BY EnteredInit DEF Init, CatalogInit, CatalogInv, Lookups, Missing
<1>2. I /\ [Next]_vars => I'
  BY DecoderSearches, SearchKeeps, EnteredNext
<1>3. I => InputsAsEntered /\ LookupExact
  BY DEF CatalogInv, Bracketed, Answered, LookupExact, Entered, ShowsEntered, AsEntered,
         InputsAsEntered, Shows, Kept
<1> QED
  BY <1>1, <1>2, <1>3, PTL DEF Spec

-----------------------------------------------------------------------------
(* Min and Max of the numbers met here. *)
LEMMA LeastIs ==
  ASSUME NEW K \in SUBSET Nat, K # {}
  PROVE  Min(K) \in K /\ \A y \in K : Min(K) <= y
<1>1. \E m \in K : \A y \in K : m <= y
  BY LeastElement
<1> QED
  BY <1>1 DEF Min

LEMMA MinOfTwo ==
  ASSUME NEW a \in Nat, NEW b \in Nat
  PROVE  Min({a, b}) = IF a <= b THEN a ELSE b
<1>1. Min({a, b}) \in {a, b} /\ \A y \in {a, b} : Min({a, b}) <= y
  BY LeastIs
<1> QED
  BY <1>1

LEMMA GreatestIs ==
  ASSUME NEW n \in Nat, NEW K, K \subseteq 0..n, K # {}
  PROVE  Max(K) \in K /\ \A y \in K : y <= Max(K)
<1> DEFINE D == {n - x : x \in K}
<1>0. \A x \in K : n - x \in Nat
  OBVIOUS
<1>1. D \in SUBSET Nat /\ D # {}
  BY <1>0
<1>2. PICK d \in D : \A y \in D : d <= y
  <2> HIDE DEF D
  <2> QED BY <1>1, LeastElement
<1>3. PICK m \in K : d = n - m
  OBVIOUS
<1>4. \A y \in K : m >= y
  <2> SUFFICES ASSUME NEW y \in K PROVE m >= y
    OBVIOUS
  <2>1. n - y \in D
    OBVIOUS
  <2>2. n - m <= n - y
    BY <1>2, <1>3, <2>1
  <2> QED BY <2>2
<1>5. Max(K) \in K /\ \A y \in K : Max(K) >= y
  BY <1>4 DEF Max
<1> QED
  BY <1>5

(* What read_memory returns: a prefix of what was asked for, all mapped. *)
LEMMA ReadShape ==
  ASSUME NEW m, NEW a, NEW n \in Nat
  PROVE  \E k \in 0..n :
           /\ read_memory(m, a, n) = [i \in 1..k |-> m[a + i - 1]]
           /\ \A i \in 0..(k - 1) : a + i \in DOMAIN m
           /\ Len(read_memory(m, a, n)) = k /\ DOMAIN read_memory(m, a, n) = 1..k
           /\ \E S : read_memory(m, a, n) \in Seq(S)
<1> DEFINE K == {j \in 0..n : \A i \in 0..(j - 1) : a + i \in DOMAIN m}
           k == Max(K)
           d == [i \in 1..k |-> m[a + i - 1]]
           S == {m[a + i - 1] : i \in 1..k}
<1>1. 0 \in K /\ K \subseteq 0..n
  OBVIOUS
<1>2. k \in K
  <2> HIDE DEF K
  <2> QED BY <1>1, GreatestIs
<1>3. k \in 0..n /\ \A i \in 0..(k - 1) : a + i \in DOMAIN m
  <2> HIDE DEF k
  <2> QED BY <1>2
<1>4. read_memory(m, a, n) = d
  BY DEF read_memory
<1> HIDE DEF k
<1>5. d \in [1..k -> S] /\ k \in Nat
  BY <1>3
<1>6. d \in Seq(S) /\ Len(d) = k /\ DOMAIN d = 1..k
  <2> HIDE DEF d, S
  <2> QED BY <1>5
<1> QED
  BY <1>3, <1>4, <1>6

(* A string ends before its first nul. *)
LEMMA CutShape ==
  ASSUME NEW S, NEW d \in Seq(S)
  PROVE  /\ Len(UpToNul(d)) \in 0..Len(d)
         /\ HasNul(d) => Len(UpToNul(d)) + 1 \in 1..Len(d) /\ d[Len(UpToNul(d)) + 1] = 0
<1> DEFINE Z == {j \in DOMAIN d : d[j] = 0}
           K == {i - 1 : i \in Z} \cup {Len(d)}
           q == Min(K)
<1>0. Len(d) \in Nat /\ DOMAIN d = 1..Len(d)
  OBVIOUS
<1>1. K \in SUBSET Nat /\ K # {} /\ Len(d) \in K /\ \A i \in Z : i - 1 \in K
  BY <1>0
<1>2. q \in K /\ \A y \in K : q <= y
  <2> HIDE DEF K
  <2> QED BY <1>1, LeastIs
<1>3. UpToNul(d) = SubSeq(d, 1, q)
  BY DEF UpToNul
<1>4. q \in 0..Len(d)
  <2> HIDE DEF K, q
  <2> QED BY <1>0, <1>1, <1>2
<1> HIDE DEF q
<1>5. Len(UpToNul(d)) = q
  BY <1>0, <1>3, <1>4
<1>6. ASSUME HasNul(d) PROVE q + 1 \in 1..Len(d) /\ d[q + 1] = 0
  <2>1. PICK z \in 1..Len(d) : d[z] = 0
    <3>1. \E z \in DOMAIN d : d[z] = 0
      BY <1>6 DEF HasNul
    <3> QED BY <1>0, <3>1
  <2>2. z \in Z /\ z - 1 \in K
    BY <1>0, <2>1
  <2>3. q <= z - 1
    <3> HIDE DEF K
    <3> QED BY <1>2, <2>2
  <2>4. q # Len(d)
    <3>1. z \in Nat /\ z <= Len(d) /\ q \in Nat
      BY <1>0, <1>4
    <3>2. \A l, x, y \in Nat : y <= l /\ x <= y - 1 => x # l
      OBVIOUS
    <3> HIDE DEF Z, K
    <3> QED BY <1>0, <2>3, <3>1, <3>2
  <2>5. PICK i \in Z : q = i - 1
    BY <1>2, <2>4
  <2>6. i = q + 1 /\ i \in 1..Len(d) /\ d[i] = 0
    BY <1>0, <2>5
  <2> QED BY <2>6
<1> QED
  BY <1>4, <1>5, <1>6

(* A text that can be told from what follows it. *)
Fine(x) == x.form \in {"quoted", "path", "abstract"} =>
             Delimited(x.text) /\ Delimited(append_json_string(x.text))

LEMMA QuotedFine ==
  ASSUME NEW d, Len(d) \in Nat, NEW more
  PROVE  /\ Fine(Quoted(d, more)) /\ Quoted(d, more).form = "quoted"
         /\ Quoted(d, more).more = more /\ BytesShown(Quoted(d, more).text) = Len(d)
<1>1. Quoted(d, more).text = append_escaped(d)
  BY DEF Quoted
<1>2. /\ Delimited(append_escaped(d)) /\ BytesShown(append_escaped(d)) = Len(d)
      /\ Delimited(append_json_string(append_escaped(d)))
  BY EscapedQuoted
<1> QED
  BY <1>1, <1>2 DEF Fine, Quoted

(* What append_remote_bytes shows is quoted, no longer than -s, and "..."  *)
(* follows it if and only if there is more.                                *)
LEMMA RemoteShape ==
  ASSUME NEW m, NEW a, NEW r \in Nat, NEW z \in BOOLEAN
  PROVE  LET x == append_remote_bytes(m, a, r, z)
         IN  /\ Fine(x)
             /\ x.form = "quoted" => BytesShown(x.text) <= StringLimit
             /\ x.form = "quoted" /\ ~z =>
                  IF x.more THEN BytesShown(x.text) < r ELSE BytesShown(x.text) = r
             /\ x.form = "quoted" /\ z /\ r > StringLimit /\ a \in Nat =>
                  x.more \/ Complete(m, a, BytesShown(x.text))
<1> DEFINE amount == Min({r, StringLimit})
           data   == read_memory(m, a, amount)
           x      == append_remote_bytes(m, a, r, z)
<1>0. StringLimit \in Nat
  BY DecoderAssumption
<1>1. /\ amount = IF r <= StringLimit THEN r ELSE StringLimit
  BY <1>0, MinOfTwo
<1>2. x = IF a = 0 THEN Null
          ELSE IF amount = 0 THEN Quoted(<< >>, r # 0)
          ELSE IF data = << >> THEN append_pointer(a)
          ELSE IF ~z THEN Quoted(data, Truncated(data, r))
          ELSE Quoted(UpToNul(data), ~HasNul(data))
  BY DEF append_remote_bytes
<1> HIDE DEF amount, x
<1>3. amount \in Nat /\ amount <= StringLimit /\ amount <= r
  BY <1>0, <1>1
<1>4. PICK k \in 0..amount :
           /\ data = [i \in 1..k |-> m[a + i - 1]]
           /\ \A i \in 0..(k - 1) : a + i \in DOMAIN m
           /\ Len(data) = k /\ DOMAIN data = 1..k
           /\ \E S : data \in Seq(S)
  BY <1>3, ReadShape
<1> HIDE DEF data
<1>a. k \in Nat /\ k <= amount
  BY <1>3
<1>5. CASE a = 0 \/ (amount # 0 /\ data = << >>)
  <2>1. x = Null \/ x = append_pointer(a)
    BY <1>2, <1>5
  <2>2. x.form \in {"NULL", "pointer"}
    BY <2>1 DEF Null, append_pointer
  <2> QED
    BY <2>2 DEF Fine, x
<1>6. CASE a # 0 /\ amount = 0
  <2>1. x = Quoted(<< >>, r # 0)
    BY <1>2, <1>6
  <2>2. Len(<< >>) = 0 /\ Len(<< >>) \in Nat
    OBVIOUS
  <2>a. x.more <=> r # 0
    <3>1. x.more = (r # 0)
      BY Zenon, <2>1 DEF Quoted
    <3> QED BY Zenon, <3>1
  <2>b. Fine(x) /\ x.form = "quoted" /\ BytesShown(x.text) = Len(<< >>)
    BY Zenon, <2>1, <2>2, QuotedFine
  <2>3. Fine(x) /\ x.form = "quoted" /\ (x.more <=> r # 0) /\ BytesShown(x.text) = 0
    BY <2>a, <2>b, <2>2
  <2>c. r > StringLimit => r # 0
    BY <1>0
  <2>4. r > StringLimit => x.more
    BY <2>a, <2>c
  <2> QED
    BY <1>0, <2>3, <2>4 DEF x
<1>7. CASE a # 0 /\ amount # 0 /\ data # << >> /\ ~z
  <2>1. x = Quoted(data, Truncated(data, r))
    BY <1>2, <1>7
  <2>2. Len(data) \in Nat
    BY <1>4, <1>a
  <2>a. x.more <=> Truncated(data, r)
    <3>1. x.more = Truncated(data, r)
      BY Zenon, <2>1 DEF Quoted
    <3> QED BY Zenon, <3>1
  <2>b. Fine(x) /\ x.form = "quoted" /\ BytesShown(x.text) = Len(data)
    BY Zenon, <2>1, <2>2, QuotedFine
  <2>3. Fine(x) /\ x.form = "quoted" /\ (x.more <=> Truncated(data, r)) /\ BytesShown(x.text) = Len(data)
    BY <2>a, <2>b
  <2>4. Len(data) <= StringLimit /\ Len(data) <= r
    BY <1>0, <1>3, <1>4, <1>a
  <2> QED
    BY <1>7, <2>2, <2>3, <2>4 DEF x, Truncated
<1>8. CASE a # 0 /\ amount # 0 /\ data # << >> /\ z
  <2>1. x = Quoted(UpToNul(data), ~HasNul(data))
    BY <1>2, <1>8
  <2>2. PICK S : data \in Seq(S)
    BY <1>4
  <2>3. /\ Len(UpToNul(data)) \in 0..k
        /\ HasNul(data) => Len(UpToNul(data)) + 1 \in 1..k /\ data[Len(UpToNul(data)) + 1] = 0
    BY <1>4, <2>2, CutShape
  <2> DEFINE q == Len(UpToNul(data))
  <2>4. q \in Nat /\ q <= StringLimit
    BY <1>0, <1>3, <1>a, <2>3
  <2>5. Fine(x) /\ x.form = "quoted" /\ x.more = (~HasNul(data)) /\ BytesShown(x.text) = q
    BY <2>1, <2>4, QuotedFine
  <2> HIDE DEF q
  <2>6. ASSUME HasNul(data), a \in Nat PROVE Complete(m, a, q)
    <3>1. q + 1 \in 1..k /\ data[q + 1] = 0
      BY <2>3, <2>6 DEF q
    <3>2. data[q + 1] = m[a + (q + 1) - 1] /\ a + (q + 1) - 1 = a + q /\ q \in 0..(k - 1)
      BY <1>4, <1>a, <2>4, <2>6, <3>1
    <3> QED
      BY <1>4, <3>1, <3>2 DEF Complete
  <2> QED
    BY <1>8, <2>4, <2>5, <2>6 DEF x
<1> QED
  BY <1>5, <1>6, <1>7, <1>8

LEMMA StringShape ==
  ASSUME NEW m, NEW a
  PROVE  LET x == append_string(m, a)
         IN  /\ Fine(x)
             /\ x.form = "quoted" => BytesShown(x.text) <= StringLimit
             /\ x.form = "quoted" /\ a \in Nat => x.more \/ Complete(m, a, BytesShown(x.text))
<1>1. StringLimit + 1 \in Nat /\ StringLimit + 1 > StringLimit /\ TRUE \in BOOLEAN
  BY DecoderAssumption
<1> QED
  BY <1>1, RemoteShape DEF append_string

LEMMA ArgvShape ==
  ASSUME NEW m, NEW a \in Nat
  PROVE  LET x == append_argv(m, a)
         IN  /\ x.form \in {"argv", "NULL"}
             /\ x.form = "argv" => /\ Len(x.items) <= MaxArgv
                                   /\ x.ends = "]" => Complete(m, a, Len(x.items))
<1> DEFINE pointer(i) == read_memory(m, a + i, 1)
           K    == {i \in 0..(MaxArgv - 1) : pointer(i) \in {<< >>, <<0>>}} \cup {MaxArgv}
           stop == Min(K)
           items == [i \in 1..stop |-> append_string(m, pointer(i - 1)[1])]
           x    == append_argv(m, a)
<1>0. MaxArgv \in Nat
  BY DecoderAssumption
<1>1. x = IF a = 0 THEN Null
          ELSE [form  |-> "argv", items |-> items,
                ends  |-> IF stop = MaxArgv THEN ", ...]"
                          ELSE IF pointer(stop) = <<0>> THEN "]" ELSE "?, ...]"]
  BY DEF append_argv
<1>2. K \in SUBSET Nat /\ K # {} /\ MaxArgv \in K
  BY <1>0
<1>3. stop \in Nat /\ stop <= MaxArgv
  <2> HIDE DEF K
  <2> QED BY <1>2, LeastIs
<1> HIDE DEF x, stop
<1>4. Len(items) = stop
  BY <1>3
<1> HIDE DEF items
<1>5. CASE a = 0
  BY <1>1, <1>5 DEF x, Null
<1>6. CASE a # 0
  <2>1. x.form = "argv" /\ x.items = items
    BY <1>1, <1>6
  <2>2. ASSUME x.ends = "]" PROVE Complete(m, a, stop)
    <3>1. pointer(stop) = <<0>>
      BY <1>1, <1>6, <2>2
    <3>2. PICK k \in 0..1 :
             /\ pointer(stop) = [i \in 1..k |-> m[a + stop + i - 1]]
             /\ \A i \in 0..(k - 1) : a + stop + i \in DOMAIN m
             /\ Len(pointer(stop)) = k
      <4>1. 1 \in Nat
        OBVIOUS
      <4> QED BY <4>1, ReadShape
    <3>3. Len(<<0>>) = 1 /\ <<0>>[1] = 0
      OBVIOUS
    <3>4. k = 1
      BY <3>1, <3>2, <3>3
    <3>5. m[a + stop + 1 - 1] = 0 /\ a + stop + 0 \in DOMAIN m
      BY <3>1, <3>2, <3>3, <3>4
    <3>6. a + stop + 1 - 1 = a + stop /\ a + stop + 0 = a + stop
      BY <1>3
    <3> QED
      BY <3>5, <3>6 DEF Complete
  <2> QED
    BY <1>3, <1>4, <2>1, <2>2 DEF x
<1> QED
  BY <1>5, <1>6

LEMMA SockaddrShape ==
  ASSUME NEW m, NEW a, NEW length \in Nat
  PROVE  Fine(append_sockaddr(m, a, length))
<1> DEFINE n == Min({length, SockaddrStorage})
           data == read_memory(m, a, n)
           path == Tail(data)
           x == append_sockaddr(m, a, length)
<1>1. n \in Nat
  <2>1. SockaddrStorage \in Nat
    BY DEF SockaddrStorage
  <2> QED BY <2>1, MinOfTwo
<1> HIDE DEF n
<1>2. PICK S : data \in Seq(S)
  BY <1>1, ReadShape
<1>3. \/ x = append_pointer(a)
      \/ \E d : x = Fields(d)
      \/ data # << >> /\ path # << >> /\ x = [form |-> "abstract", text |-> append_escaped(Tail(path))]
      \/ data # << >> /\ x = [form |-> "path", text |-> append_escaped(UpToNul(path))]
  BY DEF append_sockaddr, n
<1> HIDE DEF data, x
<1>4. CASE x = append_pointer(a) \/ \E d : x = Fields(d)
  <2>1. x.form \in {"NULL", "pointer", "fields"}
    BY <1>4 DEF append_pointer, Null, Fields
  <2> QED
    BY <2>1 DEF Fine, x
<1>5. data # << >> => path \in Seq(S)
  BY <1>2
<1>6. CASE data # << >> /\ path # << >> /\ x = [form |-> "abstract", text |-> append_escaped(Tail(path))]
  <2>1. Len(Tail(path)) \in Nat
    <3> HIDE DEF path
    <3> QED BY <1>5, <1>6
  <2> HIDE DEF path
  <2>2. Delimited(append_escaped(Tail(path))) /\ Delimited(append_json_string(append_escaped(Tail(path))))
    BY <2>1, EscapedQuoted
  <2> QED
    BY <1>6, <2>2 DEF Fine, x
<1>7. CASE data # << >> /\ x = [form |-> "path", text |-> append_escaped(UpToNul(path))]
  <2> HIDE DEF path
  <2>1. Len(UpToNul(path)) \in 0..Len(path) /\ Len(path) \in Nat
    BY <1>5, <1>7, CutShape
  <2>a. Len(UpToNul(path)) \in Nat
    BY <2>1
  <2>2. Delimited(append_escaped(UpToNul(path))) /\ Delimited(append_json_string(append_escaped(UpToNul(path))))
    BY <2>a, EscapedQuoted
  <2> QED
    BY <1>7, <2>2 DEF Fine, x
<1> QED
  BY <1>3, <1>4, <1>6, <1>7

(* The kinds of argument that the kernel fills in. *)
Outputs == {"STRING_OUT", "BUFFER_OUT", "PIPE_OUT", "UTS_OUT"}

(* What the event was when the line was made. *)
EventShown == [number |-> event.number, arguments |-> event.arguments,
               result |-> IF line.kind = "unfinished" THEN 0 ELSE event.result,
               error  |-> IF line.kind = "unfinished" THEN FALSE ELSE event.error]

AsShown(i) == \E m : Shown(i) = render_argument(m, EventShown, ArgumentSpec(i), i)

Called ==
  /\ at # "user" => event.arguments \in Arguments(lookup.number)
  /\ event.result \in Int /\ event.error \in BOOLEAN
  /\ at \in {"user", "capture", "running"} => event.result = 0 /\ event.error = FALSE

SavedInputs ==
  /\ at = "user" \/ lookup.at # "done" => saved = Nothing
  /\ \A j \in 0..5 : saved[j] # Unset => ~is_output_argument(ArgumentSpec(j).kind)

LineMade ==
  /\ line.args # << >> => line.kind \in {"unfinished", "whole"}
  /\ line.kind = "whole" => at \in {"release", "released"}
  /\ Lines => Len(line.args) \in Nat /\ Len(line.args) <= Descriptor.arity

ShowsOutputs == \A i \in Shows(Outputs) : AsShown(i)

Drawn == Called /\ SavedInputs /\ LineMade /\ ShowsOutputs

(* A call of the catalogue has no more arguments than its descriptor. *)
LEMMA CountWithin ==
  ASSUME CatalogInv, lookup.at = "done", Known
  PROVE  effective_argument_count <= Descriptor.arity
<1>1. lookup.found \in 0..(Count - 1)
  BY DEF Known, CatalogInv, Answered
<1>2. /\ Descriptor.arity \in 0..6
      /\ Descriptor.arity = 1 => Descriptor.arguments[1].kind # "FCNTL_COMMAND"
  BY <1>1, DecoderAssumption DEF Descriptor
<1>3. ASSUME NEW v \in ValuesOf("FCNTL_COMMAND") PROVE Descriptor.arity >= 2
  <2>1. PICK j \in 0..(Descriptor.arity - 1) : ArgumentSpec(j).kind = "FCNTL_COMMAND"
    BY DEF ValuesOf
  <2>2. Descriptor.arity = 1 => j = 0 /\ j + 1 = 1
    BY <1>2
  <2>3. Descriptor.arity # 1
    BY <1>2, <2>1, <2>2 DEF ArgumentSpec
  <2> QED BY <1>2, <2>3
<1> QED
  BY <1>2, <1>3 DEF effective_argument_count

(* The arguments are of the sort their descriptor says. *)
LEMMA Typed ==
  ASSUME CatalogInv, Drawn, at # "user", lookup.at = "done", Known,
         NEW i \in 0..(Descriptor.arity - 1)
  PROVE  /\ ArgumentSpec(i).kind \in {"STRING", "ARGV"} => event.arguments[i] \in Nat
         /\ ArgumentSpec(i).kind \in Sized => event.arguments[ArgumentSpec(i).auxiliary] \in Nat
<1>1. lookup.found \in 0..(Count - 1) /\ Numbers[lookup.found] = lookup.number
  BY DEF Known, CatalogInv, Answered
<1>2. event.arguments \in Arguments(Numbers[lookup.found])
  BY <1>1 DEF Drawn, Called
<1> QED
  BY <1>1, <1>2, DecoderAssumption DEF Descriptor, ArgumentSpec

LEMMA DrawnInit ==
  ASSUME Init
  PROVE  Drawn
<1>1. line.args = << >> /\ line.kind = "none"
  BY DEF Init, NoLine
<1>2. saved = Nothing /\ \A j \in 0..5 : saved[j] = Unset
  BY DEF Init, Nothing
<1>3. ShowsOutputs /\ LineMade
  BY <1>1 DEF ShowsOutputs, Shows, Lines, LineMade
<1>4. Called
  BY DEF Called, Init
<1> QED
  BY <1>2, <1>3, <1>4 DEF Drawn, SavedInputs

(* A line stays as it is. *)
LEMMA LineStays ==
  ASSUME Drawn, UNCHANGED <<lookup, line>>, line.kind = "whole" => at' \in {"release", "released"},
         EventShown' = EventShown \/ line.args = << >>
  PROVE  LineMade' /\ ShowsOutputs'
<1>1. Known' = Known /\ Descriptor' = Descriptor /\ Lines' = Lines
  BY DEF Known, Descriptor, Lines
<1>2. \A i : ArgumentSpec(i)' = ArgumentSpec(i) /\ Shown(i)' = Shown(i)
  BY DEF ArgumentSpec, Descriptor, Shown
<1>3. LineMade'
  BY <1>1 DEF Drawn, LineMade
<1>4. \A i : i \in Shows(Outputs)' => i \in Shows(Outputs) /\ line.args # << >>
  BY <1>1, <1>2 DEF Shows, Lines, Outputs
<1>5. ShowsOutputs'
  <2> SUFFICES ASSUME NEW i \in Shows(Outputs)' PROVE AsShown(i)'
    BY DEF ShowsOutputs
  <2>1. AsShown(i) /\ EventShown' = EventShown
    BY <1>4 DEF Drawn, ShowsOutputs
  <2> QED
    BY <1>2, <2>1 DEF AsShown
<1> QED
  BY <1>3, <1>5

(* The line of a call. *)
LEMMA LineDrawn ==
  ASSUME CatalogInv, Entered, Drawn, at \in {"running", "exit"},
         UNCHANGED <<lookup, event, saved>>, line'.args = DecodedArguments,
         line'.kind \in {"unfinished", "whole"}, EventShown' = event,
         line'.kind = "whole" => at' \in {"release", "released"}
  PROVE  LineMade' /\ ShowsOutputs'
<1>1. lookup.at = "done"
  BY DEF Entered, Placed
<1>2. effective_argument_count \in 0..6 /\ (Known => effective_argument_count <= Descriptor.arity)
  BY <1>1, CountBounded, CountWithin
<1>3. Len(line'.args) = effective_argument_count
  BY <1>2 DEF DecodedArguments
<1>4. Known' = Known /\ Descriptor' = Descriptor /\ \A i : ArgumentSpec(i)' = ArgumentSpec(i)
  BY DEF Known, ArgumentSpec, Descriptor
<1>5. LineMade'
  BY <1>2, <1>3, <1>4 DEF LineMade, Lines
<1>6. ShowsOutputs'
  <2> SUFFICES ASSUME NEW i \in Shows(Outputs)' PROVE AsShown(i)'
    BY DEF ShowsOutputs
  <2>1. i \in 0..(Len(line'.args) - 1) /\ Known /\ ArgumentSpec(i).kind \in Outputs
    BY <1>4 DEF Shows, Lines
  <2>2. i \in 0..5 /\ i + 1 \in 1..effective_argument_count /\ (i + 1) - 1 = i
    BY <1>2, <1>3, <2>1
  <2>3. saved[i] = Unset
    BY <2>1, <2>2 DEF Drawn, SavedInputs, Outputs, is_output_argument
  <2>4. Shown(i)' = Decoded(i)
    <3>1. DecodedArguments[i + 1] = Decoded((i + 1) - 1)
      BY <2>2 DEF DecodedArguments
    <3> QED BY <2>2, <3>1 DEF Shown
  <2>5. Decoded(i) = render_argument(mem, event, ArgumentSpec(i), i)
    BY <2>1, <2>3 DEF Decoded
  <2> QED
    BY <1>4, <2>4, <2>5 DEF AsShown
<1> QED
  BY <1>5, <1>6

(* The lines stay true, whatever happens next. *)
LEMMA DrawnNext ==
  ASSUME CatalogInv, Entered, Drawn, [Next]_vars
  PROVE  Drawn'
<1>1. /\ event = [number |-> event.number, arguments |-> event.arguments,
                  result |-> event.result, error |-> event.error]
      /\ saved = [j \in 0..5 |-> saved[j]]
  BY DEF Entered, Placed
<1>2. ASSUME UNCHANGED <<lookup, saved>>, at' # "user" PROVE SavedInputs'
  <2>1. \A j : ArgumentSpec(j)' = ArgumentSpec(j)
    BY <1>2 DEF ArgumentSpec, Descriptor
  <2> QED
    BY <1>2, <2>1 DEF Drawn, SavedInputs
<1>3. ASSUME saved' = Nothing PROVE SavedInputs'
  <2>1. \A j \in 0..5 : saved'[j] = Unset
    BY <1>3 DEF Nothing
  <2> QED
    BY <1>3, <2>1 DEF SavedInputs
<1>4. ASSUME NEW n \in Asked, NEW arguments \in Arguments(n), Enter(n, arguments)
      PROVE  Drawn'
  <2>1. /\ at = "user" /\ at' = "capture" /\ line = NoLine /\ line' = NoLine /\ saved' = saved
        /\ BeginLookup(n) /\ event' = [event EXCEPT !.number = n, !.arguments = arguments]
    BY <1>4 DEF Enter, Entered, Placed
  <2>2. lookup'.number = n
    <3>1. lookup \in Lookups
      BY DEF CatalogInv
    <3> QED BY <2>1, <3>1 DEF BeginLookup, Lookups
  <2>3. event'.arguments = arguments /\ event'.result = event.result /\ event'.error = event.error
    BY <1>1, <2>1
  <2>4. Called'
    BY <2>1, <2>2, <2>3 DEF Drawn, Called
  <2>5. saved' = Nothing
    BY <2>1 DEF Drawn, SavedInputs
  <2>6. LineMade' /\ ShowsOutputs'
    BY <2>1 DEF LineMade, ShowsOutputs, Shows, Lines, NoLine
  <2> QED
    BY <1>3, <2>4, <2>5, <2>6 DEF Drawn
<1>5. CASE Search
  <2>1. /\ lookup.at = "search" /\ UNCHANGED <<mem, event, at, index, saved, line, during>>
        /\ Narrow \/ EndLookup
    BY <1>5 DEF Search, Narrow, EndLookup
  <2>2. at \in {"user", "capture", "dropped"} /\ line = NoLine
    BY <2>1 DEF Entered, Placed
  <2>3. lookup'.number = lookup.number
    <3>1. lookup \in Lookups
      BY DEF CatalogInv
    <3> QED BY <2>1, <3>1 DEF Narrow, EndLookup, Narrowed, Lookups
  <2>4. Called'
    BY <2>1, <2>3 DEF Drawn, Called
  <2>5. saved' = Nothing
    BY <2>1 DEF Drawn, SavedInputs
  <2>6. LineMade' /\ ShowsOutputs'
    BY <2>1, <2>2 DEF LineMade, ShowsOutputs, Shows, Lines, NoLine
  <2> QED
    BY <1>3, <2>4, <2>5, <2>6 DEF Drawn
<1>6. ASSUME UNCHANGED <<lookup, event, line>>, at' # "user", SavedInputs',
             at' \in {"capture", "running"} => at \in {"capture", "running"}, at # "user",
             at \in {"release", "released"} => at' \in {"release", "released"}
      PROVE  Drawn'
  <2>1. EventShown' = EventShown
    BY <1>6 DEF EventShown
  <2>2. LineMade' /\ ShowsOutputs'
    BY <1>6, <2>1, LineStays DEF Drawn, LineMade
  <2>3. Called'
    BY <1>6 DEF Drawn, Called
  <2> QED
    BY <1>6, <2>2, <2>3 DEF Drawn
<1>7. CASE Capture
  <2>1. /\ at = "capture" /\ at' = at /\ lookup.at = "done" /\ Known /\ index < effective_argument_count
        /\ UNCHANGED <<lookup, event, line>>
        /\ \/ saved' = saved
           \/ ~is_output_argument(ArgumentSpec(index).kind) /\ \E x : saved' = [saved EXCEPT ![index] = x]
    BY <1>7 DEF Capture, Capturing
  <2>2. \A j : ArgumentSpec(j)' = ArgumentSpec(j)
    BY <2>1 DEF ArgumentSpec, Descriptor
  <2>3. SavedInputs'
    <3>1. \A j \in 0..5 : saved'[j] = saved[j] \/ ~is_output_argument(ArgumentSpec(j).kind)
      BY <1>1, <2>1
    <3> QED BY <2>1, <2>2, <3>1 DEF Drawn, SavedInputs
  <2> QED
    BY <1>6, <2>1, <2>3
<1>8. CASE CaptureFails \/ Captured \/ DecodeFails \/ Release
  <2>1. /\ at \in {"capture", "running", "exit", "release"}
        /\ at' \in {"running", "dropped", "release", "released"}
        /\ at' = "running" => at = "capture"
        /\ at = "release" => at' = "released"
        /\ UNCHANGED <<lookup, event, line>>
        /\ saved' = saved \/ saved' = Nothing
    BY <1>8 DEF CaptureFails, Capturing, Captured, DecodeFails, Release, sg_decoder_release_event
  <2>2. SavedInputs'
    BY <1>2, <1>3, <2>1
  <2> QED
    BY <1>6, <2>1, <2>2
<1>9. CASE Scribble \/ UNCHANGED vars
  <2>1. UNCHANGED <<lookup, event, at, saved, line>>
    BY <1>9 DEF Scribble, vars
  <2>2. CASE at = "user"
    <3>1. EventShown' = EventShown /\ Called'
      BY <2>1 DEF EventShown, Drawn, Called
    <3>2. LineMade' /\ ShowsOutputs'
      BY <2>1, <2>2, <3>1, LineStays DEF Drawn, LineMade
    <3>3. SavedInputs'
      BY <1>3, <2>1, <2>2 DEF Drawn, SavedInputs
    <3> QED BY <3>1, <3>2, <3>3 DEF Drawn
  <2>3. CASE at # "user"
    BY <1>2, <1>6, <2>1, <2>3
  <2> QED BY <2>2, <2>3
<1>10. CASE Unfinished
  <2>1. /\ at = "running" /\ at' = at /\ UNCHANGED <<lookup, event, saved>>
        /\ line' = [kind |-> "unfinished", args |-> DecodedArguments]
    BY <1>10 DEF Unfinished
  <2>2. event.result = 0 /\ event.error = FALSE
    BY <2>1 DEF Drawn, Called
  <2>3. EventShown' = event
    BY <1>1, <2>1, <2>2 DEF EventShown
  <2>4. line'.args = DecodedArguments /\ line'.kind = "unfinished"
    BY <2>1
  <2>5. LineMade' /\ ShowsOutputs'
    BY <2>1, <2>3, <2>4, LineDrawn
  <2>6. Called'
    BY <2>1 DEF Drawn, Called
  <2> QED
    BY <1>2, <2>1, <2>5, <2>6 DEF Drawn
<1>11. CASE Decode
  <2>1. /\ at = "exit" /\ at' = "release" /\ UNCHANGED <<lookup, event, saved>>
        /\ line' = IF line.kind = "unfinished" THEN [NoLine EXCEPT !.kind = "resumed"]
                   ELSE [kind |-> "whole", args |-> DecodedArguments]
    BY <1>11 DEF Decode
  <2>2. Called' /\ SavedInputs'
    BY <1>2, <2>1 DEF Drawn, Called
  <2>3. CASE line.kind = "unfinished"
    <3>1. line'.args = << >> /\ line'.kind = "resumed"
      BY <2>1, <2>3 DEF NoLine
    <3>2. LineMade' /\ ShowsOutputs'
      BY <3>1 DEF LineMade, ShowsOutputs, Shows, Lines
    <3> QED BY <2>2, <3>2 DEF Drawn
  <2>4. CASE line.kind # "unfinished"
    <3>1. line'.args = DecodedArguments /\ line'.kind = "whole"
      BY <2>1, <2>4
    <3>2. EventShown' = event
      BY <1>1, <2>1, <3>1 DEF EventShown
    <3>3. LineMade' /\ ShowsOutputs'
      BY <2>1, <3>1, <3>2, LineDrawn
    <3> QED BY <2>2, <3>3 DEF Drawn
  <2> QED BY <2>3, <2>4
<1>12. ASSUME NEW r \in Results, NEW error \in BOOLEAN, Return(r, error)
       PROVE  Drawn'
  <2>1. /\ at = "running" /\ at' = "exit" /\ UNCHANGED <<lookup, saved, line>>
        /\ event' = [event EXCEPT !.result = IF error THEN -r ELSE r, !.error = error]
    BY <1>12 DEF Return
  <2>2. event' = [number |-> event.number, arguments |-> event.arguments,
                  result |-> IF error THEN -r ELSE r, error |-> error]
    <3> DEFINE x == IF error THEN -r ELSE r
               p == event.number
               a == event.arguments
               q == event.result
               z == event.error
    <3>1. event' = [event EXCEPT !.result = x, !.error = error]
      BY <2>1
    <3>2. event = [number |-> p, arguments |-> a, result |-> q, error |-> z]
      BY <1>1
    <3> HIDE DEF x, p, a, q, z
    <3>3. event' = [number |-> p, arguments |-> a, result |-> x, error |-> error]
      BY <3>1, <3>2
    <3> QED BY <3>3 DEF x, p, a
  <2>3. r \in Nat
    BY DecoderAssumption
  <2>4. Called'
    <3>1. /\ event'.arguments = event.arguments /\ event'.error = error
          /\ event'.result = IF error THEN -r ELSE r
      BY <2>2
    <3>2. event'.result \in Int
      BY <2>3, <3>1
    <3> QED BY <2>1, <3>1, <3>2 DEF Drawn, Called
  <2>5. line.kind # "whole"
    BY <2>1 DEF Drawn, LineMade
  <2>6. EventShown' = EventShown \/ line.args = << >>
    <3>1. CASE line.kind = "unfinished"
      <4>1. event'.number = event.number /\ event'.arguments = event.arguments
        BY <2>2
      <4> QED BY <2>1, <3>1, <4>1 DEF EventShown
    <3>2. CASE line.kind # "unfinished"
      BY <2>5, <3>2 DEF Drawn, LineMade
    <3> QED BY <3>1, <3>2
  <2>7. LineMade' /\ ShowsOutputs'
    BY <2>1, <2>5, <2>6, LineStays
  <2> QED
    BY <1>2, <2>1, <2>4, <2>7 DEF Drawn
<1>13. FALSE \in BOOLEAN /\ TRUE \in BOOLEAN
  OBVIOUS
<1> QED
  BY <1>4, <1>5, <1>7, <1>8, <1>9, <1>10, <1>11, <1>12, <1>13 DEF Next, Over

(* What is known of an argument that is shown. *)
LEMMA ShownArgument ==
  ASSUME CatalogInv, Entered, Drawn, NEW kinds, NEW i \in Shows(kinds)
  PROVE  /\ ArgumentSpec(i).kind \in kinds
         /\ ArgumentSpec(i).kind \in Kept =>
              \E m \in during : Shown(i) = render_argument(m, event, ArgumentSpec(i), i)
         /\ ArgumentSpec(i).kind \in Outputs =>
              \E m : Shown(i) = render_argument(m, EventShown, ArgumentSpec(i), i)
         /\ ArgumentSpec(i).kind \in {"STRING", "ARGV"} => event.arguments[i] \in Nat
         /\ ArgumentSpec(i).kind \in Sized => event.arguments[ArgumentSpec(i).auxiliary] \in Nat
<1>1. /\ i \in 0..(Len(line.args) - 1) /\ line.args # << >> /\ Known
      /\ ArgumentSpec(i).kind \in kinds
  BY DEF Shows, Lines
<1>2. at # "user" /\ lookup.at = "done"
  BY <1>1 DEF Entered, Placed, NoLine
<1>3. ArgumentSpec(i).kind \in Kept => AsEntered(Shown(i), i)
  BY <1>1 DEF Entered, ShowsEntered, Shows, Lines
<1>4. ArgumentSpec(i).kind \in Outputs => AsShown(i)
  BY <1>1 DEF Drawn, ShowsOutputs, Shows, Lines
<1>5. Len(line.args) \in Nat /\ Len(line.args) <= Descriptor.arity
  BY <1>1 DEF Drawn, LineMade, Lines
<1>6. Descriptor.arity \in Nat
  <2>1. lookup.found \in 0..(Count - 1)
    BY <1>1, <1>2 DEF Known, CatalogInv, Answered
  <2>2. Descriptor.arity \in 0..6
    BY <2>1, DecoderAssumption DEF Descriptor
  <2> QED BY <2>2
<1>7. i \in 0..(Descriptor.arity - 1)
  BY <1>1, <1>5, <1>6
<1>8. /\ ArgumentSpec(i).kind \in {"STRING", "ARGV"} => event.arguments[i] \in Nat
      /\ ArgumentSpec(i).kind \in Sized => event.arguments[ArgumentSpec(i).auxiliary] \in Nat
  BY <1>1, <1>2, <1>7, Typed
<1> QED
  BY <1>1, <1>3, <1>4, <1>8 DEF AsEntered, AsShown

LEMMA FlagsFollow ==
  ASSUME CatalogInv, Entered, Drawn
  PROVE  FlagsExact
<1>1. ASSUME NEW i \in Shows(FlagKinds) PROVE Exact(Shown(i), event.arguments[i])
  <2>1. ArgumentSpec(i).kind \in FlagKinds
    BY ShownArgument
  <2>2. PICK m : Shown(i) = render_argument(m, event, ArgumentSpec(i), i)
    BY <2>1, ShownArgument DEF Kept
  <2>3. Shown(i) = append_flags(event.arguments[i])
    BY <2>1, <2>2 DEF render_argument, FlagKinds
  <2> QED BY <2>3, FlagWord
<1>2. ASSUME NEW i \in Shows({"OPEN_FLAGS"})
      PROVE  Exact(Shown(i).flags, event.arguments[i] \ AccessMode)
  <2>1. ArgumentSpec(i).kind = "OPEN_FLAGS"
    BY ShownArgument
  <2>2. PICK m : Shown(i) = render_argument(m, event, ArgumentSpec(i), i)
    BY <2>1, ShownArgument DEF Kept
  <2>3. Shown(i) = append_open_flags(event.arguments[i])
    BY <2>1, <2>2 DEF render_argument, FlagKinds
  <2>4. Shown(i).flags = append_flags(event.arguments[i] \ AccessMode)
    BY <2>3 DEF append_open_flags
  <2> QED BY <2>4, FlagWord
<1> QED
  BY <1>1, <1>2 DEF FlagsExact

(* The bytes that a BUFFER_OUT argument is rendered from. *)
LEMMA OutputSize ==
  ASSUME Drawn, NEW s, event.arguments[s] \in Nat
  PROVE  /\ EventShown.arguments = event.arguments /\ EventShown.result \in Int
         /\ EventShown.result > 0 => /\ EventShown.result \in Nat
                                     /\ Min({EventShown.result, event.arguments[s]}) \in Nat
<1>1. EventShown.arguments = event.arguments /\ EventShown.result \in Int
  BY DEF EventShown, Drawn, Called
<1> HIDE DEF EventShown
<1>2. EventShown.result > 0 => EventShown.result \in Nat
  BY <1>1
<1>3. EventShown.result > 0 => Min({EventShown.result, event.arguments[s]}) \in Nat
  <2> SUFFICES ASSUME EventShown.result > 0
               PROVE  Min({EventShown.result, event.arguments[s]}) \in Nat
    OBVIOUS
  <2> DEFINE a == EventShown.result
             b == event.arguments[s]
  <2>1. a \in Nat /\ b \in Nat
    BY <1>2
  <2> HIDE DEF a, b
  <2>2. Min({a, b}) \in Nat
    BY <2>1, MinOfTwo
  <2> QED BY <2>2 DEF a, b
<1> QED
  BY <1>1, <1>2, <1>3

LEMMA EmptyFine ==
  /\ Fine(Quoted(<< >>, FALSE)) /\ ~Quoted(<< >>, FALSE).more
  /\ BytesShown(Quoted(<< >>, FALSE).text) = 0
<1>1. Len(<< >>) \in Nat /\ Len(<< >>) = 0
  OBVIOUS
<1>2. /\ Delimited(append_escaped(<< >>)) /\ BytesShown(append_escaped(<< >>)) = Len(<< >>)
      /\ Delimited(append_json_string(append_escaped(<< >>)))
  BY <1>1, EscapedQuoted
<1>3. Quoted(<< >>, FALSE).text = append_escaped(<< >>)
  BY DEF Quoted
<1>4. ~Quoted(<< >>, FALSE).more
  BY DEF Quoted
<1> QED
  BY <1>1, <1>2, <1>3, <1>4 DEF Fine

LEMMA QuotesFollow ==
  ASSUME CatalogInv, Entered, Drawn
  PROVE  QuotesDelimit
<1> DEFINE kinds == {"STRING", "BUFFER_IN", "BUFFER_OUT", "STRING_OUT", "SOCKADDR_IN"}
<1> SUFFICES ASSUME NEW i \in Shows(kinds) PROVE Fine(Shown(i))
  BY DEF QuotesDelimit, Fine
<1> DEFINE spec == ArgumentSpec(i)
           v == event.arguments[i]
<1>0. TRUE \in BOOLEAN /\ FALSE \in BOOLEAN
  OBVIOUS
<1>1. spec.kind \in kinds
  BY ShownArgument
<1>2. CASE spec.kind = "STRING"
  <2>1. PICK m : Shown(i) = render_argument(m, event, spec, i)
    BY <1>2, ShownArgument DEF Kept, Inputs
  <2>2. Shown(i) = append_string(m, v)
    BY <1>2, <2>1 DEF render_argument, FlagKinds
  <2> QED BY <2>2, StringShape
<1>3. CASE spec.kind = "BUFFER_IN"
  <2>1. PICK m : Shown(i) = render_argument(m, event, spec, i)
    BY <1>3, ShownArgument DEF Kept, Inputs
  <2>2. Shown(i) = append_remote_bytes(m, v, event.arguments[spec.auxiliary], FALSE)
    BY <1>3, <2>1 DEF render_argument, FlagKinds
  <2>3. event.arguments[spec.auxiliary] \in Nat
    BY <1>3, ShownArgument DEF Sized
  <2> QED BY <1>0, <2>2, <2>3, RemoteShape
<1>4. CASE spec.kind = "SOCKADDR_IN"
  <2>1. PICK m : Shown(i) = render_argument(m, event, spec, i)
    BY <1>4, ShownArgument DEF Kept, Inputs
  <2>2. Shown(i) = append_sockaddr(m, v, event.arguments[spec.auxiliary])
    BY <1>4, <2>1 DEF render_argument, FlagKinds
  <2>3. event.arguments[spec.auxiliary] \in Nat
    BY <1>4, ShownArgument DEF Sized
  <2> QED BY <2>2, <2>3, SockaddrShape
<1>5. ASSUME NEW x, x = Null \/ x = append_pointer(v) PROVE Fine(x)
  BY <1>5 DEF Fine, Null, append_pointer
<1>6. CASE spec.kind = "STRING_OUT"
  <2> DEFINE e == EventShown
             size == event.arguments[spec.auxiliary]
  <2>1. PICK m : Shown(i) = render_argument(m, e, spec, i)
    BY <1>6, ShownArgument DEF Outputs
  <2>2. size \in Nat
    BY <1>6, ShownArgument DEF Sized
  <2>3. e.arguments = event.arguments /\ e.result \in Int /\ (e.result > 0 => e.result \in Nat)
    BY <2>2, OutputSize
  <2> HIDE DEF e
  <2>4. Shown(i) = IF e.error THEN append_pointer(e.arguments[i])
                   ELSE append_remote_bytes(m, e.arguments[i],
                          IF e.result > 0 THEN e.result ELSE e.arguments[spec.auxiliary], TRUE)
    BY <1>6, <2>1 DEF render_argument, FlagKinds
  <2>5. (IF e.result > 0 THEN e.result ELSE e.arguments[spec.auxiliary]) \in Nat
    BY <2>2, <2>3
  <2> DEFINE n == IF e.result > 0 THEN e.result ELSE e.arguments[spec.auxiliary]
  <2> HIDE DEF n
  <2>6. n \in Nat
    BY <2>5 DEF n
  <2>7. Fine(append_remote_bytes(m, e.arguments[i], n, TRUE))
    BY <1>0, <2>6, RemoteShape
  <2> QED BY <1>5, <2>3, <2>4, <2>7 DEF n
<1>7. CASE spec.kind = "BUFFER_OUT"
  <2> DEFINE e == EventShown
             size == event.arguments[spec.auxiliary]
             n == Min({e.result, size})
  <2>1. PICK m : Shown(i) = render_argument(m, e, spec, i)
    BY <1>7, ShownArgument DEF Outputs
  <2>2. size \in Nat
    BY <1>7, ShownArgument DEF Sized
  <2>3. e.arguments = event.arguments /\ e.result \in Int /\ (e.result > 0 => n \in Nat)
    BY <2>2, OutputSize
  <2> HIDE DEF e
  <2>4. Shown(i) = IF e.error \/ e.result < 0 THEN append_pointer(v)
                   ELSE IF e.result = 0 THEN Quoted(<< >>, FALSE)
                   ELSE append_remote_bytes(m, v, n, FALSE)
    BY <1>7, <2>1, <2>3 DEF render_argument, FlagKinds, StoredBytes
  <2> HIDE DEF n
  <2>5. Fine(Quoted(<< >>, FALSE))
    BY EmptyFine
  <2>6. e.result > 0 => Fine(append_remote_bytes(m, v, n, FALSE))
    BY <1>0, <2>3, RemoteShape
  <2>7. CASE e.error \/ e.result < 0
    <3>1. Shown(i) = append_pointer(v)
      BY <2>4, <2>7
    <3> QED BY <1>5, <3>1
  <2>8. CASE ~(e.error \/ e.result < 0) /\ e.result = 0
    <3>1. Shown(i) = Quoted(<< >>, FALSE)
      BY <2>4, <2>8
    <3> QED BY <2>5, <3>1
  <2>9. CASE ~(e.error \/ e.result < 0) /\ e.result # 0
    <3>1. Shown(i) = append_remote_bytes(m, v, n, FALSE) /\ e.result > 0
      BY <2>3, <2>4, <2>9
    <3> QED BY <2>6, <3>1
  <2> QED BY <2>7, <2>8, <2>9
<1> QED
  BY <1>1, <1>2, <1>3, <1>4, <1>6, <1>7

LEMMA ExtentFollows ==
  ASSUME CatalogInv, Entered, Drawn
  PROVE  ExtentTrue
<1>0. StringLimit \in Nat /\ FALSE \in BOOLEAN
  BY DecoderAssumption
<1>1. ASSUME NEW i \in Shows({"BUFFER_IN", "BUFFER_OUT"}), Shown(i).form = "quoted"
      PROVE  LET n == BytesShown(Shown(i).text)
             IN  n <= StringLimit /\ IF Shown(i).more THEN n < Extent(i) ELSE n = Extent(i)
  <2> DEFINE spec == ArgumentSpec(i)
             v == event.arguments[i]
             size == event.arguments[spec.auxiliary]
  <2>1. spec.kind \in {"BUFFER_IN", "BUFFER_OUT"}
    BY ShownArgument
  <2>2. size \in Nat
    BY <2>1, ShownArgument DEF Sized
  <2>3. CASE spec.kind = "BUFFER_IN"
    <3>1. PICK m : Shown(i) = render_argument(m, event, spec, i)
      BY <2>3, ShownArgument DEF Kept, Inputs
    <3>2. Shown(i) = append_remote_bytes(m, v, size, FALSE)
      BY <2>3, <3>1 DEF render_argument, FlagKinds
    <3>3. Extent(i) = size
      BY <2>3 DEF Extent
    <3> HIDE DEF size
    <3> QED BY <1>0, <1>1, <2>2, <3>2, <3>3, RemoteShape, ZenonT(40)
  <2>4. CASE spec.kind = "BUFFER_OUT"
    <3> DEFINE e == EventShown
               n == Min({e.result, size})
    <3>1. PICK m : Shown(i) = render_argument(m, e, spec, i)
      BY <2>4, ShownArgument DEF Outputs
    <3>2. e.arguments = event.arguments /\ e.result \in Int /\ (e.result > 0 => n \in Nat)
      BY <2>2, OutputSize
    <3>3. line.kind = "unfinished" => e.result = 0
      BY DEF EventShown
    <3>4. line.kind # "unfinished" => e.result = event.result /\ at # "running"
      <4>1. line.args # << >>
        BY DEF Shows, Lines
      <4> QED BY <4>1 DEF EventShown, Drawn, LineMade
    <3> HIDE DEF e
    <3>5. Shown(i) = IF e.error \/ e.result < 0 THEN append_pointer(v)
                     ELSE IF e.result = 0 THEN Quoted(<< >>, FALSE)
                     ELSE append_remote_bytes(m, v, n, FALSE)
      BY <2>4, <3>1, <3>2 DEF render_argument, FlagKinds, StoredBytes
    <3>6. Extent(i) = IF at = "running" \/ line.kind = "unfinished" THEN 0
                      ELSE Min({event.result, size})
      BY <2>4 DEF Extent
    <3>7. CASE e.error \/ e.result < 0
      <4>1. Shown(i) = append_pointer(v)
        BY <3>5, <3>7
      <4> QED BY <1>1, <4>1 DEF append_pointer, Null
    <3>8. CASE ~(e.error \/ e.result < 0) /\ e.result = 0
      <4>1. Shown(i) = Quoted(<< >>, FALSE)
        BY <3>5, <3>8
      <4>2. ~Shown(i).more /\ BytesShown(Shown(i).text) = 0
        BY <4>1, EmptyFine
      <4>3. 0 \in Nat
        OBVIOUS
      <4>4. PICK z \in Nat : z = 0
        BY <4>3
      <4>5. Min({z, size}) = 0
        <5> HIDE DEF size
        <5>1. Min({z, size}) = IF z <= size THEN z ELSE size
          BY <2>2, MinOfTwo
        <5> QED BY <2>2, <4>4, <5>1
      <4>6. Extent(i) = 0
        <5>1. CASE line.kind = "unfinished"
          BY <3>6, <5>1
        <5>2. CASE line.kind # "unfinished"
          <6>1. event.result = z
            BY <3>4, <3>8, <4>4, <5>2
          <6> QED BY <3>4, <3>6, <4>5, <5>2, <6>1
        <5> QED BY <5>1, <5>2
      <4> QED BY <1>0, <4>2, <4>6
    <3>9. CASE ~(e.error \/ e.result < 0) /\ e.result # 0
      <4>1. Shown(i) = append_remote_bytes(m, v, n, FALSE) /\ e.result > 0
        BY <3>2, <3>5, <3>9
      <4>2. n \in Nat
        BY <3>2, <4>1
      <4>3. Extent(i) = n
        BY <3>3, <3>4, <3>6, <3>9
      <4> HIDE DEF n
      <4> QED BY <1>0, <1>1, <4>1, <4>2, <4>3, RemoteShape, ZenonT(40)
    <3> QED BY <3>7, <3>8, <3>9
  <2> QED BY <2>1, <2>3, <2>4
<1>2. ASSUME NEW i \in Shows({"STRING", "ARGV"})
      PROVE  LET r == Shown(i)
                 Ends(n) == \E m \in during : Complete(m, event.arguments[i], n)
             IN  /\ r.form = "quoted" => /\ BytesShown(r.text) <= StringLimit
                                         /\ r.more \/ Ends(BytesShown(r.text))
                 /\ r.form = "argv" => /\ Len(r.items) <= MaxArgv
                                       /\ r.ends = "]" => Ends(Len(r.items))
  <2> DEFINE spec == ArgumentSpec(i)
             v == event.arguments[i]
  <2>1. spec.kind \in {"STRING", "ARGV"} /\ v \in Nat
    BY ShownArgument
  <2>2. PICK m \in during : Shown(i) = render_argument(m, event, spec, i)
    BY <2>1, ShownArgument DEF Kept, Inputs
  <2>3. CASE spec.kind = "STRING"
    <3>1. Shown(i) = append_string(m, v)
      BY <2>2, <2>3 DEF render_argument, FlagKinds
    <3>2. Shown(i).form # "argv"
      <4>1. \A d, more : Quoted(d, more).form # "argv"
        BY DEF Quoted
      <4>2. append_pointer(v).form # "argv" /\ Null.form # "argv"
        BY DEF append_pointer, Null
      <4>3. \A r : append_remote_bytes(m, v, r, TRUE).form # "argv"
        BY <4>1, <4>2 DEF append_remote_bytes
      <4> QED BY <3>1, <4>3 DEF append_string
    <3> HIDE DEF v
    <3> QED BY <2>1, <3>1, <3>2, StringShape DEF v
  <2>4. CASE spec.kind = "ARGV"
    <3>1. Shown(i) = append_argv(m, v)
      BY <2>2, <2>4 DEF render_argument, FlagKinds
    <3> HIDE DEF v
    <3> QED BY <2>1, <3>1, ArgvShape DEF v
  <2> QED BY <2>1, <2>3, <2>4
<1> QED
  BY <1>1, <1>2 DEF ExtentTrue

DecoderInv == CatalogInv /\ Entered /\ Drawn

LEMMA AlwaysDrawn == Spec => []DecoderInv
<1>1. Init => DecoderInv
  BY EnteredInit, DrawnInit DEF Init, CatalogInit, CatalogInv, Lookups, Missing, DecoderInv
<1>2. DecoderInv /\ [Next]_vars => DecoderInv'
  BY DecoderSearches, SearchKeeps, EnteredNext, DrawnNext DEF DecoderInv
<1> QED
  BY <1>1, <1>2, PTL DEF Spec

(* Whatever bytes the tracee's memory holds, a quoted argument ends at its *)
(* closing quote, also when the line is quoted again for NDJSON            *)
(* (append_escaped, append_json_string).                                   *)
THEOREM QuotesFound == Spec => []QuotesDelimit
BY AlwaysDrawn, QuotesFollow, PTL DEF DecoderInv

(* Whatever the sizes, the results and -s: what is shown of a buffer is    *)
(* all that the call stored or "..." follows, and a string or a vector     *)
(* without "..." ended there (append_remote_bytes, append_argv).           *)
THEOREM ExtentShown == Spec => []ExtentTrue
BY AlwaysDrawn, ExtentFollows, PTL DEF DecoderInv

(* Whatever the table of names, with bits in several of them or in none:   *)
(* the names and the rest shown stand for every bit, once (append_flags).  *)
THEOREM FlagsToTheBit == Spec => []FlagsExact
BY AlwaysDrawn, FlagsFollow, PTL DEF DecoderInv
=============================================================================
