-------------------------------- MODULE Stats --------------------------------
(***************************************************************************)
(* The syscall statistics of -c (src/src/stats.c): a row per syscall       *)
(* number and totals, in unsigned 64-bit counters that are checked before  *)
(* they are added to.                                                      *)
(***************************************************************************)
EXTENDS Integers, Sequences, FiniteSets

CONSTANTS Numbers,    \* syscall numbers that occur
          NameRank,   \* catalogued number -> the place of its name in strcmp order
          UINT64_MAX, \* scaled down
          Second,     \* nanoseconds in a second, scaled down
          Clock,      \* values of the clock, as <<tv_sec, tv_nsec>>
          MaxRows     \* rows there is memory for

(* elapsed_nanoseconds refuses a second too few: the last conjunct says    *)
(* that no call takes UINT64_MAX ns, 584 years, to the second.             *)
ASSUME StatsAssumption ==
  /\ Numbers \subseteq Int /\ DOMAIN NameRank \subseteq Numbers
  /\ UINT64_MAX \in Nat /\ Second \in Nat \ {0} /\ MaxRows \in Nat
  /\ \A c \in Clock : c[1] \in Int /\ c[2] \in 0..Second-1
  /\ \A n \in DOMAIN NameRank : NameRank[n] \in Int
  /\ \A c, d \in Clock :
       LET ns == (d[1] - c[1]) * Second + d[2] - c[2]
       IN  ns <= UINT64_MAX \/ ns >= (UINT64_MAX \div Second + 1) * Second

VARIABLES rows,    \* stats->rows, in the order of add_row
          total,   \* total_calls, total_errors, total_nanoseconds
          ok,      \* what the last sg_stats_record returned
          truth    \* history: the calls recorded, and the time they took

vars == <<rows, total, ok, truth>>

Event == [number : Numbers, error : BOOLEAN, completed : BOOLEAN,
          entered : Clock, exited : Clock]

Zero(n) == [number |-> n, calls |-> 0, errors |-> 0, nanoseconds |-> 0]
Total0  == [calls |-> 0, errors |-> 0, nanoseconds |-> 0]

Init == rows = << >> /\ total = Total0 /\ ok = TRUE /\ truth = Total0

-----------------------------------------------------------------------------
(* elapsed_nanoseconds: Refused is its return value false.                 *)
Refused == -1

(* A bug: no borrow from the seconds. *)
ElapsedNoBorrow(e) ==
  LET s == e.exited[1] - e.entered[1]
      n == e.exited[2] - e.entered[2]
  IN  IF s < 0 \/ (s = 0 /\ n < 0) THEN 0
      ELSE IF s > UINT64_MAX \div Second THEN Refused
      ELSE (s * Second + (IF n < 0 THEN n + Second ELSE n)) % (UINT64_MAX + 1)

elapsed_nanoseconds(e) ==
  LET s  == e.exited[1] - e.entered[1]
      n  == e.exited[2] - e.entered[2]
      s1 == IF n < 0 THEN s - 1 ELSE s
      n1 == IF n < 0 THEN n + Second ELSE n
  IN  IF s < 0 \/ (s = 0 /\ n < 0) THEN 0
      ELSE IF s1 > UINT64_MAX \div Second THEN Refused
      ELSE (s1 * Second + n1) % (UINT64_MAX + 1)

(* A counter record x has room for one more call. *)
HasRoom(x, ns, error) == /\ x.calls # UINT64_MAX
                         /\ x.nanoseconds <= UINT64_MAX - ns
                         /\ error => x.errors # UINT64_MAX

Add(x, ns, error) == [x EXCEPT !.calls = (@ + 1) % (UINT64_MAX + 1),
                               !.errors = (@ + IF error THEN 1 ELSE 0) % (UINT64_MAX + 1),
                               !.nanoseconds = (@ + ns) % (UINT64_MAX + 1)]

find_row(n) == {i \in 1..Len(rows) : rows[i].number = n}

(* The row of number n, and rows with it; add_row if there is none. *)
RowOf(n)    == IF find_row(n) = {} THEN Len(rows) + 1 ELSE CHOOSE i \in find_row(n) : TRUE
WithRow(n)  == IF find_row(n) = {} THEN Append(rows, Zero(n)) ELSE rows

(* sg_stats_record; add_row fails when there is no memory. *)
Record(e) ==
  LET ns == elapsed_nanoseconds(e)
      i  == RowOf(e.number)
      r  == WithRow(e.number)
      checked == e.completed /\ ns # Refused /\ HasRoom(total, ns, e.error)
      fits    == Len(r) <= MaxRows
  IN  /\ ok' = (checked /\ fits /\ HasRoom(r[i], ns, e.error))
      /\ rows' = IF ok' THEN [r EXCEPT ![i] = Add(@, ns, e.error)]
                 ELSE IF checked /\ fits THEN r ELSE rows
      /\ total' = IF ok' THEN Add(total, ns, e.error) ELSE total
      /\ truth' = IF ~ok' THEN truth
                  ELSE LET d == (e.exited[1] - e.entered[1]) * Second
                                + e.exited[2] - e.entered[2]
                       IN  [calls |-> truth.calls + 1,
                            errors |-> truth.errors + IF e.error THEN 1 ELSE 0,
                            nanoseconds |-> truth.nanoseconds + IF d < 0 THEN 0 ELSE d]

Next == \E e \in Event : Record(e)

Spec == Init /\ [][Next]_vars

-----------------------------------------------------------------------------
(* A bug: rows that tie on time and name are left as they come. *)
compare_without_number(x, y) ==
  IF x.nanoseconds # y.nanoseconds THEN (IF x.nanoseconds > y.nanoseconds THEN -1 ELSE 1)
  ELSE IF x.number \in DOMAIN NameRank /\ y.number \in DOMAIN NameRank
    THEN NameRank[x.number] - NameRank[y.number]
  ELSE IF x.number \in DOMAIN NameRank THEN -1
  ELSE IF y.number \in DOMAIN NameRank THEN 1
  ELSE 0

(* compare_rows: longest first, then by name, the nameless last by number. *)
compare_rows(x, y) ==
  LET Named(r) == r.number \in DOMAIN NameRank
      ByNumber == IF x.number = y.number THEN 0 ELSE IF x.number < y.number THEN -1 ELSE 1
  IN  IF x.nanoseconds # y.nanoseconds
        THEN (IF x.nanoseconds > y.nanoseconds THEN -1 ELSE 1)
      ELSE IF Named(x) /\ Named(y) /\ NameRank[x.number] # NameRank[y.number]
        THEN NameRank[x.number] - NameRank[y.number]
      ELSE IF Named(x) /\ ~Named(y) THEN -1
      ELSE IF Named(y) /\ ~Named(x) THEN 1
      ELSE ByNumber

(* The sum of a column, a sequence of counters. *)
Sum(column) ==
  LET upto[n \in 0..Len(column)] == IF n = 0 THEN 0 ELSE upto[n - 1] + column[n]
  IN  upto[Len(column)]

-----------------------------------------------------------------------------
(* total_calls, total_errors and total_nanoseconds are what was recorded. *)
TotalsExact == total = truth

(* Each total is the sum of its column. *)
SumsUp ==
  /\ total.calls = Sum([i \in 1..Len(rows) |-> rows[i].calls])
  /\ total.errors = Sum([i \in 1..Len(rows) |-> rows[i].errors])
  /\ total.nanoseconds = Sum([i \in 1..Len(rows) |-> rows[i].nanoseconds])

(* A syscall has one row, with at least one call. *)
RowsDistinct ==
  \A i, j \in 1..Len(rows) : /\ rows[i].calls > 0
                             /\ rows[i].number = rows[j].number => i = j

(* The totals are what was recorded, to the nanosecond, and the sum of the *)
(* rows: no counter wraps, no call is counted in one place only.  A        *)
(* syscall has one row, and a row has at least one call: the checks of the *)
(* totals come before add_row, and no check after it can fail.             *)
TotalsTrue == TotalsExact /\ SumsUp /\ RowsDistinct

(* "Rows sort deterministically": compare_rows puts any two rows in one    *)
(* order, and any three, so qsort, which is not stable, can only produce   *)
(* one result.                                                             *)
SortDeterministic ==
  \A i, j, k \in 1..Len(rows) :
    /\ i # j => compare_rows(rows[i], rows[j]) # 0
    /\ compare_rows(rows[i], rows[j]) < 0 => compare_rows(rows[j], rows[i]) > 0
    /\ compare_rows(rows[i], rows[j]) < 0 /\ compare_rows(rows[j], rows[k]) < 0 =>
         compare_rows(rows[i], rows[k]) < 0
=============================================================================
