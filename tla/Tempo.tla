-------------------------------- MODULE Tempo --------------------------------
(***************************************************************************)
(* The tempo profile of a project, from its [[tempo.prs]] rows: a time-    *)
(* decayed average for each complexity and one number, the maturity, which *)
(* cadence sync puts into the README.  Ages are in half-lives of 15 days,  *)
(* weights in quarters and averages are fractions.                         *)
(***************************************************************************)
EXTENDS Integers, Sequences

CONSTANTS
  TempoPrs,  \* rows [complexity, age, duration, merged]; age and duration Integers
  MaxRows    \* bound on the rows

VARIABLE rows  \* the rows, as they were recorded

WindowAge == 2
Complexities == <<"XS", "S", "M", "L">>
Buckets == 1..4
Weights == <<4, 2, 1>>
Weight(age) == Weights[age + 1]

ASSUME TempoAssumption ==
  TempoPrs \subseteq [complexity : {Complexities[b] : b \in Buckets},
                      age : Int, duration : Int, merged : BOOLEAN]

\* Not merged, not closed yet, outside the window, or open for no time at all.
Counted(pr) == pr.merged /\ pr.age >= 0 /\ pr.age <= WindowAge /\ pr.duration > 0

\* Accumulator::add.
Add(acc, pr) ==
  [weight |-> acc.weight + Weight(pr.age),
   duration |-> acc.duration + Weight(pr.age) * pr.duration,
   count |-> acc.count + 1]

\* The Accumulator of a bucket, after each row.
Accumulated(b) ==
  LET acc[k \in 0..Len(rows)] ==
        IF k = 0 THEN [weight |-> 0, duration |-> 0, count |-> 0]
        ELSE LET last == acc[k - 1]
             IN  IF Counted(rows[k]) /\ rows[k].complexity = Complexities[b]
                 THEN Add(last, rows[k]) ELSE last
  IN  acc[Len(rows)]

Avg(b) == <<Accumulated(b).duration, Accumulated(b).weight>>
Below(x, y) == x[1] * y[2] < y[1] * x[2]

Filled == {b \in Buckets : Accumulated(b).weight > 0}

CountOf(S) ==
  LET count[b \in 0..4] ==
        IF b = 0 THEN 0 ELSE count[b - 1] + (IF b \in S THEN Accumulated(b).count ELSE 0)
  IN  count[4]

\* Mutant: the buckets stay in the order of their sizes.
BeforeUnsorted(b, c) == b < c

\* The buckets sorted by their averages; the sort is stable.
Before(b, c) == Below(Avg(b), Avg(c)) \/ (~ Below(Avg(c), Avg(b)) /\ b < c)

UpTo(b) == CountOf({c \in Filled : c = b \/ Before(c, b)})
Reached == {b \in Filled : 2 * UpTo(b) >= CountOf(Filled)}

\* weighted_median: the first bucket at which the count reaches half of the
\* total, as it does at the last one; <<>> without data.
Maturity ==
  IF Filled = {} THEN <<>>
  ELSE Avg(CHOOSE b \in Reached : \A c \in Reached : ~ Before(c, b))

TempoInit == rows = <<>>

\* A pass records a pull request; time makes every row older at once.
Record(pr) == Len(rows) < MaxRows /\ rows' = Append(rows, pr)

TempoNext == \E pr \in TempoPrs : Record(pr)

TempoSpec == TempoInit /\ [][TempoNext]_rows

-----------------------------------------------------------------------------
(* Properties.                                                             *)

\* The maturity is the median of the pull requests that count, each with the
\* average of its bucket: at most half of them are below it and at most half above.
MaturityIsMedian ==
  Filled # {} =>
    /\ \E b \in Filled : Maturity = Avg(b)
    /\ 2 * CountOf({b \in Filled : Below(Avg(b), Maturity)}) <= CountOf(Filled)
    /\ 2 * CountOf({b \in Filled : Below(Maturity, Avg(b))}) <= CountOf(Filled)
=============================================================================
