------------------------------ MODULE IdleScan -------------------------------
(***************************************************************************)
(* The pure helpers of the idle pass and of dispatch: which agent panes    *)
(* are stale, which lines llvm-cov leaves uncovered, which files a pattern *)
(* excludes.  The state is the input that is being looked at, and grows.   *)
(* A session name is the digits after "agent"; a path is its segments.     *)
(***************************************************************************)
EXTENDS Naturals, Sequences, FiniteSets, FiniteSetsExt, SequencesExt

CONSTANTS
  Digits,      \* digits of an index
  MaxDigits,   \* bound on the length of an index
  MaxPanes,    \* bound on the panes
  MaxLine,     \* bound on the lines of a file
  MaxSegments, \* bound on the segments of a report
  TopRanges,   \* ranges that a finding lists: 5
  Parts,       \* segments of paths
  MaxParts     \* bound on the segments of a path and of a pattern

VARIABLE scan  \* [kind |-> "panes" | "coverage" | "glob", ...]

Indices == {d \in SeqOf(Digits, MaxDigits) : d # <<>> /\ d[1] # 0}
IndexOf(name) ==
  LET value[k \in 0..Len(name)] == IF k = 0 THEN 0 ELSE 10 * value[k - 1] + name[k]
  IN  value[Len(name)]

ASSUME ScanAssumption == Digits \subseteq 0..9 /\ {MaxDigits, MaxLine, TopRanges} \subseteq Nat

-----------------------------------------------------------------------------
(* Stale panes.                                                            *)

\* Strings are compared character by character.
Higher(a, b) ==
  \/ \E k \in DOMAIN a \cap DOMAIN b : a[k] > b[k] /\ \A i \in 1..k - 1 : a[i] = b[i]
  \/ Len(a) > Len(b) /\ \A i \in DOMAIN b : a[i] = b[i]

\* Mutant: ascending.
StaleAgentPanesLow(names, inFlight) ==
  {a \in names : Cardinality({b \in names : Higher(b, a)}) >= inFlight}

StaleAgentPanes(names, inFlight) ==
  {a \in names : Cardinality({b \in names : Higher(a, b)}) >= inFlight}

-----------------------------------------------------------------------------
(* Uncovered ranges.  A segment is [line, bare]: it starts there, and what *)
(* follows has a count of 0, or not.                                       *)

\* Mutant: the line of the next segment is taken for uncovered, too.
StepLate(acc, seg) ==
  [ranges |-> IF ~ seg.bare /\ acc.start # 0 /\ seg.line >= acc.start
              THEN Append(acc.ranges, <<acc.start, seg.line>>) ELSE acc.ranges,
   start |-> IF ~ seg.bare THEN 0 ELSE IF acc.start = 0 THEN seg.line ELSE acc.start,
   prev |-> seg.line]

\* One turn of the loop; start = 0: none.
Step(acc, seg) ==
  [ranges |-> IF ~ seg.bare /\ acc.start # 0 /\ seg.line - 1 >= acc.start
              THEN Append(acc.ranges, <<acc.start, seg.line - 1>>) ELSE acc.ranges,
   start |-> IF ~ seg.bare THEN 0 ELSE IF acc.start = 0 THEN seg.line ELSE acc.start,
   prev |-> seg.line]

\* The state of the loop behind every segment.
Turns(segments) ==
  LET loop[n \in 0..Len(segments)] ==
        IF n = 0 THEN [ranges |-> <<>>, start |-> 0, prev |-> 0] ELSE Step(loop[n - 1], segments[n])
  IN  loop

AllRanges(segments) ==
  LET end == Turns(segments)[Len(segments)]
  IN  IF end.start = 0 THEN end.ranges ELSE Append(end.ranges, <<end.start, end.prev>>)

\* The largest ones in the order of the file; of two that are equally large the
\* first, since the sort is stable.
UncoveredRanges(segments) ==
  LET all == AllRanges(segments)
      Size(r) == r[2] - r[1]
      ahead(i) == {j \in DOMAIN all : \/ Size(all[j]) > Size(all[i])
                                      \/ Size(all[j]) = Size(all[i]) /\ j < i}
      top == {i \in DOMAIN all : Cardinality(ahead(i)) < TopRanges}
  IN  {all[i] : i \in top}

-----------------------------------------------------------------------------
(* Patterns.  "**" stands for any segments, "*" for one of any name.       *)

SegmentMatch(p, s) == p = "*" \/ p = s

\* glob_match_parts, with positions for the slices.
GlobMatch(pattern, path) ==
  LET g[at \in (1..Len(pattern) + 1) \X (1..Len(path) + 1)] ==
        LET p == at[1]
            s == at[2]
        IN  IF p > Len(pattern) \/ s > Len(path)
            THEN \/ p > Len(pattern) /\ s > Len(path)
                 \/ p = Len(pattern) /\ pattern[p] = "**"
            ELSE IF pattern[p] = "**" THEN g[<<p + 1, s>>] \/ g[<<p, s + 1>>]
            ELSE SegmentMatch(pattern[p], path[s]) /\ g[<<p + 1, s + 1>>]
  IN  g[<<1, 1>>]

-----------------------------------------------------------------------------
(* The inputs.                                                             *)

ScanInit ==
  scan \in {[kind |-> "panes", names |-> {}, inFlight |-> 0],
            [kind |-> "coverage", segments |-> <<>>],
            [kind |-> "glob", pattern |-> <<>>, path |-> <<>>]}

SpawnPane(name) ==
  /\ scan.kind = "panes" /\ name \notin scan.names /\ Cardinality(scan.names) < MaxPanes
  /\ scan' = [scan EXCEPT !.names = @ \cup {name}]

LabelIssue ==
  /\ scan.kind = "panes" /\ scan.inFlight < MaxPanes
  /\ scan' = [scan EXCEPT !.inFlight = @ + 1]

\* llvm-cov reports segments in the order of the file.
Segment(line, bare) ==
  /\ scan.kind = "coverage" /\ Len(scan.segments) < MaxSegments
  /\ scan.segments # <<>> => scan.segments[Len(scan.segments)].line <= line
  /\ scan' = [scan EXCEPT !.segments = Append(@, [line |-> line, bare |-> bare])]

LongerPath(s) ==
  /\ scan.kind = "glob" /\ Len(scan.path) < MaxParts
  /\ scan' = [scan EXCEPT !.path = Append(@, s)]

LongerPattern(p) ==
  /\ scan.kind = "glob" /\ Len(scan.pattern) < MaxParts
  /\ scan' = [scan EXCEPT !.pattern = Append(@, p)]

ScanNext ==
  \/ \E name \in Indices : SpawnPane(name)
  \/ LabelIssue
  \/ \E line \in 1..MaxLine, bare \in BOOLEAN : Segment(line, bare)
  \/ \E s \in Parts : LongerPath(s)
  \/ \E p \in Parts \cup {"*", "**"} : LongerPattern(p)

ScanSpec == ScanInit /\ [][ScanNext]_scan

-----------------------------------------------------------------------------
(* Properties.                                                             *)

HighestFreedAmong(names, inFlight) ==
  LET stale == StaleAgentPanes(names, inFlight)
  IN  /\ Cardinality(names \ stale) = Min({Cardinality(names), inFlight})
      /\ \A a \in stale, b \in names \ stale : IndexOf(b) < IndexOf(a)

\* The highest-indexed slots are freed first, and as many are left as there are
\* issues in flight, as long as the indices have one digit each.
HighestFreedShort ==
  scan.kind = "panes" /\ (\A a \in scan.names : Len(a) = 1)
    => HighestFreedAmong(scan.names, scan.inFlight)

\* Where the report has no more ranges than a finding lists, these are the lines
\* that are uncovered from end to end, and the line each of them starts on.
RangesExact ==
  scan.kind = "coverage" /\ Len(AllRanges(scan.segments)) <= TopRanges =>
    LET segs == scan.segments
        BeforeLine(l) == {i \in DOMAIN segs : segs[i].line < l}
        Bare(l) == /\ BeforeLine(l) # {} /\ segs[Max(BeforeLine(l))].bare
                   /\ \A i \in DOMAIN segs : segs[i].line = l => segs[i].bare
        listed == UNION {r[1]..r[2] : r \in UncoveredRanges(segs)}
        end == IF segs = <<>> THEN 0 ELSE segs[Len(segs)].line
    IN  /\ {l \in 1..end : Bare(l)} \subseteq listed
        /\ \A l \in listed : Bare(l) \/ \E i \in DOMAIN segs : segs[i].line = l /\ segs[i].bare

\* The reference: the segments of the path fall to the parts of the pattern in
\* order.  (Two ** in a row are left out: they do not match an empty rest.)
Matches(pattern, path) ==
  \E cut \in [0..Len(pattern) -> 0..Len(path)] :
    /\ cut[0] = 0 /\ cut[Len(pattern)] = Len(path)
    /\ \A i \in DOMAIN pattern :
         /\ cut[i - 1] <= cut[i]
         /\ pattern[i] # "**" =>
              cut[i] = cut[i - 1] + 1 /\ SegmentMatch(pattern[i], path[cut[i]])

GlobAgrees ==
  scan.kind = "glob" /\ (\A i \in 2..Len(scan.pattern) : ~ (scan.pattern[i - 1] = "**" /\ scan.pattern[i] = "**"))
    => (GlobMatch(scan.pattern, scan.path) <=> Matches(scan.pattern, scan.path))

\* What a coverage finding says: the ranges it lists are the uncovered lines, and the
\* files it leaves out are the ones that a pattern of coverage_exclude matches.
CoverageExact == RangesExact /\ GlobAgrees
=============================================================================
