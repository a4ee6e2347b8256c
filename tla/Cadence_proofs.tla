--------------------------- MODULE Cadence_proofs ---------------------------
(***************************************************************************)
(* Proofs about Cadence: the crontab stays well-formed, what is not r's    *)
(* stays as it is, and the record is what is scheduled.  First what the    *)
(* loop over the lines leaves of a crontab, by the least line at which it  *)
(* would not; then what merge makes of it; then the commands.              *)
(***************************************************************************)
EXTENDS Cadence, TLAPS, WellFoundedInduction, FiniteSetTheorems

LEMMA LeastOf ==
  ASSUME NEW S \in SUBSET Nat, S # {}
  PROVE  \E k \in S : \A j \in S : ~ (j < k)
<1>1. PICK k \in S : \A j \in S : <<j, k>> \notin OpToRel(<, Nat)
  BY NatLessThanWellFounded, WFMin, Zenon
<1>2. \A j \in S : ~ (j < k) BY <1>1 DEF OpToRel
<1> QED BY <1>2

Loops(lines, ours, m, X) ==
  {g \in [0..m -> [out : Seq(X), skip : BOOLEAN]] :
     \A n \in 0..m : g[n] = IF n = 0 THEN [out |-> <<>>, skip |-> FALSE]
                            ELSE StripLine(g[n - 1], lines[n], ours)}

LEMMA StripLineType ==
  ASSUME NEW X, NEW acc \in [out : Seq(X), skip : BOOLEAN], NEW line \in X, NEW ours
  PROVE  StripLine(acc, line, ours) \in [out : Seq(X), skip : BOOLEAN]
<1>1. acc.out \in Seq(X) /\ Append(acc.out, line) \in Seq(X) /\ acc.skip \in BOOLEAN OBVIOUS
<1>2. [acc EXCEPT !.out = Append(acc.out, line)] \in [out : Seq(X), skip : BOOLEAN] BY <1>1
<1>3. [acc EXCEPT !.skip = TRUE] \in [out : Seq(X), skip : BOOLEAN]
      /\ [acc EXCEPT !.skip = FALSE] \in [out : Seq(X), skip : BOOLEAN]
  BY <1>1
<1> QED BY <1>2, <1>3, Zenon DEF StripLine

LEMMA LoopsExist ==
  ASSUME NEW X, NEW lines \in Seq(X), NEW ours
  PROVE  \A m \in 0..Len(lines) : Loops(lines, ours, m, X) # {}
<1> DEFINE None == {m \in Nat : m <= Len(lines) /\ Loops(lines, ours, m, X) = {}}
<1>0. Len(lines) \in Nat OBVIOUS
<1>1. SUFFICES ASSUME None # {} PROVE FALSE BY <1>0
<1>2. PICK m \in None : \A j \in None : ~ (j < m) BY <1>1, LeastOf
<1>3. m # 0
  <2> DEFINE g == [n \in 0..0 |-> [out |-> <<>>, skip |-> FALSE]]
  <2>1. <<>> \in Seq(X) OBVIOUS
  <2>2. [out |-> <<>>, skip |-> FALSE] \in [out : Seq(X), skip : BOOLEAN] BY <2>1
  <2>3. g \in [0..0 -> [out : Seq(X), skip : BOOLEAN]] BY <2>2
  <2>4. \A n \in 0..0 : n = 0 /\ g[n] = [out |-> <<>>, skip |-> FALSE] OBVIOUS
  <2>1a. g \in Loops(lines, ours, 0, X) BY <2>3, <2>4, Zenon DEF Loops
  <2> QED BY <2>1a
<1>4. m \in Nat /\ m <= Len(lines) /\ m - 1 \in Nat /\ m - 1 \notin None BY <1>2, <1>3
<1>5. PICK g : g \in Loops(lines, ours, m - 1, X) BY <1>0, <1>4
<1> DEFINE h == [n \in 0..m |-> IF n = m THEN StripLine(g[m - 1], lines[m], ours) ELSE g[n]]
<1>6. g \in [0..(m - 1) -> [out : Seq(X), skip : BOOLEAN]]
      /\ \A n \in 0..(m - 1) : g[n] = IF n = 0 THEN [out |-> <<>>, skip |-> FALSE]
                                      ELSE StripLine(g[n - 1], lines[n], ours)
  BY <1>5 DEF Loops
<1>7. StripLine(g[m - 1], lines[m], ours) \in [out : Seq(X), skip : BOOLEAN]
  <2>1. lines[m] \in X BY <1>0, <1>3, <1>4
  <2>2. g[m - 1] \in [out : Seq(X), skip : BOOLEAN] BY <1>4, <1>6
  <2> QED BY <2>1, <2>2, StripLineType
<1>8. h \in [0..m -> [out : Seq(X), skip : BOOLEAN]]
  <2>1. \A n \in 0..m : n # m => n \in 0..(m - 1) BY <1>4
  <2> QED BY <2>1, <1>6, <1>7
<1>9. ASSUME NEW n \in 0..m
      PROVE  h[n] = IF n = 0 THEN [out |-> <<>>, skip |-> FALSE]
                    ELSE StripLine(h[n - 1], lines[n], ours)
  <2>1. CASE n = m
    <3>1. h[m - 1] = g[m - 1] BY <1>4
    <3> QED BY <2>1, <3>1, <1>3
  <2>2. CASE n # m
    <3>1. n \in 0..(m - 1) BY <2>2, <1>4
    <3>2. h[n] = g[n] BY <2>2
    <3>3. n # 0 => n - 1 \in 0..m /\ n - 1 # m /\ h[n - 1] = g[n - 1] BY <1>4, <3>1
    <3> QED BY <3>1, <3>2, <3>3, <1>6
  <2> QED BY <2>1, <2>2
<1>10. h \in Loops(lines, ours, m, X) BY <1>8, <1>9 DEF Loops
<1> QED BY <1>10, <1>2

LEMMA StripLoopIs ==
  ASSUME NEW X, NEW lines \in Seq(X), NEW ours
  PROVE  LET f == StripLoop(lines, ours) IN
         /\ f \in [0..Len(lines) -> [out : Seq(X), skip : BOOLEAN]]
         /\ f[0] = [out |-> <<>>, skip |-> FALSE]
         /\ \A n \in 1..Len(lines) : f[n] = StripLine(f[n - 1], lines[n], ours)
<1> DEFINE F(f) == [n \in 0..Len(lines) |-> IF n = 0 THEN [out |-> <<>>, skip |-> FALSE]
                                            ELSE StripLine(f[n - 1], lines[n], ours)]
<1>1. StripLoop(lines, ours) = CHOOSE f : f = F(f) BY DEF StripLoop
<1>2. PICK g : g \in Loops(lines, ours, Len(lines), X)
  <2>1. Len(lines) \in 0..Len(lines) OBVIOUS
  <2> QED BY <2>1, LoopsExist
<1>3. g \in [0..Len(lines) -> [out : Seq(X), skip : BOOLEAN]]
      /\ \A n \in 0..Len(lines) : g[n] = IF n = 0 THEN [out |-> <<>>, skip |-> FALSE]
                                         ELSE StripLine(g[n - 1], lines[n], ours)
  BY <1>2, Zenon DEF Loops
<1>4. g = F(g) BY <1>3
<1>5. StripLoop(lines, ours) = F(StripLoop(lines, ours)) BY <1>1, <1>4, Zenon
<1> DEFINE f == StripLoop(lines, ours)
<1>6. DOMAIN f = 0..Len(lines) /\ \A n \in 0..Len(lines) :
        f[n] = IF n = 0 THEN [out |-> <<>>, skip |-> FALSE] ELSE StripLine(f[n - 1], lines[n], ours)
  BY <1>5, Zenon
<1> DEFINE States == [out : Seq(X), skip : BOOLEAN]
           Bad == {n \in Nat : n <= Len(lines) /\ f[n] \notin States}
<1> HIDE DEF f
<1>7. f[0] = [out |-> <<>>, skip |-> FALSE]
      /\ \A n \in 1..Len(lines) : f[n] = StripLine(f[n - 1], lines[n], ours)
  <2>1. Len(lines) \in Nat OBVIOUS
  <2>2. 0 \in 0..Len(lines) BY <2>1
  <2>3. \A n \in 1..Len(lines) : n \in 0..Len(lines) /\ n # 0 BY <2>1
  <2>4. f[0] = [out |-> <<>>, skip |-> FALSE] BY <1>6, <2>2, Zenon
  <2>5. \A n \in 1..Len(lines) : f[n] = StripLine(f[n - 1], lines[n], ours) BY <1>6, <2>3, Zenon
  <2> QED BY <2>4, <2>5
<1>8. f[0] \in States
  <2>1. <<>> \in Seq(X) OBVIOUS
  <2> QED BY <1>7, <2>1
<1>9. Bad = {}
  <2> SUFFICES ASSUME Bad # {} PROVE FALSE OBVIOUS
  <2>1. PICK m \in Bad : \A j \in Bad : ~ (j < m) BY LeastOf
  <2>2. m \in 1..Len(lines) /\ m - 1 \in Nat /\ m - 1 <= Len(lines) BY <1>8, <2>1
  <2>3. f[m - 1] \in States BY <2>1, <2>2
  <2>4. lines[m] \in X BY <2>2
  <2>5. f[m] \in States BY <1>7, <2>2, <2>3, <2>4, StripLineType
  <2> QED BY <2>1, <2>5
<1>10. \A n \in 0..Len(lines) : f[n] \in States BY <1>9
<1>11. f = [n \in 0..Len(lines) |-> f[n]] BY <1>5 DEF f
<1>12. f \in [0..Len(lines) -> States] BY <1>10, <1>11
<1> QED BY <1>7, <1>12 DEF f

Paired(lines) ==
  \A i \in 1..Len(lines) :
    /\ lines[i].kind = "marker" =>
         /\ i < Len(lines) /\ lines[i + 1].kind = "job"
         /\ lines[i + 1].label = lines[i].label
    /\ lines[i].kind = "job" => i > 1 /\ lines[i - 1].kind = "marker"

MarkersOnce(lines) ==
  \A i, j \in 1..Len(lines) : lines[i].kind = "marker" /\ lines[i] = lines[j] => i = j

\* Behind n lines the loop skips if a marker of ours has just been seen.
SkipIs(lines, ours, n, skip) ==
  skip <=> (n > 0 /\ lines[n].kind = "marker" /\ lines[n].label \in ours)

\* A marker just seen that is not of ours has been kept.
LastKept(lines, ours, n, out) ==
  (n > 0 /\ lines[n].kind = "marker" /\ lines[n].label \notin ours)
     => (Len(out) > 0 /\ out[Len(out)] = lines[n])

\* A marker kept is none of ours, one of the lines seen, and has its job under
\* it or is the line just seen.
MarkersKept(lines, ours, n, out) ==
  \A i \in 1..Len(out) : out[i].kind = "marker" =>
    /\ out[i].label \notin ours
    /\ \E j \in 1..n : out[i] = lines[j]
    /\ \/ i < Len(out) /\ out[i + 1].kind = "job" /\ out[i + 1].label = out[i].label
       \/ i = Len(out) /\ n > 0 /\ out[i] = lines[n]

JobsKept(out) ==
  \A i \in 1..Len(out) : out[i].kind = "job" => (i > 1 /\ out[i - 1].kind = "marker")

LoopInv(lines, ours, n, out, skip) ==
  /\ SkipIs(lines, ours, n, skip) /\ LastKept(lines, ours, n, out)
  /\ MarkersKept(lines, ours, n, out) /\ JobsKept(out) /\ MarkersOnce(out)

LEMMA LoopGoes ==
  ASSUME NEW X, NEW lines \in Seq(X), NEW ours, Paired(lines), MarkersOnce(lines),
         NEW n \in 1..Len(lines), NEW out \in Seq(X), NEW skip \in BOOLEAN,
         LoopInv(lines, ours, n - 1, out, skip)
  PROVE  LET acc == StripLine([out |-> out, skip |-> skip], lines[n], ours)
         IN  LoopInv(lines, ours, n, acc.out, acc.skip)
<1> DEFINE line == lines[n]
           before == lines[n - 1]
           mine == line.kind = "marker" /\ line.label \in ours
           acc == StripLine([out |-> out, skip |-> skip], line, ours)
           L == Len(out)
<1>0. n \in Nat /\ n > 0 /\ line \in X /\ L \in Nat OBVIOUS
<1>1. (n > 1 /\ before.kind = "marker") => (line.kind = "job" /\ line.label = before.label)
  BY <1>0 DEF Paired
<1>2. line.kind = "job" => (n > 1 /\ before.kind = "marker") BY <1>0 DEF Paired
<1>2a. SkipIs(lines, ours, n - 1, skip) /\ LastKept(lines, ours, n - 1, out)
       /\ MarkersKept(lines, ours, n - 1, out) /\ JobsKept(out) /\ MarkersOnce(out)
  BY DEF LoopInv
<1>3. line.kind = "marker" => \A i \in 1..L : out[i] # line
  <2> SUFFICES ASSUME line.kind = "marker", NEW i \in 1..L, out[i] = line PROVE FALSE OBVIOUS
  <2>1. PICK j \in 1..(n - 1) : out[i] = lines[j] BY <1>2a DEF MarkersKept
  <2>2. j \in 1..Len(lines) /\ j # n BY <1>0, <2>1
  <2> QED BY <2>1, <2>2 DEF MarkersOnce
<1>3a. skip <=> (n > 1 /\ before.kind = "marker" /\ before.label \in ours)
  BY <1>0, <1>2a DEF SkipIs
<1>3b. ASSUME NEW i \in 1..L, out[i].kind = "marker"
       PROVE  /\ out[i].label \notin ours
              /\ \E j \in 1..n : out[i] = lines[j]
              /\ \/ i < L /\ out[i + 1].kind = "job" /\ out[i + 1].label = out[i].label
                 \/ i = L /\ n > 1 /\ out[i] = before
  BY <1>0, <1>2a, <1>3b DEF MarkersKept
<1>4. CASE skip
  <2>1. acc.out = out /\ acc.skip = FALSE BY <1>4 DEF StripLine
  <2>2. n > 1 /\ before.kind = "marker" /\ before.label \in ours BY <1>3a, <1>4
  <2>3. line.kind = "job" BY <1>1, <2>2
  <2>4. SkipIs(lines, ours, n, FALSE) /\ LastKept(lines, ours, n, out) BY <2>3 DEF SkipIs, LastKept
  <2>5. MarkersKept(lines, ours, n, out) BY <1>3b, <2>2 DEF MarkersKept
  <2> QED BY <1>2a, <2>1, <2>4, <2>5 DEF LoopInv
<1>5. CASE ~ skip /\ mine
  <2>1. acc.out = out /\ acc.skip = TRUE BY <1>5 DEF StripLine
  <2>2. ~ (n > 1 /\ before.kind = "marker") BY <1>1, <1>5
  <2>3. SkipIs(lines, ours, n, TRUE) /\ LastKept(lines, ours, n, out)
    BY <1>0, <1>5 DEF SkipIs, LastKept
  <2>4. MarkersKept(lines, ours, n, out) BY <1>3b, <2>2 DEF MarkersKept
  <2> QED BY <1>2a, <2>1, <2>3, <2>4 DEF LoopInv
<1>6. CASE ~ skip /\ ~ mine
  <2> DEFINE new == Append(out, line)
  <2>1. acc.out = new /\ acc.skip = FALSE BY <1>6 DEF StripLine
  <2>2. Len(new) = L + 1 /\ new[L + 1] = line /\ \A i \in 1..L : new[i] = out[i] BY <1>0
  <2> HIDE DEF new
  <2>3. SkipIs(lines, ours, n, FALSE) /\ LastKept(lines, ours, n, new)
    BY <1>0, <1>6, <2>2 DEF SkipIs, LastKept
  <2>4. MarkersKept(lines, ours, n, new)
    <3> SUFFICES ASSUME NEW i \in 1..(L + 1), new[i].kind = "marker"
        PROVE  /\ new[i].label \notin ours
               /\ \E j \in 1..n : new[i] = lines[j]
               /\ \/ i < L + 1 /\ new[i + 1].kind = "job" /\ new[i + 1].label = new[i].label
                  \/ i = L + 1 /\ n > 0 /\ new[i] = line
      BY <2>2 DEF MarkersKept
    <3>1. CASE i = L + 1 BY <1>0, <1>6, <2>2, <3>1
    <3>2. CASE i \in 1..L
      <4>1. out[i].kind = "marker" /\ new[i] = out[i] BY <2>2, <3>2
      <4>2. CASE i < L
        <5>1. i + 1 \in 1..L /\ new[i + 1] = out[i + 1] BY <1>0, <2>2, <3>2, <4>2
        <5> QED BY <1>3b, <3>2, <4>1, <4>2, <5>1
      <4>3. CASE i = L
        <5>1. n > 1 /\ out[i] = before BY <1>3b, <3>2, <4>1, <4>3
        <5>2. line.kind = "job" /\ line.label = out[i].label BY <1>1, <4>1, <5>1
        <5>3. new[i + 1] = line /\ i < L + 1 BY <1>0, <2>2, <4>3
        <5> QED BY <1>3b, <3>2, <4>1, <5>2, <5>3
      <4> QED BY <3>2, <4>2, <4>3
    <3> QED BY <1>0, <3>1, <3>2
  <2>5. JobsKept(new)
    <3> SUFFICES ASSUME NEW i \in 1..(L + 1), new[i].kind = "job"
        PROVE  i > 1 /\ new[i - 1].kind = "marker"
      BY <2>2 DEF JobsKept
    <3>1. CASE i = L + 1
      <4>1. n > 1 /\ before.kind = "marker" BY <1>2, <2>2, <3>1
      <4>2. before.label \notin ours BY <1>3a, <1>6, <4>1
      <4>3. L > 0 /\ out[L] = before BY <1>2a, <4>1, <4>2 DEF LastKept
      <4>4. i - 1 = L /\ L \in 1..L BY <1>0, <3>1, <4>3
      <4> QED BY <2>2, <3>1, <4>1, <4>3, <4>4
    <3>2. CASE i \in 1..L
      <4>1. i > 1 /\ out[i - 1].kind = "marker" BY <1>2a, <2>2, <3>2 DEF JobsKept
      <4>2. i - 1 \in 1..L BY <3>2, <4>1
      <4> QED BY <2>2, <4>1, <4>2
    <3> QED BY <1>0, <3>1, <3>2
  <2>6. MarkersOnce(new)
    <3> SUFFICES ASSUME NEW i \in 1..(L + 1), NEW j \in 1..(L + 1),
                        new[i].kind = "marker", new[i] = new[j]
        PROVE  i = j
      BY <2>2 DEF MarkersOnce
    <3>1. CASE i \in 1..L /\ j \in 1..L BY <1>2a, <2>2, <3>1 DEF MarkersOnce
    <3>2. CASE i = L + 1 /\ j \in 1..L BY <1>3, <2>2, <3>2
    <3>3. CASE i \in 1..L /\ j = L + 1 BY <1>3, <2>2, <3>3
    <3> QED BY <1>0, <3>1, <3>2, <3>3
  <2> QED BY <2>1, <2>3, <2>4, <2>5, <2>6 DEF LoopInv
<1> QED BY <1>4, <1>5, <1>6

\* A well-formed crontab (WellFormed says so of the variable).
Formed(lines) == Paired(lines) /\ MarkersOnce(lines)

\* What merge and remove_crontab_entry leave of a well-formed crontab is
\* well-formed and without a marker of ours.
LEMMA StripFormed ==
  ASSUME NEW X, NEW lines \in Seq(X), NEW ours, Formed(lines)
  PROVE  LET out == Strip(lines, ours)
         IN  /\ out \in Seq(X) /\ Formed(out)
             /\ \A i \in 1..Len(out) : out[i].kind = "marker" => out[i].label \notin ours
<1> DEFINE f == StripLoop(lines, ours)
           N == Len(lines)
           Bad == {n \in Nat : n <= N /\ ~ LoopInv(lines, ours, n, f[n].out, f[n].skip)}
<1>0. N \in Nat OBVIOUS
<1>1. f \in [0..N -> [out : Seq(X), skip : BOOLEAN]] /\ f[0] = [out |-> <<>>, skip |-> FALSE]
      /\ \A n \in 1..N : f[n] = StripLine(f[n - 1], lines[n], ours)
  BY StripLoopIs
<1>2. LoopInv(lines, ours, 0, <<>>, FALSE)
  BY DEF LoopInv, SkipIs, LastKept, MarkersKept, JobsKept, MarkersOnce
<1> HIDE DEF f
<1>3. Bad = {}
  <2> SUFFICES ASSUME Bad # {} PROVE FALSE OBVIOUS
  <2>1. PICK m \in Bad : \A j \in Bad : ~ (j < m)
    <3>1. Bad \in SUBSET Nat OBVIOUS
    <3> QED BY <3>1, LeastOf
  <2>2. m # 0
    <3>1. f[0].out = <<>> /\ f[0].skip = FALSE BY <1>1
    <3>2. LoopInv(lines, ours, 0, f[0].out, f[0].skip) BY <1>2, <3>1, Zenon
    <3> QED BY <2>1, <3>2
  <2>3. m \in 1..N /\ m - 1 \in Nat /\ m - 1 \in 0..N /\ m - 1 < m BY <1>0, <2>1, <2>2
  <2>4. LoopInv(lines, ours, m - 1, f[m - 1].out, f[m - 1].skip) BY <2>1, <2>3
  <2>5. f[m - 1] \in [out : Seq(X), skip : BOOLEAN] BY <1>1, <2>3
  <2>6. f[m - 1] = [out |-> f[m - 1].out, skip |-> f[m - 1].skip]
        /\ f[m - 1].out \in Seq(X) /\ f[m - 1].skip \in BOOLEAN
    BY <2>5
  <2>7. f[m] = StripLine(f[m - 1], lines[m], ours) BY <1>1, <2>3
  <2>8. Paired(lines) /\ MarkersOnce(lines) BY DEF Formed
  <2>9. LET acc == StripLine([out |-> f[m - 1].out, skip |-> f[m - 1].skip], lines[m], ours)
        IN  LoopInv(lines, ours, m, acc.out, acc.skip)
    BY <2>3, <2>4, <2>6, <2>8, LoopGoes
  <2> QED BY <2>1, <2>6, <2>7, <2>9
<1>4. N \in 0..N /\ f[N] \in [out : Seq(X), skip : BOOLEAN]
      /\ LoopInv(lines, ours, N, f[N].out, f[N].skip)
  BY <1>0, <1>1, <1>3
<1> DEFINE out == f[N].out
<1>5. Strip(lines, ours) = out BY DEF Strip, f
<1>6. out \in Seq(X) BY <1>4
<1>7. MarkersKept(lines, ours, N, out) /\ JobsKept(out) /\ MarkersOnce(out) BY <1>4 DEF LoopInv
<1>8. lines[N].kind # "marker" \/ N = 0 BY <1>0 DEF Formed, Paired
<1>9. Paired(out) BY <1>7, <1>8 DEF Paired, MarkersKept, JobsKept
<1>10. \A i \in 1..Len(out) : out[i].kind = "marker" => out[i].label \notin ours
  BY <1>7 DEF MarkersKept
<1> QED BY <1>5, <1>6, <1>7, <1>9, <1>10 DEF Formed

-----------------------------------------------------------------------------
(* What merge puts in.                                                     *)

\* No tag is cut short in another: own markers are known by a prefix.
LEMMA OwnLabel ==
  ASSUME CadenceAssumption, NEW r \in Repos, NEW t \in Tasks
  PROVE  Label(r, t) \in Labels /\ Own(r, Label(r, t))
<1> DEFINE tag == TagOf[r]
           Words == STRING \cup Tasks
<1>1. tag \in Seq(Words)
  <2>1. tag \in Seq(STRING) BY DEF CadenceAssumption
  <2> HIDE DEF tag
  <2> QED BY <2>1
<1> HIDE DEF tag, Words
<1>2. t \in Words BY DEF Words
<1>3. Len(Append(tag, t)) = Len(tag) + 1 /\ Len(tag) \in Nat BY <1>1, <1>2
<1>4. SubSeq(Append(tag, t), 1, Len(tag)) = SubSeq(tag, 1, Len(tag)) BY <1>1, <1>2
<1>5. IsPrefix(tag, Append(tag, t)) BY <1>3, <1>4 DEF IsPrefix
<1>6. tag # Append(tag, t)
  <2> SUFFICES ASSUME tag = Append(tag, t) PROVE FALSE OBVIOUS
  <2>1. Len(tag) = Len(tag) + 1 BY <1>3
  <2> QED BY <1>3, <2>1
<1>7. Label(r, t) \in Labels BY DEF Labels
<1> QED BY <1>5, <1>6, <1>7 DEF Label, Own, IsStrictPrefix, tag

LEMMA OrderedTasks ==
  ASSUME CadenceAssumption, NEW table
  PROVE  LET S == Declared(table) IN
         /\ Cardinality(S) \in Nat
         /\ SetToSeq(S) \in [1..Cardinality(S) -> S]
         /\ \A i, j \in 1..Cardinality(S) : SetToSeq(S)[i] = SetToSeq(S)[j] => i = j
         /\ \A t \in S : \E m \in 1..Cardinality(S) : SetToSeq(S)[m] = t
<1> DEFINE S == Declared(table)
           n == Cardinality(S)
<1>1. IsFiniteSet(S) BY FS_Subset DEF Declared, CadenceAssumption
<1>2. n \in Nat BY <1>1, FS_CardinalityType
<1>3. \E f \in [1..n -> S] : IsInjective(f)
  <2>1. PICK f : f \in Bijection(1..n, S) BY <1>1, FS_CardinalityType DEF ExistsBijection
  <2> QED BY <2>1 DEF Bijection, Injection, IsInjective
<1>4. SetToSeq(S) \in [1..n -> S] /\ IsInjective(SetToSeq(S)) BY <1>3 DEF SetToSeq
<1>5. \A t \in S : \E m \in 1..n : SetToSeq(S)[m] = t
  <2>1. Cardinality(1..n) = n BY <1>2, FS_Interval
  <2>2. SetToSeq(S) \in Injection(1..n, S) BY <1>4 DEF Injection
  <2>3. SetToSeq(S) \in Surjection(1..n, S) BY <1>1, <2>1, <2>2, FS_Injection
  <2> QED BY <2>3 DEF Surjection
<1> QED BY <1>2, <1>4, <1>5 DEF IsInjective

Lines == {UserLine(u) : u \in UserLines} \cup {Marker(label) : label \in Labels}
           \cup {Job(label, time) : label \in Labels, time \in Times}

LEMMA LabelTask ==
  ASSUME CadenceAssumption, NEW r \in Repos, NEW t \in Tasks, NEW u \in Tasks,
         Label(r, t) = Label(r, u)
  PROVE  t = u
<1> DEFINE tag == TagOf[r]
           Words == STRING \cup Tasks
<1>1. tag \in Seq(Words)
  <2>1. tag \in Seq(STRING) BY DEF CadenceAssumption
  <2> HIDE DEF tag
  <2> QED BY <2>1
<1>2. Append(tag, t) = Append(tag, u) BY DEF Label
<1> HIDE DEF tag, Words
<1>3. t \in Words /\ u \in Words BY DEF Words
<1>4. Append(tag, t)[Len(tag) + 1] = t /\ Append(tag, u)[Len(tag) + 1] = u BY <1>1, <1>3
<1> QED BY <1>2, <1>4

\* The task of a line of Generated.
LEMMA GeneratedLines ==
  ASSUME CadenceAssumption, NEW r \in Repos, NEW table \in Tables
  PROVE  LET S == Declared(table)
             c == Cardinality(S)
             gen == Generated(r, table)
         IN  /\ c \in Nat /\ gen \in Seq(Lines) /\ Len(gen) = 2 * c
             /\ \A m \in 1..c :
                  /\ SetToSeq(S)[m] \in S
                  /\ gen[2 * m - 1] = Marker(Label(r, SetToSeq(S)[m]))
                  /\ gen[2 * m] = Job(Label(r, SetToSeq(S)[m]), table[SetToSeq(S)[m]])
             /\ \A i \in 1..Len(gen) : \E m \in 1..c : i = 2 * m - 1 \/ i = 2 * m
<1> DEFINE S == Declared(table)
           c == Cardinality(S)
           tasks == SetToSeq(S)
           gen == Generated(r, table)
           line(i) == LET t == tasks[(i + 1) \div 2]
                      IN  IF i % 2 = 1 THEN Marker(Label(r, t)) ELSE Job(Label(r, t), table[t])
<1>1. c \in Nat /\ tasks \in [1..c -> S] BY OrderedTasks
<1>2. gen = [i \in 1..2 * c |-> line(i)] BY DEF Generated
<1>3. ASSUME NEW m \in 1..c
      PROVE  /\ tasks[m] \in S /\ line(2 * m - 1) = Marker(Label(r, tasks[m]))
             /\ line(2 * m) = Job(Label(r, tasks[m]), table[tasks[m]])
             /\ 2 * m - 1 \in 1..2 * c /\ 2 * m \in 1..2 * c
  <2> HIDE DEF S, c, tasks
  <2>1. (2 * m - 1 + 1) \div 2 = m /\ (2 * m + 1) \div 2 = m
        /\ (2 * m - 1) % 2 = 1 /\ (2 * m) % 2 # 1
    BY <1>1
  <2>2. line(2 * m - 1) = Marker(Label(r, tasks[m])) BY <2>1, Zenon
  <2>3. line(2 * m) = Job(Label(r, tasks[m]), table[tasks[m]]) BY <2>1, Zenon
  <2>4. 2 * m - 1 \in 1..2 * c /\ 2 * m \in 1..2 * c /\ tasks[m] \in S BY <1>1
  <2> QED BY <2>2, <2>3, <2>4
<1>4. \A i \in 1..2 * c : \E m \in 1..c : i = 2 * m - 1 \/ i = 2 * m
  <2> HIDE DEF S, c, tasks
  <2> TAKE i \in 1..2 * c
  <2>1. (i + 1) \div 2 \in 1..c BY <1>1
  <2>2. i = 2 * ((i + 1) \div 2) - 1 \/ i = 2 * ((i + 1) \div 2) BY <1>1
  <2> QED BY <2>1, <2>2
<1>5. \A m \in 1..c : line(2 * m - 1) \in Lines /\ line(2 * m) \in Lines
  <2> TAKE m \in 1..c
  <2> DEFINE t == tasks[m]
  <2>1. t \in Tasks /\ table[t] \in Times BY <1>3 DEF Declared, Tables
  <2>2. Label(r, t) \in Labels BY <2>1, OwnLabel
  <2>3. Marker(Label(r, t)) \in Lines /\ Job(Label(r, t), table[t]) \in Lines
    BY <2>1, <2>2 DEF Lines
  <2> QED BY <1>3, <2>3
<1> HIDE DEF line, S, c, tasks, gen
<1>6. \A i \in 1..2 * c : line(i) \in Lines BY <1>4, <1>5
<1>7. 2 * c \in Nat BY <1>1
<1>8. gen \in Seq(Lines) /\ Len(gen) = 2 * c BY <1>2, <1>6, <1>7
<1>9. \A m \in 1..c : /\ tasks[m] \in S
                      /\ gen[2 * m - 1] = Marker(Label(r, tasks[m]))
                      /\ gen[2 * m] = Job(Label(r, tasks[m]), table[tasks[m]])
  BY <1>2, <1>3
<1> QED BY <1>1, <1>4, <1>8, <1>9 DEF S, c, tasks, gen

LEMMA GeneratedFormed ==
  ASSUME CadenceAssumption, NEW r \in Repos, NEW table \in Tables
  PROVE  LET gen == Generated(r, table) IN
         /\ Formed(gen)
         /\ \A i \in 1..Len(gen) : gen[i].kind # "user" /\ \E t \in Tasks : gen[i].label = Label(r, t)
<1> DEFINE S == Declared(table)
           c == Cardinality(S)
           tasks == SetToSeq(S)
           gen == Generated(r, table)
<1>1. /\ c \in Nat /\ gen \in Seq(Lines) /\ Len(gen) = 2 * c
      /\ \A m \in 1..c : /\ tasks[m] \in S
                         /\ gen[2 * m - 1] = Marker(Label(r, tasks[m]))
                         /\ gen[2 * m] = Job(Label(r, tasks[m]), table[tasks[m]])
      /\ \A i \in 1..Len(gen) : \E m \in 1..c : i = 2 * m - 1 \/ i = 2 * m
  BY GeneratedLines
<1>2. \A i, j \in 1..c : tasks[i] = tasks[j] => i = j BY OrderedTasks
<1>3. S \subseteq Tasks BY DEF Declared
<1> HIDE DEF S, c, tasks, gen
<1>4. ASSUME NEW m \in 1..c
      PROVE  /\ gen[2 * m - 1].kind = "marker" /\ gen[2 * m - 1].label = Label(r, tasks[m])
             /\ gen[2 * m].kind = "job" /\ gen[2 * m].label = Label(r, tasks[m])
             /\ tasks[m] \in Tasks
  <2>1. gen[2 * m - 1] = Marker(Label(r, tasks[m]))
        /\ gen[2 * m] = Job(Label(r, tasks[m]), table[tasks[m]]) /\ tasks[m] \in S
    BY <1>1
  <2>2. tasks[m] \in Tasks BY <2>1, <1>3, Zenon
  <2> QED BY <2>1, <2>2 DEF Marker, Job
<1>5. Paired(gen)
  <2> SUFFICES ASSUME NEW i \in 1..Len(gen)
      PROVE  /\ gen[i].kind = "marker" =>
                  /\ i < Len(gen) /\ gen[i + 1].kind = "job" /\ gen[i + 1].label = gen[i].label
             /\ gen[i].kind = "job" => i > 1 /\ gen[i - 1].kind = "marker"
    BY DEF Paired
  <2>1. PICK m \in 1..c : i = 2 * m - 1 \/ i = 2 * m BY <1>1
  <2>2. CASE i = 2 * m - 1
    <3>1. i + 1 = 2 * m /\ i < Len(gen) BY <1>1, <2>2
    <3> QED BY <1>4, <2>2, <3>1
  <2>3. CASE i = 2 * m
    <3>1. i - 1 = 2 * m - 1 /\ i > 1 BY <1>1, <2>3
    <3> QED BY <1>4, <2>3, <3>1
  <2> QED BY <2>1, <2>2, <2>3
<1>6. MarkersOnce(gen)
  <2> SUFFICES ASSUME NEW i \in 1..Len(gen), NEW j \in 1..Len(gen),
                      gen[i].kind = "marker", gen[i] = gen[j]
      PROVE  i = j
    BY DEF MarkersOnce
  <2>1. PICK m \in 1..c : i = 2 * m - 1 \/ i = 2 * m BY <1>1
  <2>2. PICK n \in 1..c : j = 2 * n - 1 \/ j = 2 * n BY <1>1
  <2>3. i = 2 * m - 1 /\ j = 2 * n - 1 BY <1>4, <2>1, <2>2
  <2>4. Label(r, tasks[m]) = Label(r, tasks[n]) BY <1>4, <2>3
  <2>5. tasks[m] = tasks[n] BY <1>4, <2>4, LabelTask
  <2> QED BY <1>2, <2>3, <2>5
<1>7. ASSUME NEW i \in 1..Len(gen)
      PROVE  gen[i].kind # "user" /\ \E t \in Tasks : gen[i].label = Label(r, t)
  <2>1. PICK m \in 1..c : i = 2 * m - 1 \/ i = 2 * m BY <1>1
  <2> QED BY <1>4, <2>1
<1> QED BY <1>5, <1>6, <1>7 DEF Formed, gen

\* Two well-formed pieces without a marker in common are a well-formed crontab.
LEMMA JoinFormed ==
  ASSUME NEW X, NEW a \in Seq(X), NEW b \in Seq(X), Formed(a), Formed(b),
         \A i \in 1..Len(a), j \in 1..Len(b) : a[i].kind = "marker" => a[i] # b[j]
  PROVE  Formed(a \o b)
<1> DEFINE s == a \o b
           m == Len(a)
           n == Len(b)
<1>1. /\ m \in Nat /\ n \in Nat /\ Len(s) = m + n
      /\ \A i \in 1..m : s[i] = a[i]
      /\ \A i \in 1..n : s[m + i] = b[i]
  OBVIOUS
<1>1a. ASSUME NEW i \in 1..(m + n), i > m PROVE i - m \in 1..n /\ s[i] = b[i - m]
  <2>1. i - m \in 1..n /\ m + (i - m) = i BY <1>1, <1>1a
  <2> QED BY <1>1, <2>1
<1>2. Paired(a) /\ Paired(b) /\ MarkersOnce(a) /\ MarkersOnce(b) BY DEF Formed
<1> HIDE DEF s
<1>3. Paired(s)
  <2> SUFFICES ASSUME NEW i \in 1..(m + n)
      PROVE  /\ s[i].kind = "marker" =>
                  /\ i < m + n /\ s[i + 1].kind = "job" /\ s[i + 1].label = s[i].label
             /\ s[i].kind = "job" => i > 1 /\ s[i - 1].kind = "marker"
    BY <1>1 DEF Paired
  <2>1. CASE i \in 1..m
    <3>1. s[i] = a[i] BY <1>1, <2>1
    <3>2. a[i].kind = "marker" => i + 1 \in 1..m /\ s[i + 1] = a[i + 1] BY <1>1, <1>2, <2>1 DEF Paired
    <3>3. a[i].kind = "job" => i > 1 /\ s[i - 1] = a[i - 1]
      <4>1. SUFFICES ASSUME a[i].kind = "job" PROVE i > 1 /\ s[i - 1] = a[i - 1] OBVIOUS
      <4>2. i > 1 BY <1>2, <2>1, <4>1 DEF Paired
      <4>3. i - 1 \in 1..m BY <1>1, <2>1, <4>2
      <4> QED BY <1>1, <4>2, <4>3
    <3> QED BY <1>1, <1>2, <2>1, <3>1, <3>2, <3>3 DEF Paired
  <2>2. CASE i > m
    <3> DEFINE k == i - m
    <3>1. k \in 1..n /\ s[i] = b[k] BY <1>1a, <2>2
    <3>2. b[k].kind = "marker" => i < m + n /\ s[i + 1] = b[k + 1]
      <4>1. SUFFICES ASSUME b[k].kind = "marker" PROVE i < m + n /\ s[i + 1] = b[k + 1] OBVIOUS
      <4>2. k < n BY <1>2, <3>1, <4>1 DEF Paired
      <4>3. i + 1 \in 1..(m + n) /\ i + 1 > m /\ i + 1 - m = k + 1 BY <1>1, <2>2, <4>2
      <4> QED BY <1>1, <1>1a, <4>2, <4>3
    <3>3. b[k].kind = "job" => i > 1 /\ s[i - 1] = b[k - 1]
      <4>1. SUFFICES ASSUME b[k].kind = "job" PROVE i > 1 /\ s[i - 1] = b[k - 1] OBVIOUS
      <4>2. k > 1 BY <1>2, <3>1, <4>1 DEF Paired
      <4>3. i - 1 \in 1..(m + n) /\ i - 1 > m /\ i - 1 - m = k - 1 BY <1>1, <2>2, <4>2
      <4> QED BY <1>1, <1>1a, <4>2, <4>3
    <3>4. /\ b[k].kind = "marker" => b[k + 1].kind = "job" /\ b[k + 1].label = b[k].label
          /\ b[k].kind = "job" => b[k - 1].kind = "marker"
      BY <1>2, <3>1 DEF Paired
    <3> HIDE DEF k
    <3> QED BY <3>1, <3>2, <3>3, <3>4
  <2> QED BY <1>1, <2>1, <2>2
<1>4. MarkersOnce(s)
  <2> SUFFICES ASSUME NEW i \in 1..(m + n), NEW j \in 1..(m + n),
                      s[i].kind = "marker", s[i] = s[j]
      PROVE  i = j
    BY <1>1 DEF MarkersOnce
  <2>1. CASE i \in 1..m /\ j \in 1..m BY <1>1, <1>2, <2>1 DEF MarkersOnce
  <2>2. CASE i > m /\ j > m
    <3>1. i - m = j - m BY <1>1a, <1>2, <2>2 DEF MarkersOnce
    <3> QED BY <1>1, <3>1
  <2>3. CASE i \in 1..m /\ j > m BY <1>1, <1>1a, <2>3
  <2>4. CASE i > m /\ j \in 1..m BY <1>1, <1>1a, <2>4
  <2> QED BY <1>1, <2>1, <2>2, <2>3, <2>4
<1> QED BY <1>3, <1>4 DEF Formed, s

\* What merge makes of a well-formed crontab.
LEMMA MergeFormed ==
  ASSUME CadenceAssumption, NEW lines \in Seq(Lines), Formed(lines),
         NEW r \in Repos, NEW table \in Tables
  PROVE  Merge(lines, table, r) \in Seq(Lines) /\ Formed(Merge(lines, table, r))
<1> DEFINE ours == {label \in Labels : Own(r, label)}
           kept == Strip(lines, ours)
           gen == Generated(r, table)
<1>1. kept \in Seq(Lines) /\ Formed(kept)
      /\ \A i \in 1..Len(kept) : kept[i].kind = "marker" => kept[i].label \notin ours
  BY StripFormed
<1>2. gen \in Seq(Lines) BY GeneratedLines
<1>3. Formed(gen) /\ \A i \in 1..Len(gen) : \E t \in Tasks : gen[i].label = Label(r, t)
  BY GeneratedFormed
<1>4. \A i \in 1..Len(gen) : gen[i].label \in ours BY <1>3, OwnLabel
<1>5. \A i \in 1..Len(kept), j \in 1..Len(gen) : kept[i].kind = "marker" => kept[i] # gen[j]
  BY <1>1, <1>4
<1>6. Merge(lines, table, r) = kept \o gen BY DEF Merge
<1> HIDE DEF kept, gen, ours
<1>7. Formed(kept \o gen) BY <1>1, <1>2, <1>3, <1>5, JoinFormed
<1>8. kept \o gen \in Seq(Lines) BY <1>1, <1>2
<1> QED BY <1>6, <1>7, <1>8

\* A line more from the user.
LEMMA UserFormed ==
  ASSUME NEW lines \in Seq(Lines), Formed(lines), NEW u \in UserLines
  PROVE  LET more == Append(lines, UserLine(u)) IN more \in Seq(Lines) /\ Formed(more)
<1> DEFINE line == UserLine(u)
           b == <<line>>
<1>1. line \in Lines /\ line.kind = "user" BY DEF Lines, UserLine
<1> HIDE DEF line
<1>2. b \in Seq(Lines) /\ Len(b) = 1 /\ b[1] = line BY <1>1
<1>3. Append(lines, line) = lines \o b /\ lines \o b \in Seq(Lines) BY <1>1
<1>4. Formed(b) BY <1>1, <1>2 DEF Formed, Paired, MarkersOnce
<1>5. \A i \in 1..Len(lines), j \in 1..Len(b) : lines[i].kind = "marker" => lines[i] # b[j]
  BY <1>1, <1>2
<1>6. Formed(lines \o b) BY <1>2, <1>4, <1>5, JoinFormed
<1> QED BY <1>3, <1>6 DEF line

-----------------------------------------------------------------------------
(* The commands.                                                           *)

Phases == {"off", "config", "upsert", "read", "write", "install", "record", "remove", "strip"}

CadTypes ==
  /\ crontab \in Seq(Lines)
  /\ launchAgents \in [Repos -> Tables]
  /\ config \in [Repos -> Tables]
  /\ record \in [Repos -> (SUBSET Entries) \cup {NoFile}]
  /\ phase \in [Writers -> Phases]
  /\ job \in [Writers -> Jobs \cup {Nothing}]
  /\ base \in [Writers -> Seq(Lines)]
  /\ want \in [Writers -> Tables]
  /\ rest \in [Writers -> SUBSET Entries]

Removing == {"remove", "strip"}

\* A process that runs was invoked as something, and is where that can be.
Invoked ==
  \A k \in Writers : phase[k] # "off" =>
    job[k] \in Jobs /\ (phase[k] \in Removing <=> job[k].op = "remove")

AllFormed == Formed(crontab) /\ \A k \in Writers : Formed(base[k])

CadInv == CadTypes /\ Invoked /\ AllFormed

LEMMA NothingFormed == <<>> \in Seq(Lines) /\ Formed(<<>>)
BY DEF Formed, Paired, MarkersOnce

LEMMA JobRepo ==
  ASSUME NEW j \in Jobs
  PROVE  j.repo \in Repos
BY DEF Jobs

LEMMA EmptyIsTable == EmptyTable \in Tables
BY DEF EmptyTable, Tables

LEMMA EntriesAre ==
  ASSUME NEW table \in Tables, NEW mech \in {"crontab", "launchd"}
  PROVE  EntriesOf(table, mech) \in SUBSET Entries
<1> SUFFICES ASSUME NEW t \in Declared(table)
    PROVE  [task |-> t, mech |-> mech, time |-> table[t]] \in Entries
  BY DEF EntriesOf
<1>1. t \in Tasks /\ table[t] \in Times BY DEF Declared, Tables
<1> QED BY <1>1 DEF Entries

\* A command that ends.
LEMMA StopKeeps ==
  ASSUME CadenceAssumption, CadInv, NEW k \in Writers, Stop(k),
         crontab' = crontab, launchAgents' \in [Repos -> Tables], config' = config,
         record' \in [Repos -> (SUBSET Entries) \cup {NoFile}]
  PROVE  CadInv'
<1>1. /\ phase' = [phase EXCEPT ![k] = "off"] /\ job' = [job EXCEPT ![k] = Nothing]
      /\ base' = [base EXCEPT ![k] = <<>>] /\ want' = [want EXCEPT ![k] = EmptyTable]
      /\ rest' = [rest EXCEPT ![k] = {}]
  BY DEF Stop, Enter
<1>2. CadTypes' BY <1>1, NothingFormed, EmptyIsTable DEF CadInv, CadTypes, Phases
<1>3. Invoked' BY <1>1 DEF CadInv, Invoked, CadTypes
<1>4. AllFormed'
  <2>1. \A j \in Writers : base'[j] = base[j] \/ base'[j] = <<>> BY <1>1 DEF CadInv, CadTypes
  <2> QED BY <2>1, NothingFormed DEF CadInv, AllFormed
<1> QED BY <1>2, <1>3, <1>4 DEF CadInv

\* The steps that leave the crontab and all readings of it alone.
LEMMA QuietFormed ==
  ASSUME AllFormed, crontab' = crontab, base' = base
  PROVE  AllFormed'
BY DEF AllFormed

LEMMA SameJobs ==
  ASSUME CadTypes, Invoked, NEW k \in Writers, phase[k] # "off", job' = job,
         NEW where, where \in Removing <=> phase[k] \in Removing,
         phase' = [phase EXCEPT ![k] = where] \/ phase' = phase
  PROVE  Invoked'
BY DEF CadTypes, Invoked

LEMMA CadInitInv ==
  ASSUME CadenceAssumption, CadInit
  PROVE  CadInv
<1>1. CadTypes
  BY NothingFormed, EmptyIsTable DEF CadInit, CadTypes, CadenceAssumption, Phases
<1>2. Invoked BY DEF CadInit, Invoked
<1>3. AllFormed BY NothingFormed DEF CadInit, AllFormed
<1> QED BY <1>1, <1>2, <1>3 DEF CadInv

LEMMA CadNextInv ==
  ASSUME CadenceAssumption, CadInv, CadNext
  PROVE  CadInv'
<1> USE DEF CadInv
<1>1. ASSUME NEW k \in Writers, NEW c \in Jobs, Run(k, c) PROVE CadInv'
  <2>1. /\ crontab' = crontab /\ launchAgents' = launchAgents /\ config' = config /\ record' = record
        /\ base' = base /\ want' = want /\ job' = [job EXCEPT ![k] = c]
    BY <1>1 DEF Run, files
  <2>2. PICK p \in {"config", "upsert", "remove"} : phase' = [phase EXCEPT ![k] = p]
    BY <1>1 DEF Run, Enter
  <2>3. rest' \in [Writers -> SUBSET Entries]
    <3>1. CASE c.op = "sync" /\ UNCHANGED rest BY <3>1 DEF CadTypes
    <3>2. CASE /\ c.op = "begin"
               /\ rest' = [rest EXCEPT ![k] =
                    {[task |-> t, mech |-> c.mech, time |-> DefaultTime] : t \in c.add}]
      <4>1. c.mech \in {"crontab", "launchd"} /\ c.add \in SUBSET Tasks BY <3>2 DEF Jobs
      <4>2. \A t \in c.add : [task |-> t, mech |-> c.mech, time |-> DefaultTime] \in Entries
        BY <4>1 DEF Entries, CadenceAssumption
      <4> QED BY <3>2, <4>2 DEF CadTypes
    <3>3. CASE record[c.repo] # NoFile /\ rest' = [rest EXCEPT ![k] = record[c.repo]]
      <4>1. record[c.repo] \in SUBSET Entries BY <3>3, JobRepo DEF CadTypes
      <4> QED BY <3>3, <4>1 DEF CadTypes
    <3> QED BY <1>1, <3>1, <3>2, <3>3 DEF Run
  <2>4. CadTypes' BY <2>1, <2>2, <2>3 DEF CadTypes, Phases
  <2>5. p \in Removing <=> c.op = "remove" BY <1>1, <2>2 DEF Run, Enter, CadTypes, Removing
  <2>6. Invoked' BY <2>1, <2>2, <2>5 DEF Invoked, CadTypes
  <2> QED BY <2>1, <2>4, <2>6, QuietFormed
<1>2. ASSUME NEW k \in Writers, Dies(k) PROVE CadInv'
  BY <1>2, StopKeeps DEF Dies, Abort, files, CadTypes
<1>3. ASSUME NEW k \in Writers, Upsert(k) PROVE CadInv'
  <2>1. /\ crontab' = crontab /\ launchAgents' = launchAgents /\ record' = record
        /\ job' = job /\ base' = base /\ want' = want /\ phase[k] = "upsert"
    BY <1>3 DEF Upsert
  <2>2. PICK e \in rest[k] :
          /\ config' = IF e.task \in Declared(config[job[k].repo]) THEN config
                       ELSE [config EXCEPT ![job[k].repo][e.task] = e.time]
          /\ rest' = [rest EXCEPT ![k] = @ \ {e}]
          /\ IF rest[k] = {e} THEN Enter(k, "config") ELSE UNCHANGED phase
    BY <1>3 DEF Upsert
  <2>3. job[k].repo \in Repos /\ e \in Entries BY <2>1, JobRepo DEF Invoked, CadTypes
  <2>4. config' \in [Repos -> Tables]
    <3>1. e.task \in Tasks /\ e.time \in Times BY <2>3 DEF Entries
    <3>2. [config EXCEPT ![job[k].repo][e.task] = e.time] \in [Repos -> Tables]
      BY <2>3, <3>1 DEF CadTypes, Tables
    <3> QED BY <2>2, <3>2 DEF CadTypes
  <2>5. phase' = [phase EXCEPT ![k] = "config"] \/ phase' = phase BY <2>2 DEF Enter
  <2>6. CadTypes' BY <2>1, <2>2, <2>4, <2>5 DEF CadTypes, Phases
  <2>7. Invoked' BY <2>1, <2>5, SameJobs DEF Removing
  <2> QED BY <2>1, <2>6, <2>7, QuietFormed
<1>4. ASSUME NEW k \in Writers, ReadConfig(k) PROVE CadInv'
  <2> DEFINE table == config[job[k].repo]
  <2>1. /\ crontab' = crontab /\ launchAgents' = launchAgents /\ config' = config /\ record' = record
        /\ phase[k] = "config"
    BY <1>4 DEF ReadConfig, files
  <2>2. table \in Tables BY <2>1, JobRepo DEF Invoked, CadTypes
  <2>3. CASE Abort(k) BY <2>1, <2>3, StopKeeps DEF Abort, CadTypes
  <2>4. CASE /\ want' = [want EXCEPT ![k] = table] /\ UNCHANGED <<job, base>>
             /\ \/ Enter(k, "read") /\ UNCHANGED rest
                \/ Enter(k, "install") /\ rest' = [rest EXCEPT ![k] = EntriesOf(table, "launchd")]
    <3>1. EntriesOf(table, "launchd") \in SUBSET Entries BY <2>2, EntriesAre
    <3>2. PICK p \in {"read", "install"} : phase' = [phase EXCEPT ![k] = p] BY <2>4 DEF Enter
    <3>3. rest' \in [Writers -> SUBSET Entries] BY <2>4, <3>1 DEF CadTypes
    <3> HIDE DEF table
    <3>4. CadTypes' BY <2>1, <2>2, <2>4, <3>2, <3>3 DEF CadTypes, Phases
    <3>5. Invoked' BY <2>1, <2>4, <3>2, SameJobs DEF Removing
    <3> QED BY <2>1, <2>4, <3>4, <3>5, QuietFormed
  <2> QED BY <1>4, <2>3, <2>4 DEF ReadConfig
<1>5. ASSUME NEW k \in Writers, ReadCrontab(k) \/ ReadForRemoval(k) PROVE CadInv'
  <2>1. /\ crontab' = crontab /\ launchAgents' = launchAgents /\ config' = config /\ record' = record
        /\ job' = job /\ want' = want /\ rest' = rest /\ phase[k] # "off"
    BY <1>5 DEF ReadCrontab, ReadForRemoval, files
  <2>2. PICK p \in {"write", "strip"} :
          phase' = [phase EXCEPT ![k] = p] /\ (p \in Removing <=> phase[k] \in Removing)
    BY <1>5 DEF ReadCrontab, ReadForRemoval, Enter, Removing
  <2>3. base' = [base EXCEPT ![k] = crontab] \/ base' = [base EXCEPT ![k] = <<>>]
    BY <1>5 DEF ReadCrontab, ReadForRemoval, CrontabRead
  <2>4. CadTypes' BY <2>1, <2>2, <2>3, NothingFormed DEF CadTypes, Phases
  <2>5. Invoked' BY <2>1, <2>2, SameJobs
  <2>6. AllFormed'
    <3>1. \A j \in Writers : base'[j] \in {base[j], crontab, <<>>} BY <2>3 DEF CadTypes
    <3> QED BY <2>1, <3>1, NothingFormed DEF AllFormed
  <2> QED BY <2>4, <2>5, <2>6
<1>6. ASSUME NEW k \in Writers, WriteCrontab(k) PROVE CadInv'
  <2>1. CASE Abort(k) /\ UNCHANGED files BY <2>1, StopKeeps DEF Abort, files, CadTypes
  <2>2. CASE /\ crontab' = Merge(base[k], want[k], job[k].repo) /\ Enter(k, "record")
             /\ UNCHANGED <<launchAgents, config, record, plan>>
    <3>1. phase[k] = "write" BY <1>6 DEF WriteCrontab
    <3>2. job[k].repo \in Repos BY <3>1, JobRepo DEF Invoked
    <3>3. base[k] \in Seq(Lines) /\ Formed(base[k]) /\ want[k] \in Tables
      BY DEF CadTypes, AllFormed
    <3>4. crontab' \in Seq(Lines) /\ Formed(crontab') BY <2>2, <3>2, <3>3, MergeFormed
    <3>5. /\ launchAgents' = launchAgents /\ config' = config /\ record' = record
          /\ job' = job /\ base' = base /\ want' = want /\ rest' = rest
          /\ phase' = [phase EXCEPT ![k] = "record"]
      BY <2>2 DEF plan, Enter
    <3>6. CadTypes' BY <3>4, <3>5 DEF CadTypes, Phases
    <3>7. Invoked' BY <3>1, <3>5, SameJobs DEF Removing
    <3>8. AllFormed' BY <3>4, <3>5 DEF AllFormed
    <3> QED BY <3>6, <3>7, <3>8
  <2> QED BY <1>6, <2>1, <2>2 DEF WriteCrontab
<1>7. ASSUME NEW k \in Writers, InstallAgent(k) PROVE CadInv'
  <2>1. PICK e \in rest[k] :
          /\ launchAgents' = [launchAgents EXCEPT ![job[k].repo][e.task] = e.time]
          /\ \/ /\ rest' = [rest EXCEPT ![k] = @ \ {e}]
                /\ IF rest[k] = {e} THEN Enter(k, "record") ELSE UNCHANGED phase
                /\ UNCHANGED <<job, base, want>>
             \/ Abort(k)
    BY <1>7 DEF InstallAgent
  <2>2. crontab' = crontab /\ config' = config /\ record' = record /\ phase[k] = "install"
    BY <1>7 DEF InstallAgent
  <2>3. job[k].repo \in Repos /\ e \in Entries BY <2>2, JobRepo DEF Invoked, CadTypes
  <2>4. launchAgents' \in [Repos -> Tables]
    <3>1. e.task \in Tasks /\ e.time \in Times BY <2>3 DEF Entries
    <3>2. [launchAgents EXCEPT ![job[k].repo][e.task] = e.time] \in [Repos -> Tables]
      BY <2>3, <3>1 DEF CadTypes, Tables
    <3> QED BY <2>1, <3>2
  <2>5. CASE Abort(k) BY <2>2, <2>4, <2>5, StopKeeps DEF Abort, CadTypes
  <2>6. CASE /\ rest' = [rest EXCEPT ![k] = @ \ {e}]
             /\ IF rest[k] = {e} THEN Enter(k, "record") ELSE UNCHANGED phase
             /\ UNCHANGED <<job, base, want>>
    <3>1. phase' = [phase EXCEPT ![k] = "record"] \/ phase' = phase BY <2>6 DEF Enter
    <3>2. CadTypes' BY <2>2, <2>4, <2>6, <3>1 DEF CadTypes, Phases
    <3>3. Invoked' BY <2>2, <2>6, <3>1, SameJobs DEF Removing
    <3> QED BY <2>2, <2>6, <3>2, <3>3, QuietFormed
  <2> QED BY <2>1, <2>5, <2>6
<1>8. ASSUME NEW k \in Writers, WriteRecord(k) PROVE CadInv'
  <2>1. CASE Abort(k) /\ UNCHANGED files BY <2>1, StopKeeps DEF Abort, files, CadTypes
  <2>2. CASE /\ record' = [record EXCEPT ![job[k].repo] = EntriesOf(want[k], job[k].mech)]
             /\ Done(k) /\ UNCHANGED <<crontab, launchAgents, config>>
    <3>1. phase[k] = "record" BY <1>8 DEF WriteRecord
    <3>2. job[k] \in Jobs /\ job[k].repo \in Repos BY <3>1, JobRepo DEF Invoked
    <3>3. CASE job[k].op \in {"sync", "begin"}
      <4>1. job[k].mech \in {"crontab", "launchd"} BY <3>2, <3>3 DEF Jobs
      <4>2. want[k] \in Tables BY DEF CadTypes
      <4>3. EntriesOf(want[k], job[k].mech) \in SUBSET Entries BY <4>1, <4>2, EntriesAre
      <4>4. record' \in [Repos -> (SUBSET Entries) \cup {NoFile}]
        BY <2>2, <3>2, <4>3 DEF CadTypes
      <4> QED BY <2>2, <4>4, StopKeeps DEF Done, CadTypes
    <3>4. job[k].op # "remove" BY <3>1 DEF Invoked, Removing
    <3> QED BY <3>2, <3>3, <3>4 DEF Jobs
  <2> QED BY <1>8, <2>1, <2>2 DEF WriteRecord
<1>9. ASSUME NEW k \in Writers, RemoveAgent(k) PROVE CadInv'
  <2>1. PICK e \in rest[k] :
          /\ launchAgents' = [launchAgents EXCEPT ![job[k].repo][e.task] = NoTime]
          /\ rest' = [rest EXCEPT ![k] = @ \ {e}]
    BY <1>9 DEF RemoveAgent
  <2>2. /\ crontab' = crontab /\ config' = config /\ record' = record /\ phase' = phase
        /\ job' = job /\ base' = base /\ want' = want /\ phase[k] = "remove"
    BY <1>9 DEF RemoveAgent
  <2>3. job[k].repo \in Repos /\ e \in Entries BY <2>2, JobRepo DEF Invoked, CadTypes
  <2>4. [launchAgents EXCEPT ![job[k].repo][e.task] = NoTime] \in [Repos -> Tables]
    BY <2>3 DEF CadTypes, Tables
  <2>5. CadTypes' BY <2>1, <2>2, <2>4 DEF CadTypes
  <2>6. Invoked' BY <2>2 DEF Invoked
  <2> QED BY <2>2, <2>5, <2>6, QuietFormed
<1>10. ASSUME NEW k \in Writers, StripEntry(k) PROVE CadInv'
  <2>1. CASE Abort(k) /\ UNCHANGED files BY <2>1, StopKeeps DEF Abort, files, CadTypes
  <2>2. ASSUME NEW e \in rest[k], crontab' = Strip(base[k], {Label(job[k].repo, e.task)}),
               rest' = [rest EXCEPT ![k] = @ \ {e}], Enter(k, "remove"),
               UNCHANGED <<launchAgents, config, record, job, base, want>>
        PROVE  CadInv'
    <3>1. phase[k] = "strip" BY <1>10 DEF StripEntry
    <3>2. base[k] \in Seq(Lines) /\ Formed(base[k]) BY DEF CadTypes, AllFormed
    <3>3. crontab' \in Seq(Lines) /\ Formed(crontab') BY <2>2, <3>2, StripFormed
    <3>4. phase' = [phase EXCEPT ![k] = "remove"] BY <2>2 DEF Enter
    <3>5. CadTypes' BY <2>2, <3>3, <3>4 DEF CadTypes, Phases
    <3>6. Invoked' BY <2>2, <3>1, <3>4, SameJobs DEF Removing
    <3>7. AllFormed' BY <2>2, <3>3 DEF AllFormed
    <3> QED BY <3>5, <3>6, <3>7
  <2> QED BY <1>10, <2>1, <2>2 DEF StripEntry
<1>11. ASSUME NEW k \in Writers, DeleteRecord(k) PROVE CadInv'
  <2>1. CASE Abort(k) /\ UNCHANGED files BY <2>1, StopKeeps DEF Abort, files, CadTypes
  <2>2. CASE /\ record' = [record EXCEPT ![job[k].repo] = NoFile] /\ Done(k)
             /\ UNCHANGED <<crontab, launchAgents, config>>
    <3>1. record' \in [Repos -> (SUBSET Entries) \cup {NoFile}] BY <2>2 DEF CadTypes
    <3> QED BY <2>2, <3>1, StopKeeps DEF Done, CadTypes
  <2> QED BY <1>11, <2>1, <2>2 DEF DeleteRecord
<1>12. ASSUME NEW r \in Repos, EditConfig(r) PROVE CadInv'
  <2>1. PICK t \in Declared(config[r]) : \E time \in Times \cup {NoTime} :
               config' = [config EXCEPT ![r][t] = time]
    BY <1>12 DEF EditConfig
  <2>2. t \in Tasks BY DEF Declared
  <2>3. config' \in [Repos -> Tables] BY <2>1, <2>2 DEF CadTypes, Tables
  <2>4. /\ crontab' = crontab /\ launchAgents' = launchAgents /\ record' = record
        /\ job' = job /\ base' = base /\ want' = want /\ rest' = rest /\ phase' = phase
    BY <1>12 DEF EditConfig, plan
  <2> QED BY <2>3, <2>4, QuietFormed DEF CadTypes, Invoked
<1>13. ASSUME EditCrontab PROVE CadInv'
  <2>1. PICK u \in UserLines : crontab' = Append(crontab, UserLine(u)) BY <1>13 DEF EditCrontab
  <2>2. /\ launchAgents' = launchAgents /\ config' = config /\ record' = record
        /\ job' = job /\ base' = base /\ want' = want /\ rest' = rest /\ phase' = phase
    BY <1>13 DEF EditCrontab, plan
  <2>3. crontab' \in Seq(Lines) /\ Formed(crontab') BY <2>1, UserFormed DEF CadTypes, AllFormed
  <2> QED BY <2>2, <2>3 DEF CadTypes, Invoked, AllFormed
<1> QED BY <1>1, <1>2, <1>3, <1>4, <1>5, <1>6, <1>7, <1>8, <1>9, <1>10, <1>11, <1>12, <1>13
       DEF CadNext

LEMMA CadInvHolds == CadSpec => []CadInv
<1>1. CadInit => CadInv BY CadInitInv, CadenceAssumption
<1>2. CadInv /\ [CadNext]_cadVars => CadInv'
  <2> SUFFICES ASSUME CadInv, [CadNext]_cadVars PROVE CadInv' OBVIOUS
  <2>1. CASE CadNext BY <2>1, CadNextInv, CadenceAssumption
  <2>2. CASE UNCHANGED cadVars
    BY <2>2 DEF cadVars, files, plan, CadInv, CadTypes, Invoked, AllFormed
  <2> QED BY <2>1, <2>2
<1> QED BY <1>1, <1>2, PTL DEF CadSpec

\* Whatever commands overlap, fail or die, every marker in the crontab has its
\* job under it and no label is there twice (merge, remove_crontab_entry).
THEOREM CrontabFormed == CadSpec => []WellFormed
<1>1. CadInv => WellFormed BY DEF CadInv, AllFormed, Formed, Paired, MarkersOnce, WellFormed
<1> QED BY <1>1, CadInvHolds, PTL

-----------------------------------------------------------------------------
(* The lines of others.                                                    *)

Sieves(lines, labels, m, X) ==
  {g \in [0..m -> Seq(X)] :
     \A n \in 0..m : g[n] = IF n = 0 THEN <<>>
                            ELSE IF lines[n].label \in labels THEN g[n - 1]
                                 ELSE Append(g[n - 1], lines[n])}

LEMMA SievesExist ==
  ASSUME NEW X, NEW lines \in Seq(X), NEW labels
  PROVE  \A m \in 0..Len(lines) : Sieves(lines, labels, m, X) # {}
<1> DEFINE None == {m \in Nat : m <= Len(lines) /\ Sieves(lines, labels, m, X) = {}}
<1>0. Len(lines) \in Nat OBVIOUS
<1>1. SUFFICES ASSUME None # {} PROVE FALSE BY <1>0
<1>2. PICK m \in None : \A j \in None : ~ (j < m) BY <1>1, LeastOf
<1>3. m # 0
  <2> DEFINE g == [n \in 0..0 |-> <<>>]
  <2>1. <<>> \in Seq(X) OBVIOUS
  <2>2. g \in [0..0 -> Seq(X)] BY <2>1
  <2>3. \A n \in 0..0 : n = 0 /\ g[n] = <<>> OBVIOUS
  <2>4. g \in Sieves(lines, labels, 0, X) BY <2>2, <2>3, Zenon DEF Sieves
  <2> QED BY <2>4, <1>2
<1>4. m \in Nat /\ m <= Len(lines) /\ m - 1 \in Nat /\ m - 1 \notin None BY <1>2, <1>3
<1>5. PICK g : g \in Sieves(lines, labels, m - 1, X) BY <1>0, <1>4
<1> DEFINE last == IF lines[m].label \in labels THEN g[m - 1] ELSE Append(g[m - 1], lines[m])
           h == [n \in 0..m |-> IF n = m THEN last ELSE g[n]]
<1>6. g \in [0..(m - 1) -> Seq(X)]
      /\ \A n \in 0..(m - 1) : g[n] = IF n = 0 THEN <<>>
                                      ELSE IF lines[n].label \in labels THEN g[n - 1]
                                           ELSE Append(g[n - 1], lines[n])
  BY <1>5 DEF Sieves
<1>7. last \in Seq(X)
  <2>1. lines[m] \in X BY <1>0, <1>3, <1>4
  <2>2. g[m - 1] \in Seq(X) BY <1>4, <1>6
  <2> QED BY <2>1, <2>2
<1>8. h \in [0..m -> Seq(X)]
  <2>1. \A n \in 0..m : n # m => n \in 0..(m - 1) BY <1>4
  <2> HIDE DEF last
  <2> QED BY <2>1, <1>6, <1>7
<1>9. ASSUME NEW n \in 0..m
      PROVE  h[n] = IF n = 0 THEN <<>>
                    ELSE IF lines[n].label \in labels THEN h[n - 1] ELSE Append(h[n - 1], lines[n])
  <2>1. CASE n = m
    <3>1. h[m - 1] = g[m - 1] BY <1>4
    <3> QED BY <2>1, <3>1, <1>3
  <2>2. CASE n # m
    <3>1. n \in 0..(m - 1) BY <2>2, <1>4
    <3>2. h[n] = g[n] BY <2>2
    <3>3. n # 0 => n - 1 \in 0..m /\ n - 1 # m /\ h[n - 1] = g[n - 1] BY <1>4, <3>1
    <3> QED BY <3>1, <3>2, <3>3, <1>6
  <2> QED BY <2>1, <2>2
<1>10. h \in Sieves(lines, labels, m, X) BY <1>8, <1>9 DEF Sieves
<1> QED BY <1>10, <1>2

LEMMA OutsideIs ==
  ASSUME NEW X, NEW lines \in Seq(X), NEW labels
  PROVE  LET f == Outside(lines, labels) IN
         /\ f[0] = <<>>
         /\ \A n \in 1..Len(lines) :
              f[n] = IF lines[n].label \in labels THEN f[n - 1] ELSE Append(f[n - 1], lines[n])
<1> DEFINE F(f) == [n \in 0..Len(lines) |->
                     IF n = 0 THEN <<>>
                     ELSE IF lines[n].label \in labels THEN f[n - 1] ELSE Append(f[n - 1], lines[n])]
<1>1. Outside(lines, labels) = CHOOSE f : f = F(f) BY DEF Outside
<1>2. PICK g : g \in Sieves(lines, labels, Len(lines), X)
  <2>1. Len(lines) \in 0..Len(lines) OBVIOUS
  <2> QED BY <2>1, SievesExist
<1>3. g \in [0..Len(lines) -> Seq(X)]
      /\ \A n \in 0..Len(lines) : g[n] = IF n = 0 THEN <<>>
                                         ELSE IF lines[n].label \in labels THEN g[n - 1]
                                              ELSE Append(g[n - 1], lines[n])
  BY <1>2, Zenon DEF Sieves
<1>4. g = F(g) BY <1>3
<1>5. Outside(lines, labels) = F(Outside(lines, labels)) BY <1>1, <1>4, Zenon
<1> DEFINE f == Outside(lines, labels)
<1>6. \A n \in 0..Len(lines) :
        f[n] = IF n = 0 THEN <<>>
               ELSE IF lines[n].label \in labels THEN f[n - 1] ELSE Append(f[n - 1], lines[n])
  BY <1>5, Zenon
<1> HIDE DEF f
<1>7. Len(lines) \in Nat OBVIOUS
<1>8. 0 \in 0..Len(lines) /\ \A n \in 1..Len(lines) : n \in 0..Len(lines) /\ n # 0 BY <1>7
<1>9. f[0] = <<>> BY <1>6, <1>8, Zenon
<1>10. \A n \in 1..Len(lines) :
         f[n] = IF lines[n].label \in labels THEN f[n - 1] ELSE Append(f[n - 1], lines[n])
  BY <1>6, <1>8, Zenon
<1> QED BY <1>9, <1>10 DEF f

\* What lines with these labels come to be: the others of a crontab do not
\* depend on what is under it.
LEMMA OutsidePrefix ==
  ASSUME NEW X, NEW a \in Seq(X), NEW s \in Seq(X), NEW labels, Len(a) <= Len(s),
         \A i \in 1..Len(a) : s[i] = a[i]
  PROVE  Outside(s, labels)[Len(a)] = Outside(a, labels)[Len(a)]
<1> DEFINE f == Outside(a, labels)
           g == Outside(s, labels)
           Bad == {n \in Nat : n <= Len(a) /\ g[n] # f[n]}
<1>0. Len(a) \in Nat /\ Len(s) \in Nat OBVIOUS
<1>1. f[0] = <<>> /\ \A n \in 1..Len(a) :
        f[n] = IF a[n].label \in labels THEN f[n - 1] ELSE Append(f[n - 1], a[n])
  BY OutsideIs
<1>2. g[0] = <<>> /\ \A n \in 1..Len(s) :
        g[n] = IF s[n].label \in labels THEN g[n - 1] ELSE Append(g[n - 1], s[n])
  BY OutsideIs
<1> HIDE DEF f, g
<1>3. Bad = {}
  <2> SUFFICES ASSUME Bad # {} PROVE FALSE OBVIOUS
  <2>1. PICK m \in Bad : \A j \in Bad : ~ (j < m)
    <3>1. Bad \in SUBSET Nat OBVIOUS
    <3> QED BY <3>1, LeastOf
  <2>2. m \in Nat /\ m <= Len(a) /\ m # 0 BY <1>1, <1>2, <2>1
  <2>3. m \in 1..Len(a) /\ m \in 1..Len(s) /\ m - 1 \in Nat /\ m - 1 <= Len(a) /\ m - 1 < m
    BY <1>0, <2>2
  <2>4. g[m - 1] = f[m - 1] BY <2>1, <2>3
  <2>5. s[m] = a[m] BY <2>3
  <2>6. g[m] = f[m] BY <1>1, <1>2, <2>3, <2>4, <2>5
  <2> QED BY <2>1, <2>6
<1> QED BY <1>0, <1>3 DEF f, g

LEMMA OutsideAppend ==
  ASSUME NEW X, NEW a \in Seq(X), NEW x \in X, NEW labels
  PROVE  LET s == Append(a, x) IN
         Outside(s, labels)[Len(s)] =
           IF x.label \in labels THEN Outside(a, labels)[Len(a)]
           ELSE Append(Outside(a, labels)[Len(a)], x)
<1> DEFINE s == Append(a, x)
<1>1. /\ s \in Seq(X) /\ Len(s) = Len(a) + 1 /\ Len(a) \in Nat
      /\ s[Len(s)] = x /\ \A i \in 1..Len(a) : s[i] = a[i]
  OBVIOUS
<1> HIDE DEF s
<1>2. Outside(s, labels)[Len(a)] = Outside(a, labels)[Len(a)] BY <1>1, OutsidePrefix
<1>3. Len(s) \in 1..Len(s) /\ Len(s) - 1 = Len(a) BY <1>1
<1>4. Outside(s, labels)[Len(s)] =
        IF s[Len(s)].label \in labels THEN Outside(s, labels)[Len(s) - 1]
        ELSE Append(Outside(s, labels)[Len(s) - 1], s[Len(s)])
  BY <1>1, <1>3, OutsideIs
<1> QED BY <1>1, <1>2, <1>3, <1>4 DEF s

\* Lines with these labels at the end change nothing.
LEMMA OutsideJoin ==
  ASSUME NEW X, NEW a \in Seq(X), NEW b \in Seq(X), NEW labels,
         \A i \in 1..Len(b) : b[i].label \in labels
  PROVE  LET s == a \o b IN
         Outside(s, labels)[Len(s)] = Outside(a, labels)[Len(a)]
<1> DEFINE s == a \o b
           g == Outside(s, labels)
           Bad == {n \in Nat : n <= Len(b) /\ g[Len(a) + n] # Outside(a, labels)[Len(a)]}
<1>1. /\ s \in Seq(X) /\ Len(s) = Len(a) + Len(b) /\ Len(a) \in Nat /\ Len(b) \in Nat
      /\ \A i \in 1..Len(a) : s[i] = a[i]
      /\ \A i \in 1..Len(b) : s[Len(a) + i] = b[i]
  OBVIOUS
<1> HIDE DEF s
<1>2. g[Len(a)] = Outside(a, labels)[Len(a)] BY <1>1, OutsidePrefix
<1>3. \A n \in 1..Len(s) : g[n] = IF s[n].label \in labels THEN g[n - 1] ELSE Append(g[n - 1], s[n])
  BY <1>1, OutsideIs
<1> HIDE DEF g
<1>4. Bad = {}
  <2> SUFFICES ASSUME Bad # {} PROVE FALSE OBVIOUS
  <2>1. PICK m \in Bad : \A j \in Bad : ~ (j < m)
    <3>1. Bad \in SUBSET Nat OBVIOUS
    <3> QED BY <3>1, LeastOf
  <2>2. m # 0 BY <1>1, <1>2, <2>1
  <2>3. m \in 1..Len(b) /\ m - 1 \in Nat /\ m - 1 <= Len(b) /\ m - 1 < m BY <1>1, <2>1, <2>2
  <2>4. g[Len(a) + (m - 1)] = Outside(a, labels)[Len(a)] BY <2>1, <2>3
  <2>5. Len(a) + m \in 1..Len(s) /\ Len(a) + m - 1 = Len(a) + (m - 1) BY <1>1, <2>3
  <2>6. s[Len(a) + m].label \in labels BY <1>1, <2>3
  <2>7. g[Len(a) + m] = g[Len(a) + (m - 1)] BY <1>3, <2>5, <2>6
  <2> QED BY <2>1, <2>4, <2>7
<1>5. g[Len(a) + Len(b)] = Outside(a, labels)[Len(a)]
  <2>1. Len(b) \notin Bad BY <1>4
  <2> QED BY <1>1, <2>1
<1> QED BY <1>1, <1>5 DEF s, g

\* Taking markers and the lines after them out of a well-formed crontab takes
\* only lines with those labels.
LEMMA StripOutside ==
  ASSUME NEW X, NEW lines \in Seq(X), NEW ours, NEW labels, ours \subseteq labels, Formed(lines)
  PROVE  LET out == Strip(lines, ours) IN
         Outside(out, labels)[Len(out)] = Outside(lines, labels)[Len(lines)]
<1> DEFINE f == StripLoop(lines, ours)
           g == Outside(lines, labels)
           N == Len(lines)
           same(n) == Outside(f[n].out, labels)[Len(f[n].out)] = g[n]
           skips(n) == SkipIs(lines, ours, n, f[n].skip)
           Bad == {n \in Nat : n <= N /\ ~ (same(n) /\ skips(n))}
<1>0. N \in Nat OBVIOUS
<1>1. f \in [0..N -> [out : Seq(X), skip : BOOLEAN]] /\ f[0] = [out |-> <<>>, skip |-> FALSE]
      /\ \A n \in 1..N : f[n] = StripLine(f[n - 1], lines[n], ours)
  BY StripLoopIs
<1>2. g[0] = <<>> /\ \A n \in 1..N :
        g[n] = IF lines[n].label \in labels THEN g[n - 1] ELSE Append(g[n - 1], lines[n])
  BY OutsideIs
<1>3. Outside(<<>>, labels)[0] = <<>>
  <2>1. <<>> \in Seq(X) OBVIOUS
  <2> QED BY <2>1, OutsideIs
<1> HIDE DEF f, g
<1>4. same(0) /\ skips(0)
  <2>1. f[0].out = <<>> /\ f[0].skip = FALSE /\ Len(<<>>) = 0 BY <1>1
  <2>2. same(0) BY <1>2, <1>3, <2>1, Zenon
  <2> QED BY <2>1, <2>2 DEF SkipIs
<1>5. ASSUME NEW n \in 1..N, same(n - 1), skips(n - 1) PROVE same(n) /\ skips(n)
  <2> DEFINE line == lines[n]
             before == lines[n - 1]
             acc == f[n - 1]
             mine == line.kind = "marker" /\ line.label \in ours
  <2>0. n \in Nat /\ n > 0 /\ n - 1 \in 0..N /\ line \in X BY <1>0
  <2>1. acc \in [out : Seq(X), skip : BOOLEAN] /\ f[n] = StripLine(acc, line, ours)
        /\ line \in X /\ n \in Nat /\ n > 0
    BY <1>1, <2>0
  <2>2. acc.skip <=> (n > 1 /\ before.kind = "marker" /\ before.label \in ours)
    BY <1>5, <2>1 DEF SkipIs
  <2>3. (n > 1 /\ before.kind = "marker") => (line.kind = "job" /\ line.label = before.label)
    BY <1>0 DEF Formed, Paired
  <2>4. CASE acc.skip
    <3>1. f[n].out = acc.out /\ f[n].skip = FALSE BY <2>1, <2>4 DEF StripLine
    <3>2. line.kind = "job" /\ line.label \in labels BY <2>2, <2>3, <2>4
    <3>3. g[n] = g[n - 1] BY <1>2, <3>2
    <3>4. same(n) BY <1>5, <3>1, <3>3, Zenon
    <3>5. skips(n) BY <3>1, <3>2 DEF SkipIs
    <3> QED BY <3>4, <3>5
  <2>5. CASE ~ acc.skip /\ mine
    <3>1. f[n].out = acc.out /\ f[n].skip = TRUE BY <2>1, <2>5 DEF StripLine
    <3>2. g[n] = g[n - 1] BY <1>2, <2>5
    <3>3. same(n) BY <1>5, <3>1, <3>2, Zenon
    <3>4. skips(n) BY <2>1, <2>5, <3>1 DEF SkipIs
    <3> QED BY <3>3, <3>4
  <2>6. CASE ~ acc.skip /\ ~ mine
    <3>1. f[n].out = Append(acc.out, line) /\ f[n].skip = FALSE BY <2>1, <2>6 DEF StripLine
    <3>2. acc.out \in Seq(X) BY <2>1
    <3>3. Outside(Append(acc.out, line), labels)[Len(Append(acc.out, line))] =
            IF line.label \in labels THEN Outside(acc.out, labels)[Len(acc.out)]
            ELSE Append(Outside(acc.out, labels)[Len(acc.out)], line)
      BY <2>1, <3>2, OutsideAppend
    <3>4. g[n] = IF line.label \in labels THEN g[n - 1] ELSE Append(g[n - 1], line) BY <1>2
    <3>5. same(n) BY <1>5, <3>1, <3>3, <3>4, Zenon
    <3>6. skips(n) BY <2>6, <3>1 DEF SkipIs
    <3> QED BY <3>5, <3>6
  <2> QED BY <2>4, <2>5, <2>6
<1> HIDE DEF same, skips
<1>6. Bad = {}
  <2> SUFFICES ASSUME Bad # {} PROVE FALSE OBVIOUS
  <2>1. PICK m \in Bad : \A j \in Bad : ~ (j < m)
    <3>1. Bad \in SUBSET Nat OBVIOUS
    <3> QED BY <3>1, LeastOf
  <2>2. m # 0 BY <1>4, <2>1
  <2>3. m \in 1..N /\ m - 1 \in Nat /\ m - 1 <= N /\ m - 1 < m BY <1>0, <2>1, <2>2
  <2>4. same(m - 1) /\ skips(m - 1) BY <2>1, <2>3
  <2>5. same(m) /\ skips(m) BY <1>5, <2>3, <2>4
  <2> QED BY <2>1, <2>5
<1>7. N \notin Bad BY <1>6
<1>8. same(N) BY <1>0, <1>7
<1>9. Strip(lines, ours) = f[N].out BY DEF Strip, f
<1> QED BY <1>8, <1>9, Zenon DEF same, g

\* The markers that merge takes for r's have labels under its tag.
LEMMA OwnIsUnder ==
  ASSUME CadenceAssumption, NEW r \in Repos, NEW s \in Repos, NEW t \in Tasks,
         Own(r, Label(s, t))
  PROVE  Label(s, t) \in Under(r)
<1> DEFINE a == TagOf[r]
           b == TagOf[s]
           Words == STRING \cup Tasks
<1>1. a \in Seq(Words) /\ b \in Seq(Words)
  <2>1. a \in Seq(STRING) /\ b \in Seq(STRING) BY DEF CadenceAssumption
  <2> HIDE DEF a, b
  <2> QED BY <2>1
<1>2. IsPrefix(a, Append(b, t)) /\ a # Append(b, t) BY DEF Own, Label, IsStrictPrefix
<1> HIDE DEF a, b, Words
<1>3. t \in Words BY DEF Words
<1>4. /\ Len(a) \in Nat /\ Len(b) \in Nat /\ Len(Append(b, t)) = Len(b) + 1
      /\ Append(b, t) \in Seq(Words)
  BY <1>1, <1>3
<1>5. Len(a) <= Len(b) + 1 /\ SubSeq(a, 1, Len(a)) = SubSeq(Append(b, t), 1, Len(a))
  BY <1>2, <1>4 DEF IsPrefix
<1>6. Len(a) # Len(b) + 1
  <2> SUFFICES ASSUME Len(a) = Len(b) + 1 PROVE FALSE OBVIOUS
  <2>1. SubSeq(a, 1, Len(a)) = a BY <1>1
  <2>2. SubSeq(Append(b, t), 1, Len(b) + 1) = Append(b, t) BY <1>4
  <2> QED BY <1>2, <1>5, <2>1, <2>2
<1>7. Len(a) <= Len(b) BY <1>4, <1>5, <1>6
<1>8. SubSeq(Append(b, t), 1, Len(a)) = SubSeq(b, 1, Len(a)) BY <1>1, <1>3, <1>4, <1>7
<1>9. IsPrefix(a, b) BY <1>5, <1>7, <1>8 DEF IsPrefix
<1>10. IsPrefix(TagOf[r], TagOf[s]) BY <1>9 DEF a, b
<1> DEFINE near == {q \in Repos : IsPrefix(TagOf[r], TagOf[q])}
<1>11. s \in near BY <1>10
<1>12. Under(r) = {Label(q, u) : q \in near, u \in Tasks} BY DEF Under
<1> HIDE DEF near
<1> QED BY <1>11, <1>12

LEMMA LabelIsUnder ==
  ASSUME CadenceAssumption, NEW r \in Repos, NEW t \in Tasks
  PROVE  Label(r, t) \in Under(r)
BY OwnLabel, OwnIsUnder

LEMMA MergeForeign ==
  ASSUME CadenceAssumption, NEW lines \in Seq(Lines), Formed(lines),
         NEW r \in Repos, NEW table \in Tables
  PROVE  Foreign(r, Merge(lines, table, r)) = Foreign(r, lines)
<1> DEFINE ours == {label \in Labels : Own(r, label)}
           kept == Strip(lines, ours)
           gen == Generated(r, table)
           mine == Under(r)
<1>1. kept \in Seq(Lines) BY StripFormed
<1>2. gen \in Seq(Lines) BY GeneratedLines
<1>3. \A i \in 1..Len(gen) : gen[i].label \in mine BY GeneratedFormed, LabelIsUnder
<1>4. ours \subseteq mine BY OwnIsUnder DEF Labels
<1>5. Merge(lines, table, r) = kept \o gen BY DEF Merge
<1>6. Outside(kept, mine)[Len(kept)] = Outside(lines, mine)[Len(lines)] BY <1>4, StripOutside
<1> HIDE DEF kept, gen, mine
<1>7. Outside(kept \o gen, mine)[Len(kept \o gen)] = Outside(kept, mine)[Len(kept)]
  BY <1>1, <1>2, <1>3, OutsideJoin
<1> QED BY <1>5, <1>6, <1>7 DEF Foreign, mine

\* What a command that writes back the crontab it read does to the lines of the
\* user and of repositories under other tags: nothing (merge, remove_crontab_entry).
THEOREM OthersKept == CadSpec => OthersSurvive
<1>1. CadInv /\ [CadNext]_cadVars =>
        [\A k \in Writers :
           (/\ phase[k] \in {"write", "strip"} /\ phase'[k] \in {"record", "remove"}
            /\ base[k] = crontab)
           => Foreign(job[k].repo, crontab') = Foreign(job[k].repo, crontab)]_cadVars
  <2> SUFFICES ASSUME CadInv, CadNext, NEW k \in Writers,
                      phase[k] \in {"write", "strip"}, phase'[k] \in {"record", "remove"},
                      base[k] = crontab
      PROVE  Foreign(job[k].repo, crontab') = Foreign(job[k].repo, crontab)
    OBVIOUS
  <2>1. CadenceAssumption BY CadenceAssumption
  <2>2. job[k] \in Jobs /\ job[k].repo \in Repos BY JobRepo DEF CadInv, Invoked
  <2>3. crontab \in Seq(Lines) /\ Formed(crontab) /\ want[k] \in Tables /\ rest[k] \in SUBSET Entries
    BY DEF CadInv, CadTypes, AllFormed
  <2>4. crontab' = crontab \/ WriteCrontab(k) \/ StripEntry(k)
    <3> SUFFICES ASSUME crontab' # crontab PROVE WriteCrontab(k) \/ StripEntry(k) OBVIOUS
    <3>1. phase \in [Writers -> Phases] BY DEF CadInv, CadTypes
    <3>2. ~ EditCrontab BY <3>1 DEF EditCrontab
    <3>3. PICK j \in Writers : WriteCrontab(j) \/ StripEntry(j)
      BY <3>2 DEF CadNext, Run, Dies, Upsert, ReadConfig, ReadCrontab, WriteCrontab, InstallAgent,
                  WriteRecord, RemoveAgent, ReadForRemoval, StripEntry, DeleteRecord, EditConfig, files
    <3>4. j = k
      <4>1. PICK where : phase' = [phase EXCEPT ![j] = where]
        BY <3>3 DEF WriteCrontab, StripEntry, Enter, Abort, Stop
      <4>2. phase'[k] # phase[k] OBVIOUS
      <4> QED BY <3>1, <4>1, <4>2
    <3> QED BY <3>3, <3>4
  <2>5. CASE WriteCrontab(k)
    <3>1. crontab' = Merge(base[k], want[k], job[k].repo) \/ UNCHANGED files
      BY <2>5 DEF WriteCrontab
    <3> QED BY <2>1, <2>2, <2>3, <3>1, MergeForeign DEF files
  <2>6. CASE StripEntry(k)
    <3>1. ASSUME NEW e \in rest[k], crontab' = Strip(base[k], {Label(job[k].repo, e.task)})
          PROVE  Foreign(job[k].repo, crontab') = Foreign(job[k].repo, crontab)
      <4>1. e.task \in Tasks BY <2>3 DEF Entries
      <4>2. Label(job[k].repo, e.task) \in Under(job[k].repo) BY <2>1, <2>2, <4>1, LabelIsUnder
      <4>3. {Label(job[k].repo, e.task)} \subseteq Under(job[k].repo) BY <4>2
      <4> QED BY <2>3, <3>1, <4>3, StripOutside DEF Foreign
    <3>2. UNCHANGED files \/ \E e \in rest[k] : crontab' = Strip(base[k], {Label(job[k].repo, e.task)})
      BY <2>6 DEF StripEntry
    <3> QED BY <3>1, <3>2 DEF files
  <2> QED BY <2>4, <2>5, <2>6
<1> QED BY <1>1, CadInvHolds, PTL DEF CadSpec, OthersSurvive

-----------------------------------------------------------------------------
(* What a crontab schedules.                                               *)

CronEntries == [task : Tasks, mech : {"crontab"}, time : Times]

\* Behind n lines every job seen is kept, unless its label is ours.
JobsSeen(lines, ours, n, out) ==
  \A x : x.kind = "job" =>
    ((\E i \in 1..Len(out) : out[i] = x) <=> (x.label \notin ours /\ \E j \in 1..n : lines[j] = x))

LEMMA AppendRange ==
  ASSUME NEW X, NEW a \in Seq(X), NEW y \in X
  PROVE  \A x : (\E i \in 1..Len(Append(a, y)) : Append(a, y)[i] = x)
                 <=> (x = y \/ \E i \in 1..Len(a) : a[i] = x)
<1> DEFINE new == Append(a, y)
<1>1. Len(new) = Len(a) + 1 /\ Len(a) \in Nat /\ new[Len(a) + 1] = y
      /\ \A i \in 1..Len(a) : new[i] = a[i]
  OBVIOUS
<1> HIDE DEF new
<1> SUFFICES ASSUME NEW x
    PROVE  (\E i \in 1..Len(new) : new[i] = x) <=> (x = y \/ \E i \in 1..Len(a) : a[i] = x)
  BY DEF new
<1>2. ASSUME NEW i \in 1..Len(new), new[i] = x PROVE x = y \/ \E j \in 1..Len(a) : a[j] = x
  <2>1. i = Len(a) + 1 \/ i \in 1..Len(a) BY <1>1
  <2> QED BY <1>1, <1>2, <2>1
<1>3. ASSUME x = y PROVE \E i \in 1..Len(new) : new[i] = x
  <2>1. Len(a) + 1 \in 1..Len(new) BY <1>1
  <2> QED BY <1>1, <1>3, <2>1
<1>4. ASSUME NEW j \in 1..Len(a), a[j] = x PROVE \E i \in 1..Len(new) : new[i] = x
  <2>1. j \in 1..Len(new) BY <1>1
  <2> QED BY <1>1, <1>4, <2>1
<1> QED BY <1>2, <1>3, <1>4

LEMMA StripJobs ==
  ASSUME NEW X, NEW lines \in Seq(X), NEW ours, Formed(lines)
  PROVE  JobsSeen(lines, ours, Len(lines), Strip(lines, ours))
<1> DEFINE f == StripLoop(lines, ours)
           N == Len(lines)
           seen(n) == JobsSeen(lines, ours, n, f[n].out)
           skips(n) == SkipIs(lines, ours, n, f[n].skip)
           Bad == {n \in Nat : n <= N /\ ~ (seen(n) /\ skips(n))}
<1>0. N \in Nat OBVIOUS
<1>1. f \in [0..N -> [out : Seq(X), skip : BOOLEAN]] /\ f[0] = [out |-> <<>>, skip |-> FALSE]
      /\ \A n \in 1..N : f[n] = StripLine(f[n - 1], lines[n], ours)
  BY StripLoopIs
<1> HIDE DEF f
<1>4. seen(0) /\ skips(0)
  <2>1. f[0].out = <<>> /\ f[0].skip = FALSE BY <1>1
  <2>2. seen(0) BY <2>1 DEF JobsSeen
  <2> QED BY <2>1, <2>2 DEF SkipIs
<1>5. ASSUME NEW n \in 1..N, seen(n - 1), skips(n - 1) PROVE seen(n) /\ skips(n)
  <2> DEFINE line == lines[n]
             before == lines[n - 1]
             acc == f[n - 1]
             mine == line.kind = "marker" /\ line.label \in ours
  <2>0. n \in Nat /\ n > 0 /\ n - 1 \in 0..N /\ line \in X BY <1>0
  <2>1. acc \in [out : Seq(X), skip : BOOLEAN] /\ f[n] = StripLine(acc, line, ours)
    BY <1>1, <2>0
  <2>2. acc.skip <=> (n > 1 /\ before.kind = "marker" /\ before.label \in ours)
    BY <1>5, <2>0 DEF SkipIs
  <2>3. /\ (n > 1 /\ before.kind = "marker") => (line.kind = "job" /\ line.label = before.label)
        /\ line.kind = "job" => (n > 1 /\ before.kind = "marker")
    BY <1>0 DEF Formed, Paired
  <2>4. \A x : (\E j \in 1..n : lines[j] = x) <=> (x = line \/ \E j \in 1..(n - 1) : lines[j] = x)
    BY <2>0
  <2>5. \A x : x.kind = "job" => ((\E i \in 1..Len(acc.out) : acc.out[i] = x)
                                   <=> (x.label \notin ours /\ \E j \in 1..(n - 1) : lines[j] = x))
    BY <1>5 DEF JobsSeen
  <2>6. CASE acc.skip
    <3>1. f[n].out = acc.out /\ f[n].skip = FALSE BY <2>1, <2>6 DEF StripLine
    <3>2. line.kind = "job" /\ line.label \in ours BY <2>2, <2>3, <2>6
    <3>3. seen(n) BY <2>4, <2>5, <3>1, <3>2 DEF JobsSeen
    <3>4. skips(n) BY <3>1, <3>2 DEF SkipIs
    <3> QED BY <3>3, <3>4
  <2>7. CASE ~ acc.skip /\ mine
    <3>1. f[n].out = acc.out /\ f[n].skip = TRUE BY <2>1, <2>7 DEF StripLine
    <3>2. seen(n) BY <2>4, <2>5, <2>7, <3>1 DEF JobsSeen
    <3>3. skips(n) BY <2>0, <2>7, <3>1 DEF SkipIs
    <3> QED BY <3>2, <3>3
  <2>8. CASE ~ acc.skip /\ ~ mine
    <3>1. f[n].out = Append(acc.out, line) /\ f[n].skip = FALSE BY <2>1, <2>8 DEF StripLine
    <3>2. acc.out \in Seq(X) BY <2>1
    <3>3. line.kind = "job" => line.label \notin ours BY <2>2, <2>3, <2>8
    <3>3a. line \in X BY <2>0
    <3>4. \A x : (\E i \in 1..Len(f[n].out) : f[n].out[i] = x)
                   <=> (x = line \/ \E i \in 1..Len(acc.out) : acc.out[i] = x)
      <4> HIDE DEF acc, line
      <4>1. \A x : (\E i \in 1..Len(Append(acc.out, line)) : Append(acc.out, line)[i] = x)
                     <=> (x = line \/ \E i \in 1..Len(acc.out) : acc.out[i] = x)
        BY <3>2, <3>3a, AppendRange
      <4> QED BY <3>1, <4>1, Zenon
    <3>5. seen(n) BY <2>4, <2>5, <3>3, <3>4 DEF JobsSeen
    <3>6. skips(n) BY <2>8, <3>1 DEF SkipIs
    <3> QED BY <3>5, <3>6
  <2> QED BY <2>6, <2>7, <2>8
<1> HIDE DEF seen, skips
<1>6. Bad = {}
  <2> SUFFICES ASSUME Bad # {} PROVE FALSE OBVIOUS
  <2>1. PICK m \in Bad : \A j \in Bad : ~ (j < m)
    <3>1. Bad \in SUBSET Nat OBVIOUS
    <3> QED BY <3>1, LeastOf
  <2>2. m # 0 BY <1>4, <2>1
  <2>3. m \in 1..N /\ m - 1 \in Nat /\ m - 1 <= N /\ m - 1 < m BY <1>0, <2>1, <2>2
  <2>4. seen(m - 1) /\ skips(m - 1) BY <2>1, <2>3
  <2>5. seen(m) /\ skips(m) BY <1>5, <2>3, <2>4
  <2> QED BY <2>1, <2>5
<1>7. N \notin Bad BY <1>6
<1>8. seen(N) BY <1>0, <1>7
<1>9. Strip(lines, ours) = f[N].out BY DEF Strip, f
<1> QED BY <1>8, <1>9, Zenon DEF seen

LEMMA InLinesIs ==
  ASSUME NEW X, NEW lines \in Seq(X), NEW r, NEW e
  PROVE  e \in InLines(r, lines)
           <=> (e \in CronEntries /\ \E i \in 1..Len(lines) : lines[i] = Job(Label(r, e.task), e.time))
<1>1. DOMAIN lines = 1..Len(lines) OBVIOUS
<1> QED BY <1>1 DEF InLines, CronEntries, Range

LEMMA InStripped ==
  ASSUME NEW X, NEW lines \in Seq(X), NEW ours, Formed(lines), NEW r, NEW e
  PROVE  e \in InLines(r, Strip(lines, ours)) <=> (e \in InLines(r, lines) /\ Label(r, e.task) \notin ours)
<1> DEFINE out == Strip(lines, ours)
           x == Job(Label(r, e.task), e.time)
<1>1. out \in Seq(X) BY StripFormed
<1>2. x.kind = "job" /\ x.label = Label(r, e.task) BY DEF Job
<1>3. (\E i \in 1..Len(out) : out[i] = x)
        <=> (x.label \notin ours /\ \E j \in 1..Len(lines) : lines[j] = x)
  BY <1>2, StripJobs DEF JobsSeen
<1> HIDE DEF out, x
<1>4. e \in InLines(r, out) <=> (e \in CronEntries /\ \E i \in 1..Len(out) : out[i] = x)
  BY <1>1, InLinesIs DEF x
<1>5. e \in InLines(r, lines) <=> (e \in CronEntries /\ \E i \in 1..Len(lines) : lines[i] = x)
  BY InLinesIs DEF x
<1> QED BY <1>2, <1>3, <1>4, <1>5 DEF out

LEMMA InJoined ==
  ASSUME NEW X, NEW a \in Seq(X), NEW b \in Seq(X), NEW r, NEW e
  PROVE  e \in InLines(r, a \o b) <=> (e \in InLines(r, a) \/ e \in InLines(r, b))
<1> DEFINE s == a \o b
           x == Job(Label(r, e.task), e.time)
<1>1. /\ s \in Seq(X) /\ Len(s) = Len(a) + Len(b) /\ Len(a) \in Nat /\ Len(b) \in Nat
      /\ \A i \in 1..Len(a) : s[i] = a[i]
      /\ \A i \in 1..Len(b) : s[Len(a) + i] = b[i]
  OBVIOUS
<1> HIDE DEF s, x
<1>2. (\E i \in 1..Len(s) : s[i] = x)
        <=> ((\E i \in 1..Len(a) : a[i] = x) \/ (\E i \in 1..Len(b) : b[i] = x))
  <2>1. ASSUME NEW i \in 1..Len(s), s[i] = x
        PROVE  (\E j \in 1..Len(a) : a[j] = x) \/ (\E j \in 1..Len(b) : b[j] = x)
    <3>1. CASE i \in 1..Len(a) BY <1>1, <2>1, <3>1
    <3>2. CASE i \notin 1..Len(a)
      <4>1. i - Len(a) \in 1..Len(b) /\ Len(a) + (i - Len(a)) = i BY <1>1, <3>2
      <4> QED BY <1>1, <2>1, <4>1
    <3> QED BY <3>1, <3>2
  <2>2. ASSUME NEW i \in 1..Len(a), a[i] = x PROVE \E j \in 1..Len(s) : s[j] = x
    <3>1. i \in 1..Len(s) BY <1>1
    <3> QED BY <1>1, <2>2, <3>1
  <2>3. ASSUME NEW i \in 1..Len(b), b[i] = x PROVE \E j \in 1..Len(s) : s[j] = x
    <3>1. Len(a) + i \in 1..Len(s) BY <1>1
    <3> QED BY <1>1, <2>3, <3>1
  <2> QED BY <2>1, <2>2, <2>3
<1>3. e \in InLines(r, s) <=> (e \in CronEntries /\ \E i \in 1..Len(s) : s[i] = x)
  <2>1. s \in Seq(X) BY <1>1
  <2> QED BY <2>1, InLinesIs DEF x
<1>4. e \in InLines(r, a) <=> (e \in CronEntries /\ \E i \in 1..Len(a) : a[i] = x)
  BY InLinesIs DEF x
<1>5. e \in InLines(r, b) <=> (e \in CronEntries /\ \E i \in 1..Len(b) : b[i] = x)
  BY InLinesIs DEF x
<1> QED BY <1>2, <1>3, <1>4, <1>5 DEF s

\* Labels of different repositories are different, where tags are apart.
LEMMA LabelRepo ==
  ASSUME CadenceAssumption, NEW r \in Repos, NEW s \in Repos, NEW t \in Tasks, NEW u \in Tasks,
         Apart(r), Label(r, t) = Label(s, u)
  PROVE  r = s
<1> SUFFICES ASSUME r # s PROVE FALSE OBVIOUS
<1> DEFINE a == TagOf[r]
           b == TagOf[s]
           Words == STRING \cup Tasks
<1>1. a \in Seq(Words) /\ b \in Seq(Words)
  <2>1. a \in Seq(STRING) /\ b \in Seq(STRING) BY DEF CadenceAssumption
  <2> HIDE DEF a, b
  <2> QED BY <2>1
<1>2. Append(a, t) = Append(b, u) /\ ~ IsPrefix(b, a) BY DEF Label, Apart
<1> HIDE DEF a, b, Words
<1>3. t \in Words /\ u \in Words BY DEF Words
<1>4. a = b
  <2>1. Len(a) = Len(b)
    <3>1. Len(Append(a, t)) = Len(a) + 1 /\ Len(Append(b, u)) = Len(b) + 1
          /\ Len(a) \in Nat /\ Len(b) \in Nat
      BY <1>1, <1>3
    <3> QED BY <1>2, <3>1
  <2>2. \A i \in 1..Len(a) : a[i] = b[i]
    <3> TAKE i \in 1..Len(a)
    <3>1. Append(a, t)[i] = a[i] /\ Append(b, u)[i] = b[i] BY <1>1, <1>3, <2>1
    <3> QED BY <1>2, <3>1
  <2> QED BY <1>1, <2>1, <2>2
<1>5. IsPrefix(b, a)
  <2>1. Len(b) <= Len(a) /\ SubSeq(b, 1, Len(b)) = SubSeq(a, 1, Len(b)) BY <1>1, <1>4
  <2> QED BY <2>1 DEF IsPrefix
<1> QED BY <1>2, <1>5

LEMMA InGenerated ==
  ASSUME CadenceAssumption, NEW r \in Repos, NEW s \in Repos, NEW table \in Tables, Apart(r) \/ r = s
  PROVE  InLines(r, Generated(s, table)) = IF r = s THEN EntriesOf(table, "crontab") ELSE {}
<1> DEFINE S == Declared(table)
           c == Cardinality(S)
           tasks == SetToSeq(S)
           gen == Generated(s, table)
<1>1. /\ c \in Nat /\ gen \in Seq(Lines) /\ Len(gen) = 2 * c
      /\ \A m \in 1..c : /\ tasks[m] \in S
                         /\ gen[2 * m - 1] = Marker(Label(s, tasks[m]))
                         /\ gen[2 * m] = Job(Label(s, tasks[m]), table[tasks[m]])
      /\ \A i \in 1..Len(gen) : \E m \in 1..c : i = 2 * m - 1 \/ i = 2 * m
  BY GeneratedLines
<1>2. \A t \in S : \E m \in 1..c : tasks[m] = t BY OrderedTasks
<1>3. \A t \in S : t \in Tasks /\ table[t] \in Times BY DEF Declared, Tables
<1> HIDE DEF S, c, tasks, gen
<1>4. ASSUME NEW e \in InLines(r, gen)
      PROVE  r = s /\ e \in EntriesOf(table, "crontab")
  <2>1. e \in CronEntries /\ \E i \in 1..Len(gen) : gen[i] = Job(Label(r, e.task), e.time)
    BY <1>1, InLinesIs
  <2>2. PICK i \in 1..Len(gen) : gen[i] = Job(Label(r, e.task), e.time) BY <2>1
  <2>3. PICK m \in 1..c : i = 2 * m - 1 \/ i = 2 * m BY <1>1
  <2>4. tasks[m] \in S /\ gen[2 * m - 1] = Marker(Label(s, tasks[m]))
        /\ gen[2 * m] = Job(Label(s, tasks[m]), table[tasks[m]])
    BY <1>1
  <2>5. Job(Label(r, e.task), e.time) = Job(Label(s, tasks[m]), table[tasks[m]])
    <3>1. i # 2 * m - 1
      <4>1. gen[2 * m - 1].kind = "marker" BY <2>4 DEF Marker
      <4>2. gen[i].kind = "job" BY <2>2 DEF Job
      <4> QED BY <4>1, <4>2
    <3> QED BY <2>2, <2>3, <2>4, <3>1
  <2>6. Label(r, e.task) = Label(s, tasks[m]) /\ e.time = table[tasks[m]] BY <2>5 DEF Job
  <2>7. e.task \in Tasks /\ tasks[m] \in Tasks BY <1>3, <2>1, <2>4 DEF CronEntries
  <2>8. r = s BY <2>6, <2>7, LabelRepo
  <2>9. e.task = tasks[m] BY <2>6, <2>7, <2>8, LabelTask
  <2>10. e = [task |-> tasks[m], mech |-> "crontab", time |-> table[tasks[m]]]
    BY <2>1, <2>6, <2>9 DEF CronEntries
  <2> QED BY <2>4, <2>8, <2>10 DEF EntriesOf, S
<1>5. ASSUME NEW e \in EntriesOf(table, "crontab"), r = s
      PROVE  e \in InLines(r, gen)
  <2>1. PICK t \in S : e = [task |-> t, mech |-> "crontab", time |-> table[t]] BY DEF EntriesOf, S
  <2>2. PICK m \in 1..c : tasks[m] = t BY <1>2
  <2>3. gen[2 * m] = Job(Label(r, e.task), e.time) BY <1>1, <1>5, <2>1, <2>2
  <2>4. 2 * m \in 1..Len(gen) BY <1>1
  <2>5. e \in CronEntries BY <1>3, <2>1 DEF CronEntries
  <2> QED BY <1>1, <2>3, <2>4, <2>5, InLinesIs
<1> QED BY <1>4, <1>5 DEF gen

\* What merge schedules of its own repository.
LEMMA MergeOwn ==
  ASSUME CadenceAssumption, NEW lines \in Seq(Lines), Formed(lines),
         NEW r \in Repos, NEW table \in Tables
  PROVE  InLines(r, Merge(lines, table, r)) = EntriesOf(table, "crontab")
<1> DEFINE ours == {label \in Labels : Own(r, label)}
           kept == Strip(lines, ours)
           gen == Generated(r, table)
<1>1. kept \in Seq(Lines) BY StripFormed
<1>2. gen \in Seq(Lines) BY GeneratedLines
<1>3. InLines(r, gen) = EntriesOf(table, "crontab") BY InGenerated
<1>4. \A e : e \notin InLines(r, kept)
  <2> SUFFICES ASSUME NEW e, e \in InLines(r, kept) PROVE FALSE OBVIOUS
  <2>1. e \in InLines(r, lines) /\ Label(r, e.task) \notin ours BY InStripped
  <2>2. e.task \in Tasks BY <2>1 DEF InLines
  <2> QED BY <2>1, <2>2, OwnLabel
<1>5. Merge(lines, table, r) = kept \o gen BY DEF Merge
<1> HIDE DEF kept, gen
<1>6. \A e : e \in InLines(r, kept \o gen) <=> (e \in InLines(r, kept) \/ e \in InLines(r, gen))
  BY <1>1, <1>2, InJoined
<1>7. \A e : e \in InLines(r, Merge(lines, table, r)) <=> e \in EntriesOf(table, "crontab")
  BY <1>3, <1>4, <1>5, <1>6
<1> QED BY <1>7, Zenon

\* And of a repository whose tag does not begin with r's: what was.
LEMMA MergeOther ==
  ASSUME CadenceAssumption, NEW lines \in Seq(Lines), Formed(lines),
         NEW r \in Repos, NEW s \in Repos \ {r}, Apart(s), NEW table \in Tables
  PROVE  InLines(s, Merge(lines, table, r)) = InLines(s, lines)
<1> DEFINE ours == {label \in Labels : Own(r, label)}
           kept == Strip(lines, ours)
           gen == Generated(r, table)
<1>1. kept \in Seq(Lines) BY StripFormed
<1>2. gen \in Seq(Lines) BY GeneratedLines
<1>3. InLines(s, gen) = {} BY InGenerated
<1>4. \A e : e \in InLines(s, kept) <=> e \in InLines(s, lines)
  <2> TAKE e
  <2>1. e \in InLines(s, kept) <=> (e \in InLines(s, lines) /\ Label(s, e.task) \notin ours)
    BY InStripped
  <2>2. ASSUME e \in InLines(s, lines) PROVE Label(s, e.task) \notin ours
    <3>1. e.task \in Tasks BY <2>2 DEF InLines
    <3>2. ASSUME Own(r, Label(s, e.task)) PROVE FALSE
      <4>1. Label(s, e.task) \in Under(r) BY <3>1, <3>2, OwnIsUnder
      <4>2. PICK q \in Repos, t \in Tasks : IsPrefix(TagOf[r], TagOf[q]) /\ Label(q, t) = Label(s, e.task)
        BY <4>1 DEF Under
      <4>3. q = s BY <3>1, <4>2, LabelRepo
      <4> QED BY <4>2, <4>3 DEF Apart
    <3> QED BY <3>2
  <2> QED BY <2>1, <2>2
<1>5. Merge(lines, table, r) = kept \o gen BY DEF Merge
<1> HIDE DEF kept, gen
<1>6. \A e : e \in InLines(s, kept \o gen) <=> (e \in InLines(s, kept) \/ e \in InLines(s, gen))
  BY <1>1, <1>2, InJoined
<1> QED BY <1>3, <1>4, <1>5, <1>6

\* A line of the user schedules nothing for a repository.
LEMMA UserSchedulesNothing ==
  ASSUME NEW lines \in Seq(Lines), NEW u \in UserLines, NEW r
  PROVE  InLines(r, Append(lines, UserLine(u))) = InLines(r, lines)
<1> DEFINE line == UserLine(u)
<1>1. line \in Lines /\ line.kind = "user" BY DEF Lines, UserLine
<1> HIDE DEF line
<1>2. <<line>> \in Seq(Lines) /\ Len(<<line>>) = 1 /\ <<line>>[1] = line BY <1>1
<1>3. Append(lines, line) = lines \o <<line>> BY <1>1
<1>4. \A e : e \notin InLines(r, <<line>>)
  <2> SUFFICES ASSUME NEW e, e \in InLines(r, <<line>>) PROVE FALSE OBVIOUS
  <2>1. \E i \in 1..1 : <<line>>[i] = Job(Label(r, e.task), e.time) BY <1>2, InLinesIs
  <2> QED BY <1>1, <2>1 DEF Job
<1>5. \A e : e \in InLines(r, lines \o <<line>>) <=> (e \in InLines(r, lines) \/ e \in InLines(r, <<line>>))
  BY <1>2, InJoined
<1> QED BY <1>3, <1>4, <1>5 DEF line

-----------------------------------------------------------------------------
(* The record.                                                             *)

\* A process does what it was invoked for, with the mechanism it was invoked with.
MechFits ==
  \A k \in Writers : phase[k] # "off" =>
    /\ job[k] \in JobsOf[k]
    /\ phase[k] \in {"read", "write"} => job[k].mech = "crontab"
    /\ phase[k] = "install" => job[k].mech = "launchd"

\* Nobody runs beside a process that nothing has overlapped with.
AloneOff ==
  \A k \in Writers : k \in alone => \A j \in Writers \ {k} : phase[j] = "off"

\* No LaunchAgent where only the crontab is in use.
NoAgents == \A r \in Repos : MechsOf(r) = {"crontab"} => launchAgents[r] = EmptyTable

Matches(r) ==
  IF MechsOf(r) = {"crontab"} THEN Recorded(r) = Scheduled(r)
  ELSE Recorded(r) \subseteq Scheduled(r)

Clear(r) == Apart(r) /\ r \notin dirty /\ ~ Busy(r)

\* For a repository that no command is at, and none was cut short or overlapped
\* at since its last sync, the record is right, and whoever is about to write the
\* crontab has read what is in it for that repository.
Steady(r) ==
  Clear(r) =>
    /\ Matches(r)
    /\ \A k \in Writers : phase[k] \in {"write", "strip"} =>
         InLines(r, base[k]) = InLines(r, crontab)

\* What an undisturbed command has done so far.
OwnRun(k) ==
  LET r == job[k].repo IN
  /\ (phase[k] = "strip" /\ r \notin dirty) => InLines(r, base[k]) = InLines(r, crontab)
  /\ (phase[k] = "record" /\ job[k].mech = "crontab")
       => InLines(r, crontab) = EntriesOf(want[k], "crontab")
  /\ (phase[k] = "record" /\ job[k].mech = "launchd")
       => EntriesOf(want[k], "launchd") \subseteq EntriesOf(launchAgents[r], "launchd")
  /\ phase[k] = "install" =>
       /\ rest[k] \subseteq EntriesOf(want[k], "launchd")
       /\ EntriesOf(want[k], "launchd") \subseteq rest[k] \cup EntriesOf(launchAgents[r], "launchd")
  /\ (phase[k] \in Removing /\ r \notin dirty /\ Apart(r) /\ MechsOf(r) = {"crontab"})
       => InLines(r, crontab) \subseteq rest[k]

Undisturbed == \A k \in Writers : (k \in alone /\ phase[k] # "off") => OwnRun(k)

RecInv ==
  /\ MechFits /\ AloneOff /\ NoAgents
  /\ \A r \in Repos : Steady(r)
  /\ Undisturbed

\* The steps of a command that runs.
Acts(k) ==
  \/ Dies(k) \/ Upsert(k) \/ ReadConfig(k) \/ ReadCrontab(k) \/ WriteCrontab(k)
  \/ InstallAgent(k) \/ WriteRecord(k) \/ RemoveAgent(k) \/ ReadForRemoval(k)
  \/ StripEntry(k) \/ DeleteRecord(k)

\* A step of k is of no other process, and either goes on or ends k.
Stays(k) ==
  /\ phase[k] # "off" /\ alone' \subseteq alone
  /\ \A j \in Writers \ {k} :
       phase'[j] = phase[j] /\ job'[j] = job[j] /\ base'[j] = base[j] /\ want'[j] = want[j]
         /\ rest'[j] = rest[j]

LEMMA StopStays ==
  ASSUME CadTypes, NEW k \in Writers, phase[k] # "off", Stop(k)
  PROVE  Stays(k) /\ phase'[k] = "off" /\ k \notin alone'
<1>1. /\ phase' = [phase EXCEPT ![k] = "off"] /\ job' = [job EXCEPT ![k] = Nothing]
      /\ base' = [base EXCEPT ![k] = <<>>] /\ want' = [want EXCEPT ![k] = EmptyTable]
      /\ rest' = [rest EXCEPT ![k] = {}] /\ alone' = alone \ {k}
  BY DEF Stop, Enter
<1> QED BY <1>1 DEF Stays, CadTypes

LEMMA GoesOn ==
  ASSUME CadTypes, NEW k \in Writers, phase[k] # "off", alone' = alone, job' = job,
         NEW p \in Phases, phase' = [phase EXCEPT ![k] = p] \/ (phase' = phase /\ p = phase[k]),
         NEW b, base' = [base EXCEPT ![k] = b] \/ base' = base,
         NEW w, want' = [want EXCEPT ![k] = w] \/ want' = want,
         NEW e, rest' = [rest EXCEPT ![k] = e] \/ rest' = rest
  PROVE  Stays(k) /\ phase'[k] = p /\ job'[k] = job[k]
BY DEF Stays, CadTypes

\* The conjuncts about processes.
LEMMA StaysFits ==
  ASSUME CadTypes, MechFits, AloneOff, NEW k \in Writers, Stays(k),
         phase'[k] # "off" =>
           /\ job'[k] = job[k]
           /\ phase'[k] \in {"read", "write"} => job[k].mech = "crontab"
           /\ phase'[k] = "install" => job[k].mech = "launchd"
  PROVE  MechFits' /\ AloneOff'
<1>1. MechFits' BY DEF MechFits, Stays
<1>2. AloneOff'
  <2> SUFFICES ASSUME NEW i \in Writers, i \in alone', NEW j \in Writers \ {i} PROVE phase'[j] = "off"
    BY DEF AloneOff
  <2>1. i \in alone /\ phase[j] = "off" BY DEF AloneOff, Stays
  <2>2. j # k BY <2>1 DEF Stays
  <2> QED BY <2>1, <2>2 DEF Stays
<1> QED BY <1>1, <1>2

\* A repository other than the one that k is at.
LEMMA OtherSteady ==
  ASSUME CadInv, NEW k \in Writers, Stays(k), phase'[k] # "off" => job'[k] = job[k],
         NEW r \in Repos, r # job[k].repo, Steady(r),
         r \notin dirty' => (r \notin dirty /\ (phase'[k] \in {"write", "strip"} =>
                                (base'[k] = crontab' \/ (phase[k] \in {"write", "strip"} /\ base'[k] = base[k])))),
         record'[r] = record[r], launchAgents'[r] = launchAgents[r],
         Clear(r) => InLines(r, crontab') = InLines(r, crontab)
  PROVE  Steady(r)'
<1> SUFFICES ASSUME Clear(r)' PROVE /\ Matches(r)'
                                    /\ \A j \in Writers : phase'[j] \in {"write", "strip"} =>
                                         InLines(r, base'[j]) = InLines(r, crontab')
  BY DEF Steady, InLines
<1>1. r \notin dirty' /\ r \notin dirty /\ Apart(r) BY DEF Clear, Apart
<1>2. ~ Busy(r)
  <2> SUFFICES ASSUME NEW j \in Writers, phase[j] # "off", job[j].repo = r PROVE FALSE BY DEF Busy
  <2>1. j # k OBVIOUS
  <2>2. phase'[j] # "off" /\ job'[j].repo = r BY <2>1 DEF Stays
  <2> QED BY <2>2 DEF Clear, Busy
<1>3. Clear(r) BY <1>1, <1>2 DEF Clear
<1>4. Matches(r) /\ \A j \in Writers : phase[j] \in {"write", "strip"} =>
                      InLines(r, base[j]) = InLines(r, crontab)
  BY <1>3 DEF Steady
<1>5. InLines(r, crontab') = InLines(r, crontab) BY <1>3
<1>6. Matches(r)'
  <2>1. Scheduled(r)' = Scheduled(r)
    <3>1. Scheduled(r)' = InLines(r, crontab') \cup EntriesOf(launchAgents'[r], "launchd")
      BY DEF Scheduled, InLines, EntriesOf, Declared
    <3> QED BY <1>5, <3>1 DEF Scheduled
  <2>2. Recorded(r)' = Recorded(r) BY DEF Recorded
  <2>3. MechsOf(r)' = MechsOf(r) BY DEF MechsOf
  <2> QED BY <1>4, <2>1, <2>2, <2>3 DEF Matches
<1>7. ASSUME NEW j \in Writers, phase'[j] \in {"write", "strip"}
      PROVE  InLines(r, base'[j]) = InLines(r, crontab')
  <2>1. CASE j = k BY <1>1, <1>4, <1>5, <1>7, <2>1
  <2>2. CASE j # k
    <3>1. phase[j] \in {"write", "strip"} /\ base'[j] = base[j] BY <1>7, <2>2 DEF Stays
    <3> QED BY <1>4, <1>5, <3>1
  <2> QED BY <2>1, <2>2
<1> QED BY <1>6, <1>7

\* The repository that k is at is busy, or has been left in disorder.
LEMMA BusySteady ==
  ASSUME NEW k \in Writers, NEW r \in Repos,
         r \in dirty' \/ (phase'[k] # "off" /\ job'[k].repo = r)
  PROVE  Steady(r)'
BY DEF Steady, Clear, Busy

\* No other process is undisturbed.
LEMMA OnlyOwn ==
  ASSUME AloneOff, NEW k \in Writers, Stays(k), (k \in alone' /\ phase'[k] # "off") => OwnRun(k)'
  PROVE  Undisturbed'
<1> SUFFICES ASSUME NEW j \in Writers, j \in alone', phase'[j] # "off", j # k PROVE FALSE
  BY DEF Undisturbed
<1>1. j \in alone /\ phase[j] # "off" BY DEF Stays
<1> QED BY <1>1 DEF AloneOff, Stays

LEMMA AbortRec ==
  ASSUME CadenceAssumption, CadInv, RecInv, NEW k \in Writers, phase[k] # "off", Abort(k),
         crontab' = crontab, record' = record, NoAgents',
         \A r \in Repos : r # job[k].repo => launchAgents'[r] = launchAgents[r]
  PROVE  RecInv'
<1>1. Stays(k) /\ phase'[k] = "off" /\ k \notin alone' BY StopStays DEF Abort, CadInv
<1>2. dirty' = dirty \cup {job[k].repo} BY DEF Abort
<1>3. MechFits' /\ AloneOff' BY <1>1, StaysFits DEF CadInv, RecInv
<1>4. \A r \in Repos : Steady(r)'
  <2> TAKE r \in Repos
  <2>1. CASE r = job[k].repo BY <1>2, <2>1, BusySteady
  <2>2. CASE r # job[k].repo
    <3>1. Steady(r) BY DEF RecInv
    <3>2. record'[r] = record[r] /\ launchAgents'[r] = launchAgents[r] BY <2>2
    <3>3. r \notin dirty' => r \notin dirty BY <1>2
    <3> QED BY <1>1, <2>2, <3>1, <3>2, <3>3, OtherSteady
  <2> QED BY <2>1, <2>2
<1>5. Undisturbed' BY <1>1, OnlyOwn DEF RecInv
<1> QED BY <1>3, <1>4, <1>5 DEF RecInv

LEMMA AbortQuiet ==
  ASSUME CadenceAssumption, CadInv, RecInv, NEW k \in Writers, phase[k] # "off", Abort(k),
         UNCHANGED files
  PROVE  RecInv'
<1>1. crontab' = crontab /\ record' = record /\ launchAgents' = launchAgents BY DEF files
<1>2. NoAgents' BY <1>1 DEF NoAgents, RecInv, MechsOf
<1> QED BY <1>1, <1>2, AbortRec

LEMMA DoneRec ==
  ASSUME CadenceAssumption, CadInv, RecInv, NEW k \in Writers, phase[k] # "off", Done(k),
         crontab' = crontab, launchAgents' = launchAgents,
         NEW s \in Repos, s = job[k].repo, NEW v, record' = [record EXCEPT ![s] = v],
         (k \in alone /\ s \notin dirty' /\ Apart(s)) => Matches(s)'
  PROVE  RecInv'
<1>1. Stays(k) /\ phase'[k] = "off" /\ k \notin alone' BY StopStays DEF Done, CadInv
<1>2. /\ k \notin alone => s \in dirty'
      /\ \A r \in Repos : (r # s /\ r \notin dirty') => r \notin dirty
  BY DEF Done
<1>3. MechFits' /\ AloneOff' BY <1>1, StaysFits DEF CadInv, RecInv
<1>4. \A r \in Repos : Steady(r)'
  <2> TAKE r \in Repos
  <2>1. CASE r = s /\ k \notin alone BY <1>2, <2>1, BusySteady
  <2>2. CASE r = s /\ k \in alone
    <3>1. \A j \in Writers : phase'[j] = "off" BY <1>1, <2>2 DEF RecInv, AloneOff, Stays
    <3>2. Clear(r)' => Matches(r)' BY <2>2 DEF Clear, Apart
    <3> QED BY <3>1, <3>2 DEF Steady
  <2>3. CASE r # s
    <3>1. Steady(r) BY DEF RecInv
    <3>2. record'[r] = record[r] /\ launchAgents'[r] = launchAgents[r]
      BY <2>3 DEF CadInv, CadTypes
    <3>3. r \notin dirty' => r \notin dirty BY <1>2, <2>3
    <3> QED BY <1>1, <2>3, <3>1, <3>2, <3>3, OtherSteady
  <2> QED BY <2>1, <2>2, <2>3
<1>5. Undisturbed' BY <1>1, OnlyOwn DEF RecInv
<1>6. NoAgents' BY DEF NoAgents, RecInv, MechsOf
<1> QED BY <1>3, <1>4, <1>5, <1>6 DEF RecInv

\* A step that goes on and touches nothing but the process itself.
LEMMA QuietRec ==
  ASSUME CadenceAssumption, CadInv, RecInv, NEW k \in Writers, Stays(k),
         phase'[k] # "off", job'[k] = job[k],
         phase'[k] \in {"read", "write"} => job[k].mech = "crontab",
         phase'[k] = "install" => job[k].mech = "launchd",
         crontab' = crontab, launchAgents' = launchAgents, record' = record,
         \A r \in Repos : r \notin dirty' => (r \notin dirty /\ (phase'[k] \in {"write", "strip"} =>
                                                  base'[k] = crontab')),
         k \in alone => OwnRun(k)'
  PROVE  RecInv'
<1>1. MechFits' /\ AloneOff' BY StaysFits DEF CadInv, RecInv
<1>2. \A r \in Repos : Steady(r)'
  <2> TAKE r \in Repos
  <2>1. CASE r = job[k].repo BY <2>1, BusySteady
  <2>2. CASE r # job[k].repo
    <3>1. Steady(r) BY DEF RecInv
    <3> QED BY <2>2, <3>1, OtherSteady
  <2> QED BY <2>1, <2>2
<1>3. Undisturbed'
  <2>1. k \in alone' => k \in alone BY DEF Stays
  <2> QED BY <2>1, OnlyOwn DEF RecInv
<1>4. NoAgents' BY DEF NoAgents, RecInv, MechsOf
<1> QED BY <1>1, <1>2, <1>3, <1>4 DEF RecInv

LEMMA RunRec ==
  ASSUME CadenceAssumption, CadInv, RecInv, NEW k \in Writers, NEW c \in Jobs, Run(k, c)
  PROVE  RecInv'
<1> DEFINE s == c.repo
<1>1. /\ crontab' = crontab /\ launchAgents' = launchAgents /\ record' = record
      /\ base' = base /\ want' = want /\ job' = [job EXCEPT ![k] = c] /\ dirty' = dirty
      /\ phase[k] = "off" /\ c \in JobsOf[k] /\ s \in Repos
      /\ alone' = IF \A j \in Writers : phase[j] = "off" THEN {k} ELSE {}
  BY JobRepo DEF Run, files
<1>2. PICK p \in {"config", "upsert", "remove"} :
        phase' = [phase EXCEPT ![k] = p]
          /\ (p = "remove" => (record[s] # NoFile /\ rest' = [rest EXCEPT ![k] = record[s]]))
  BY DEF Run, Enter
<1>3. /\ phase'[k] = p /\ job'[k] = c
      /\ \A j \in Writers \ {k} : phase'[j] = phase[j] /\ job'[j] = job[j]
  BY <1>1, <1>2 DEF CadInv, CadTypes
<1>4. MechFits' BY <1>1, <1>3 DEF MechFits, RecInv
<1>5. AloneOff' BY <1>1, <1>3 DEF AloneOff
<1>6. NoAgents' BY <1>1 DEF NoAgents, RecInv, MechsOf
<1>7. \A r \in Repos : Steady(r)'
  <2> TAKE r \in Repos
  <2> SUFFICES ASSUME Clear(r)' PROVE /\ Matches(r)'
                                      /\ \A j \in Writers : phase'[j] \in {"write", "strip"} =>
                                           InLines(r, base'[j]) = InLines(r, crontab')
    BY DEF Steady, InLines
  <2>1. Clear(r)
    <3> SUFFICES ASSUME NEW j \in Writers, phase[j] # "off", job[j].repo = r PROVE FALSE
      BY <1>1 DEF Clear, Busy, Apart
    <3>1. j # k BY <1>1
    <3>2. phase'[j] # "off" /\ job'[j].repo = r BY <1>3, <3>1
    <3> QED BY <3>2 DEF Clear, Busy
  <2>2. Matches(r) /\ \A j \in Writers : phase[j] \in {"write", "strip"} =>
                        InLines(r, base[j]) = InLines(r, crontab)
    BY <2>1 DEF RecInv, Steady
  <2>3. Matches(r)'
    <3>1. Scheduled(r)' = Scheduled(r) BY <1>1 DEF Scheduled, InLines, EntriesOf, Declared
    <3>2. Recorded(r)' = Recorded(r) BY <1>1 DEF Recorded
    <3>3. MechsOf(r)' = MechsOf(r) BY DEF MechsOf
    <3> QED BY <2>2, <3>1, <3>2, <3>3 DEF Matches
  <2>4. \A j \in Writers : phase'[j] \in {"write", "strip"} => phase[j] \in {"write", "strip"}
    BY <1>2, <1>3
  <2> QED BY <1>1, <2>2, <2>3, <2>4
<1>8. Undisturbed'
  <2> SUFFICES ASSUME NEW j \in Writers, j \in alone', phase'[j] # "off" PROVE OwnRun(j)'
    BY DEF Undisturbed
  <2>1. j = k /\ \A i \in Writers : phase[i] = "off" BY <1>1
  <2>2. job'[j] = c /\ phase'[j] = p BY <1>3, <2>1
  <2>3. (phase'[j] \in Removing /\ s \notin dirty' /\ Apart(s) /\ MechsOf(s) = {"crontab"})
          => InLines(s, crontab') \subseteq rest'[j]
    <3> SUFFICES ASSUME phase'[j] \in Removing, s \notin dirty', Apart(s), MechsOf(s) = {"crontab"}
        PROVE  InLines(s, crontab') \subseteq rest'[j]
      OBVIOUS
    <3>1. p = "remove" BY <2>2 DEF Removing
    <3>2. Clear(s) BY <1>1, <2>1 DEF Clear, Busy
    <3>3. Recorded(s) = Scheduled(s) BY <1>1, <3>2 DEF RecInv, Steady, Matches
    <3>4. InLines(s, crontab) \subseteq record[s] BY <1>2, <3>1, <3>3 DEF Recorded, Scheduled
    <3>5. rest'[k] = record[s] BY <1>2, <3>1 DEF CadInv, CadTypes
    <3> QED BY <1>1, <2>1, <3>4, <3>5
  <2>4. phase'[j] \notin {"strip", "record", "install"} BY <1>2, <2>2
  <2> QED BY <2>2, <2>3, <2>4 DEF OwnRun, Apart, MechsOf
<1> QED BY <1>4, <1>5, <1>6, <1>7, <1>8 DEF RecInv

LEMMA InstallRec ==
  ASSUME CadenceAssumption, CadInv, RecInv, NEW k \in Writers, InstallAgent(k)
  PROVE  RecInv'
<1> DEFINE old == job[k].repo
<1>1. PICK s \in Repos : s = job[k].repo /\ phase[k] = "install" /\ job[k].mech = "launchd"
                           /\ job[k] \in JobsOf[k] /\ job[k].op # "remove"
  <2>1. phase[k] = "install" BY DEF InstallAgent
  <2> QED BY <2>1, JobRepo DEF CadInv, Invoked, RecInv, MechFits, Removing
<1>2. PICK e \in rest[k] :
        /\ launchAgents' = [launchAgents EXCEPT ![s][e.task] = e.time]
        /\ \/ /\ rest' = [rest EXCEPT ![k] = @ \ {e}]
              /\ IF rest[k] = {e} THEN Enter(k, "record") ELSE UNCHANGED phase
              /\ UNCHANGED <<job, base, want, edits, alone, dirty>>
           \/ Abort(k)
  BY <1>1 DEF InstallAgent
<1>3. crontab' = crontab /\ config' = config /\ record' = record BY DEF InstallAgent
<1>4. e \in Entries /\ e.task \in Tasks /\ e.time \in Times /\ rest[k] \in SUBSET Entries
  BY DEF CadInv, CadTypes, Entries
<1>5. launchAgents \in [Repos -> Tables] /\ launchAgents[s] \in Tables BY DEF CadInv, CadTypes
<1>6. /\ \A r \in Repos : r # s => launchAgents'[r] = launchAgents[r]
      /\ launchAgents'[s] = [launchAgents[s] EXCEPT ![e.task] = e.time]
  BY <1>2, <1>5
<1>7. MechsOf(s) # {"crontab"}
  <2>1. job[k] \in UNION {JobsOf[j] : j \in Writers} BY <1>1
  <2>2. job[k].mech \in MechsOf(s) BY <1>1, <2>1 DEF MechsOf
  <2> QED BY <1>1, <2>2
<1>8. NoAgents' BY <1>6, <1>7 DEF NoAgents, RecInv, MechsOf
<1>9. CASE Abort(k) BY <1>1, <1>3, <1>6, <1>8, <1>9, AbortRec
<1>10. CASE /\ rest' = [rest EXCEPT ![k] = @ \ {e}]
            /\ IF rest[k] = {e} THEN Enter(k, "record") ELSE UNCHANGED phase
            /\ UNCHANGED <<job, base, want, edits, alone, dirty>>
  <2>1. PICK p \in {"install", "record"} :
          /\ phase' = [phase EXCEPT ![k] = p] \/ (phase' = phase /\ p = phase[k])
          /\ p = "record" => rest[k] = {e}
    BY <1>1, <1>10 DEF Enter
  <2>2. job' = job /\ base' = base /\ want' = want /\ alone' = alone /\ dirty' = dirty BY <1>10
  <2>2a. rest' = [rest EXCEPT ![k] = rest[k] \ {e}] BY <1>10
  <2>3. Stays(k) /\ phase'[k] = p /\ job'[k] = job[k]
    <3>1. p \in Phases BY DEF Phases
    <3> QED BY <1>1, <2>1, <2>2, <2>2a, <3>1, GoesOn DEF CadInv
  <2>4. MechFits' /\ AloneOff' BY <1>1, <2>3, StaysFits DEF CadInv, RecInv
  <2>5. \A r \in Repos : Steady(r)'
    <3> TAKE r \in Repos
    <3>1. CASE r = s BY <1>1, <2>3, <3>1, BusySteady
    <3>2. CASE r # s
      <4>1. Steady(r) BY DEF RecInv
      <4>2. launchAgents'[r] = launchAgents[r] BY <1>6, <3>2
      <4> QED BY <1>1, <1>3, <2>2, <2>3, <3>2, <4>1, <4>2, OtherSteady
    <3> QED BY <3>1, <3>2
  <2>6. k \in alone => OwnRun(k)'
    <3> SUFFICES ASSUME k \in alone PROVE OwnRun(k)' OBVIOUS
    <3>1. /\ EntriesOf(want[k], "launchd") \subseteq rest[k] \cup EntriesOf(launchAgents[s], "launchd")
          /\ rest[k] \subseteq EntriesOf(want[k], "launchd")
      BY <1>1 DEF RecInv, Undisturbed, OwnRun
    <3>2. e.task \in Declared(want[k])
          /\ e = [task |-> e.task, mech |-> "launchd", time |-> want[k][e.task]]
      BY <3>1 DEF EntriesOf
    <3>3. rest'[k] = rest[k] \ {e} BY <2>2a DEF CadInv, CadTypes
    <3>4. ASSUME NEW x \in EntriesOf(want[k], "launchd"), x \notin rest'[k]
          PROVE  x \in EntriesOf(launchAgents'[s], "launchd")
      <4>1. PICK t \in Declared(want[k]) : x = [task |-> t, mech |-> "launchd", time |-> want[k][t]]
        BY DEF EntriesOf
      <4>2. t \in Tasks BY DEF Declared
      <4>3. CASE x = e
        <5>1. launchAgents'[s][t] = want[k][t] BY <1>4, <1>5, <1>6, <4>1, <4>2, <4>3 DEF Tables
        <5>2. want[k][t] # NoTime BY DEF Declared
        <5>3. t \in Declared(launchAgents'[s]) BY <4>2, <5>1, <5>2 DEF Declared
        <5> QED BY <4>1, <5>1, <5>3 DEF EntriesOf
      <4>4. CASE x # e
        <5>1. x \in EntriesOf(launchAgents[s], "launchd") BY <3>1, <3>3, <3>4, <4>4
        <5>2. PICK u \in Declared(launchAgents[s]) :
                x = [task |-> u, mech |-> "launchd", time |-> launchAgents[s][u]]
          BY <5>1 DEF EntriesOf
        <5>3. u = t /\ launchAgents[s][t] = want[k][t] BY <4>1, <5>2
        <5>4. CASE t = e.task BY <3>2, <4>1, <4>4, <5>4
        <5>5. CASE t # e.task
          <6>1. launchAgents'[s][t] = launchAgents[s][t] BY <1>5, <1>6, <4>2, <5>5 DEF Tables
          <6>2. t \in Declared(launchAgents'[s]) BY <5>2, <5>3, <6>1 DEF Declared
          <6> QED BY <4>1, <5>3, <6>1, <6>2 DEF EntriesOf
        <5> QED BY <5>4, <5>5
      <4> QED BY <4>3, <4>4
    <3>5. job'[k] = job[k] /\ want'[k] = want[k] /\ phase'[k] = p BY <2>2, <2>3
    <3>6. rest'[k] \subseteq EntriesOf(want[k], "launchd") BY <3>1, <3>3
    <3>7. p = "record" => EntriesOf(want[k], "launchd") \subseteq EntriesOf(launchAgents'[s], "launchd")
      <4>1. p = "record" => rest'[k] = {} BY <2>1, <3>3
      <4> QED BY <3>4, <4>1
    <3>8. EntriesOf(want[k], "launchd") \subseteq rest'[k] \cup EntriesOf(launchAgents'[s], "launchd")
      BY <3>4
    <3>9. job'[k].repo = s /\ job'[k].mech = "launchd" /\ phase'[k] \notin Removing /\ phase'[k] # "strip"
      BY <1>1, <2>1, <3>5 DEF Removing
    <3>10. EntriesOf(want'[k], "launchd") = EntriesOf(want[k], "launchd") BY <3>5
    <3> QED BY <3>5, <3>6, <3>7, <3>8, <3>9, <3>10 DEF OwnRun, EntriesOf, Declared
  <2>7. Undisturbed' BY <2>2, <2>3, <2>6, OnlyOwn DEF RecInv
  <2> QED BY <1>8, <2>4, <2>5, <2>7 DEF RecInv
<1> QED BY <1>2, <1>9, <1>10

LEMMA UpsertRec ==
  ASSUME CadenceAssumption, CadInv, RecInv, NEW k \in Writers, Upsert(k)
  PROVE  RecInv'
<1>1. /\ crontab' = crontab /\ launchAgents' = launchAgents /\ record' = record /\ job' = job
      /\ base' = base /\ want' = want /\ alone' = alone /\ dirty' = dirty /\ phase[k] = "upsert"
  BY DEF Upsert
<1>2. PICK e \in rest[k] : rest' = [rest EXCEPT ![k] = rest[k] \ {e}]
                            /\ IF rest[k] = {e} THEN Enter(k, "config") ELSE UNCHANGED phase
  BY DEF Upsert
<1>3. PICK p \in {"upsert", "config"} :
        phase' = [phase EXCEPT ![k] = p] \/ (phase' = phase /\ p = phase[k])
  BY <1>1, <1>2 DEF Enter
<1>4. Stays(k) /\ phase'[k] = p /\ job'[k] = job[k]
  <2>1. p \in Phases BY DEF Phases
  <2> QED BY <1>1, <1>2, <1>3, <2>1, GoesOn DEF CadInv
<1>5. OwnRun(k)' BY <1>4 DEF OwnRun, Removing
<1> QED BY <1>1, <1>4, <1>5, QuietRec

LEMMA ReadConfigRec ==
  ASSUME CadenceAssumption, CadInv, RecInv, NEW k \in Writers, ReadConfig(k)
  PROVE  RecInv'
<1> DEFINE table == config[job[k].repo]
<1>1. phase[k] = "config" /\ UNCHANGED files BY DEF ReadConfig
<1>2. job[k] \in Jobs /\ job[k].op # "remove" BY <1>1 DEF CadInv, Invoked, Removing
<1>3. CASE Abort(k) BY <1>1, <1>3, AbortQuiet
<1>4. CASE /\ want' = [want EXCEPT ![k] = table]
           /\ IF job[k].mech = "crontab" THEN Enter(k, "read") /\ UNCHANGED rest
              ELSE Enter(k, "install") /\ rest' = [rest EXCEPT ![k] = EntriesOf(table, "launchd")]
           /\ UNCHANGED <<job, base, edits, alone, dirty>>
  <2>1. job[k].mech \in {"crontab", "launchd"} BY <1>2 DEF Jobs
  <2>2. PICK p \in {"read", "install"} :
          /\ phase' = [phase EXCEPT ![k] = p]
          /\ p = "read" => job[k].mech = "crontab"
          /\ p = "install" => (job[k].mech = "launchd"
                                 /\ rest' = [rest EXCEPT ![k] = EntriesOf(table, "launchd")])
          /\ rest' = [rest EXCEPT ![k] = EntriesOf(table, "launchd")] \/ rest' = rest
    BY <1>4, <2>1 DEF Enter
  <2>3. crontab' = crontab /\ launchAgents' = launchAgents /\ record' = record /\ dirty' = dirty
        /\ job' = job /\ base' = base /\ alone' = alone /\ want' = [want EXCEPT ![k] = table]
    BY <1>1, <1>4 DEF files
  <2>4. Stays(k) /\ phase'[k] = p /\ job'[k] = job[k]
    <3>1. p \in Phases BY DEF Phases
    <3> HIDE DEF table
    <3> QED BY <1>1, <2>2, <2>3, <3>1, GoesOn DEF CadInv
  <2>5. OwnRun(k)'
    <3>1. want'[k] = table BY <2>3 DEF CadInv, CadTypes
    <3>2. p = "install" => rest'[k] = EntriesOf(want'[k], "launchd")
      BY <2>2, <3>1 DEF CadInv, CadTypes
    <3>3. phase'[k] \notin {"strip", "record", "remove"} BY <2>4
    <3>4. phase'[k] = "install" =>
            /\ rest'[k] \subseteq EntriesOf(want'[k], "launchd")
            /\ EntriesOf(want'[k], "launchd")
                 \subseteq rest'[k] \cup EntriesOf(launchAgents'[job'[k].repo], "launchd")
      BY <2>4, <3>2
    <3> HIDE DEF table
    <3> QED BY <3>3, <3>4 DEF OwnRun, Removing, EntriesOf, Declared
  <2>6. phase'[k] # "off" /\ (phase'[k] \in {"read", "write"} => job[k].mech = "crontab")
        /\ (phase'[k] = "install" => job[k].mech = "launchd") /\ phase'[k] \notin {"write", "strip"}
    BY <2>2, <2>4
  <2> QED BY <2>3, <2>4, <2>5, <2>6, QuietRec
<1> QED BY <1>3, <1>4 DEF ReadConfig

LEMMA ReadRec ==
  ASSUME CadenceAssumption, CadInv, RecInv, NEW k \in Writers, ReadCrontab(k) \/ ReadForRemoval(k)
  PROVE  RecInv'
<1>1. /\ crontab' = crontab /\ launchAgents' = launchAgents /\ record' = record
      /\ job' = job /\ want' = want /\ rest' = rest /\ alone' = alone
  BY DEF ReadCrontab, ReadForRemoval, files
<1>2. PICK p \in {"write", "strip"} :
        /\ phase' = [phase EXCEPT ![k] = p]
        /\ p = "write" => phase[k] = "read"
        /\ p = "strip" => phase[k] = "remove"
  BY DEF ReadCrontab, ReadForRemoval, Enter
<1>3. PICK b : base' = [base EXCEPT ![k] = b] /\ ((b = crontab /\ dirty' = dirty) \/ dirty' = Repos)
  BY DEF ReadCrontab, ReadForRemoval, CrontabRead
<1>4. Stays(k) /\ phase'[k] = p /\ job'[k] = job[k]
  <2>1. p \in Phases /\ phase[k] # "off" BY <1>2 DEF Phases
  <2> QED BY <1>1, <1>2, <1>3, <2>1, GoesOn DEF CadInv
<1>5. base'[k] = b BY <1>3 DEF CadInv, CadTypes
<1>6. p = "write" => job[k].mech = "crontab" BY <1>2 DEF RecInv, MechFits
<1>7. job[k].repo \in Repos /\ (p = "strip" => job[k].op = "remove")
  BY <1>2, JobRepo DEF CadInv, Invoked, Removing
<1>8. ASSUME k \in alone PROVE OwnRun(k)'
  <2> DEFINE s == job[k].repo
  <2>1. (phase'[k] = "strip" /\ s \notin dirty') => InLines(s, base'[k]) = InLines(s, crontab')
    BY <1>1, <1>3, <1>5, <1>7
  <2>2. (phase'[k] \in Removing /\ s \notin dirty' /\ Apart(s) /\ MechsOf(s) = {"crontab"})
          => InLines(s, crontab') \subseteq rest'[k]
    <3> SUFFICES ASSUME phase'[k] \in Removing, s \notin dirty', Apart(s), MechsOf(s) = {"crontab"}
        PROVE  InLines(s, crontab') \subseteq rest'[k]
      OBVIOUS
    <3>1. phase[k] = "remove" BY <1>2, <1>4 DEF Removing
    <3>2. s \notin dirty BY <1>3, <1>7
    <3> QED BY <1>1, <1>8, <3>1, <3>2 DEF RecInv, Undisturbed, OwnRun, Removing
  <2>3. phase'[k] \notin {"record", "install"} BY <1>4
  <2>4. job'[k].repo = s BY <1>4
  <2> QED BY <2>1, <2>2, <2>3, <2>4 DEF OwnRun, InLines, Apart, MechsOf
<1>9. \A r \in Repos : r \notin dirty' => (r \notin dirty /\ (phase'[k] \in {"write", "strip"} =>
                                              base'[k] = crontab'))
  BY <1>1, <1>3, <1>5
<1>10. phase'[k] # "off" /\ (phase'[k] \in {"read", "write"} => job[k].mech = "crontab")
       /\ phase'[k] # "install"
  BY <1>4, <1>6
<1> QED BY <1>1, <1>4, <1>8, <1>9, <1>10, QuietRec

LEMMA WriteRec ==
  ASSUME CadenceAssumption, CadInv, RecInv, NEW k \in Writers, WriteCrontab(k)
  PROVE  RecInv'
<1>1. phase[k] = "write" BY DEF WriteCrontab
<1>2. CASE Abort(k) /\ UNCHANGED files BY <1>1, <1>2, AbortQuiet
<1>3. CASE /\ crontab' = Merge(base[k], want[k], job[k].repo) /\ Enter(k, "record")
           /\ UNCHANGED <<launchAgents, config, record, plan, edits, alone, dirty>>
  <2>1. /\ launchAgents' = launchAgents /\ record' = record /\ job' = job /\ base' = base
        /\ want' = want /\ rest' = rest /\ alone' = alone /\ dirty' = dirty
        /\ phase' = [phase EXCEPT ![k] = "record"]
    BY <1>3 DEF plan, Enter
  <2>2. Stays(k) /\ phase'[k] = "record" /\ job'[k] = job[k]
    <3>1. "record" \in Phases BY DEF Phases
    <3> QED BY <1>1, <2>1, <3>1, GoesOn DEF CadInv
  <2>3. PICK s \in Repos : s = job[k].repo /\ job[k].mech = "crontab" /\ job[k].op # "remove"
    BY <1>1, JobRepo DEF CadInv, Invoked, RecInv, MechFits, Removing
  <2>4. base[k] \in Seq(Lines) /\ Formed(base[k]) /\ want[k] \in Tables
    BY DEF CadInv, CadTypes, AllFormed
  <2>5. MechFits' /\ AloneOff' BY <2>2, StaysFits DEF CadInv, RecInv
  <2>6. NoAgents' BY <2>1 DEF NoAgents, RecInv, MechsOf
  <2>7. \A r \in Repos : Steady(r)'
    <3> TAKE r \in Repos
    <3>1. CASE r = s BY <2>2, <2>3, <3>1, BusySteady
    <3>2. CASE r # s
      <4>1. Steady(r) BY DEF RecInv
      <4>2. Clear(r) => InLines(r, crontab') = InLines(r, crontab)
        <5> SUFFICES ASSUME Clear(r) PROVE InLines(r, crontab') = InLines(r, crontab) OBVIOUS
        <5>1. InLines(r, crontab') = InLines(r, base[k])
          BY <1>3, <2>3, <2>4, <3>2, MergeOther DEF Clear
        <5>2. InLines(r, base[k]) = InLines(r, crontab) BY <1>1, <4>1 DEF Steady
        <5> QED BY <5>1, <5>2
      <4> QED BY <2>1, <2>2, <2>3, <3>2, <4>1, <4>2, OtherSteady
    <3> QED BY <3>1, <3>2
  <2>8. OwnRun(k)'
    <3>1. InLines(s, crontab') = EntriesOf(want[k], "crontab") BY <1>3, <2>3, <2>4, MergeOwn
    <3>2. job'[k].repo = s /\ job'[k].mech = "crontab" /\ want'[k] = want[k] BY <2>1, <2>3
    <3> QED BY <2>2, <3>1, <3>2 DEF OwnRun, Removing, InLines, EntriesOf, Declared
  <2>9. Undisturbed' BY <2>2, <2>8, OnlyOwn DEF RecInv
  <2> QED BY <2>5, <2>6, <2>7, <2>9 DEF RecInv
<1> QED BY <1>2, <1>3 DEF WriteCrontab

LEMMA WriteRecordRec ==
  ASSUME CadenceAssumption, CadInv, RecInv, NEW k \in Writers, WriteRecord(k)
  PROVE  RecInv'
<1>1. phase[k] = "record" BY DEF WriteRecord
<1>2. CASE Abort(k) /\ UNCHANGED files BY <1>1, <1>2, AbortQuiet
<1>3. CASE /\ record' = [record EXCEPT ![job[k].repo] = EntriesOf(want[k], job[k].mech)]
           /\ Done(k) /\ UNCHANGED <<crontab, launchAgents, config>>
  <2>1. PICK s \in Repos : s = job[k].repo /\ job[k].op # "remove" /\ job[k].mech \in {"crontab", "launchd"}
                             /\ job[k] \in JobsOf[k]
    BY <1>1, JobRepo DEF CadInv, Invoked, Removing, Jobs, RecInv, MechFits
  <2> DEFINE v == EntriesOf(want[k], job[k].mech)
  <2>2. record' = [record EXCEPT ![s] = v] /\ crontab' = crontab /\ launchAgents' = launchAgents
    BY <1>3, <2>1
  <2>3. record'[s] = v BY <2>2 DEF CadInv, CadTypes
  <2>4. ASSUME k \in alone PROVE Matches(s)'
    <3>1. OwnRun(k) BY <1>1, <2>4 DEF RecInv, Undisturbed
    <3>2. v \subseteq Scheduled(s) BY <1>1, <2>1, <3>1 DEF OwnRun, Scheduled
    <3>3. Recorded(s)' \subseteq v BY <2>3 DEF Recorded
    <3>4. Scheduled(s)' = Scheduled(s) BY <2>2 DEF Scheduled, InLines, EntriesOf, Declared
    <3>5. CASE MechsOf(s) # {"crontab"}
      <4>1. MechsOf(s)' = MechsOf(s) BY DEF MechsOf
      <4> QED BY <3>2, <3>3, <3>4, <3>5, <4>1 DEF Matches
    <3>6. CASE MechsOf(s) = {"crontab"}
      <4>1. job[k].mech = "crontab"
        <5>1. job[k] \in UNION {JobsOf[j] : j \in Writers} BY <2>1
        <5>2. job[k].mech \in MechsOf(s) BY <2>1, <5>1 DEF MechsOf
        <5> QED BY <3>6, <5>2
      <4>2. InLines(s, crontab) = v BY <1>1, <2>1, <3>1, <4>1 DEF OwnRun
      <4>3. launchAgents[s] = EmptyTable BY <3>6 DEF RecInv, NoAgents
      <4>4. EntriesOf(launchAgents[s], "launchd") = {}
        BY <4>3 DEF EntriesOf, Declared, EmptyTable
      <4>5. Scheduled(s) = v BY <4>2, <4>4 DEF Scheduled
      <4>6. v \in SUBSET Entries
        <5>1. want[k] \in Tables BY DEF CadInv, CadTypes
        <5> QED BY <2>1, <5>1, EntriesAre
      <4>7. Recorded(s)' = v
        <5>1. v # NoFile BY <4>6 DEF CadenceAssumption
        <5> QED BY <2>3, <5>1 DEF Recorded
      <4>8. MechsOf(s)' = MechsOf(s) BY DEF MechsOf
      <4> QED BY <3>4, <3>6, <4>5, <4>7, <4>8 DEF Matches
    <3> QED BY <3>5, <3>6
  <2> HIDE DEF v
  <2> QED BY <1>1, <1>3, <2>1, <2>2, <2>4, DoneRec
<1> QED BY <1>2, <1>3 DEF WriteRecord

LEMMA RemoveAgentRec ==
  ASSUME CadenceAssumption, CadInv, RecInv, NEW k \in Writers, RemoveAgent(k)
  PROVE  RecInv'
<1>1. PICK e \in rest[k] :
        /\ e.mech = "launchd"
        /\ launchAgents' = [launchAgents EXCEPT ![job[k].repo][e.task] = NoTime]
        /\ rest' = [rest EXCEPT ![k] = rest[k] \ {e}]
  BY DEF RemoveAgent
<1>2. /\ crontab' = crontab /\ record' = record /\ phase' = phase /\ dirty' = dirty
      /\ job' = job /\ base' = base /\ want' = want /\ alone' = alone /\ phase[k] = "remove"
  BY DEF RemoveAgent
<1>3. PICK s \in Repos : s = job[k].repo BY <1>2, JobRepo DEF CadInv, Invoked
<1>4. Stays(k) /\ phase'[k] = "remove" /\ job'[k] = job[k]
  <2>1. "remove" \in Phases BY DEF Phases
  <2> QED BY <1>1, <1>2, <2>1, GoesOn DEF CadInv
<1>5. launchAgents \in [Repos -> Tables] /\ e.task \in Tasks
  BY DEF CadInv, CadTypes, Entries
<1>6. /\ \A r \in Repos : r # s => launchAgents'[r] = launchAgents[r]
      /\ launchAgents'[s] = [launchAgents[s] EXCEPT ![e.task] = NoTime]
  BY <1>1, <1>3, <1>5
<1>7. MechFits' /\ AloneOff' BY <1>4, StaysFits DEF CadInv, RecInv
<1>8. NoAgents'
  <2>1. [EmptyTable EXCEPT ![e.task] = NoTime] = EmptyTable BY DEF EmptyTable
  <2>2. \A r \in Repos : MechsOf(r) = {"crontab"} => launchAgents'[r] = EmptyTable
    BY <1>6, <2>1 DEF RecInv, NoAgents
  <2> QED BY <2>2 DEF NoAgents, MechsOf, EmptyTable
<1>9. \A r \in Repos : Steady(r)'
  <2> TAKE r \in Repos
  <2>1. CASE r = s BY <1>3, <1>4, <2>1, BusySteady
  <2>2. CASE r # s
    <3>1. Steady(r) BY DEF RecInv
    <3>2. launchAgents'[r] = launchAgents[r] BY <1>6, <2>2
    <3> QED BY <1>2, <1>3, <1>4, <2>2, <3>1, <3>2, OtherSteady
  <2> QED BY <2>1, <2>2
<1>10. k \in alone => OwnRun(k)'
  <2> SUFFICES ASSUME k \in alone, s \notin dirty', Apart(s), MechsOf(s) = {"crontab"}
      PROVE  InLines(s, crontab') \subseteq rest'[k]
    BY <1>3, <1>4 DEF OwnRun, Removing, Apart, MechsOf, InLines
  <2>1. InLines(s, crontab) \subseteq rest[k]
    BY <1>2, <1>3 DEF RecInv, Undisturbed, OwnRun, Removing
  <2>2. e \notin InLines(s, crontab) BY <1>1 DEF InLines
  <2>3. rest'[k] = rest[k] \ {e} BY <1>1 DEF CadInv, CadTypes
  <2> QED BY <1>2, <2>1, <2>2, <2>3
<1>11. Undisturbed' BY <1>2, <1>4, <1>10, OnlyOwn DEF RecInv
<1> QED BY <1>7, <1>8, <1>9, <1>11 DEF RecInv

LEMMA StripRec ==
  ASSUME CadenceAssumption, CadInv, RecInv, NEW k \in Writers, StripEntry(k)
  PROVE  RecInv'
<1>1. phase[k] = "strip" BY DEF StripEntry
<1>2. CASE Abort(k) /\ UNCHANGED files BY <1>1, <1>2, AbortQuiet
<1>3. ASSUME NEW e \in rest[k], crontab' = Strip(base[k], {Label(job[k].repo, e.task)}),
             rest' = [rest EXCEPT ![k] = rest[k] \ {e}], Enter(k, "remove"),
             UNCHANGED <<launchAgents, config, record, job, base, want, edits, alone, dirty>>
      PROVE  RecInv'
  <2>1. PICK s \in Repos : s = job[k].repo BY <1>1, JobRepo DEF CadInv, Invoked
  <2>2. phase' = [phase EXCEPT ![k] = "remove"] BY <1>3 DEF Enter
  <2>3. Stays(k) /\ phase'[k] = "remove" /\ job'[k] = job[k]
    <3>1. "remove" \in Phases BY DEF Phases
    <3> QED BY <1>1, <1>3, <2>2, <3>1, GoesOn DEF CadInv
  <2>4. base[k] \in Seq(Lines) /\ Formed(base[k]) /\ e.task \in Tasks
    BY DEF CadInv, CadTypes, AllFormed, Entries
  <2>5. \A r : \A x : x \in InLines(r, crontab')
                        <=> (x \in InLines(r, base[k]) /\ Label(r, x.task) # Label(s, e.task))
    BY <1>3, <2>1, <2>4, InStripped
  <2>6. MechFits' /\ AloneOff' BY <2>3, StaysFits DEF CadInv, RecInv
  <2>7. NoAgents' BY <1>3 DEF NoAgents, RecInv, MechsOf
  <2>8. \A r \in Repos : Steady(r)'
    <3> TAKE r \in Repos
    <3>1. CASE r = s BY <2>1, <2>3, <3>1, BusySteady
    <3>2. CASE r # s
      <4>1. Steady(r) BY DEF RecInv
      <4>2. Clear(r) => InLines(r, crontab') = InLines(r, crontab)
        <5> SUFFICES ASSUME Clear(r) PROVE InLines(r, crontab') = InLines(r, crontab) OBVIOUS
        <5>1. InLines(r, base[k]) = InLines(r, crontab) BY <1>1, <4>1 DEF Steady
        <5>2. \A x : x \in InLines(r, base[k]) => Label(r, x.task) # Label(s, e.task)
          <6>1. \A x : x \in InLines(r, base[k]) => x.task \in Tasks BY DEF InLines
          <6> QED BY <2>4, <3>2, <6>1, LabelRepo DEF Clear
        <5>3. \A x : x \in InLines(r, crontab') <=> x \in InLines(r, crontab) BY <2>5, <5>1, <5>2
        <5> QED BY <5>3, Zenon
      <4> QED BY <1>3, <2>1, <2>3, <3>2, <4>1, <4>2, OtherSteady
    <3> QED BY <3>1, <3>2
  <2>9. k \in alone => OwnRun(k)'
    <3> SUFFICES ASSUME k \in alone, s \notin dirty', Apart(s), MechsOf(s) = {"crontab"}
        PROVE  InLines(s, crontab') \subseteq rest'[k]
      BY <2>1, <2>3 DEF OwnRun, Removing, Apart, MechsOf, InLines
    <3>1. InLines(s, crontab) \subseteq rest[k] /\ InLines(s, base[k]) = InLines(s, crontab)
      BY <1>1, <1>3, <2>1 DEF RecInv, Undisturbed, OwnRun, Removing
    <3>2. e \notin InLines(s, crontab') BY <2>5
    <3>3. rest'[k] = rest[k] \ {e} BY <1>3 DEF CadInv, CadTypes
    <3>4. \A x : x \in InLines(s, crontab') => x \in InLines(s, crontab) BY <2>5, <3>1
    <3> QED BY <3>1, <3>2, <3>3, <3>4
  <2>10. Undisturbed' BY <1>3, <2>3, <2>9, OnlyOwn DEF RecInv
  <2> QED BY <2>6, <2>7, <2>8, <2>10 DEF RecInv
<1> QED BY <1>2, <1>3 DEF StripEntry

LEMMA DeleteRec ==
  ASSUME CadenceAssumption, CadInv, RecInv, NEW k \in Writers, DeleteRecord(k)
  PROVE  RecInv'
<1>1. phase[k] = "remove" /\ rest[k] = {} BY DEF DeleteRecord
<1>2. CASE Abort(k) /\ UNCHANGED files BY <1>1, <1>2, AbortQuiet
<1>3. CASE /\ record' = [record EXCEPT ![job[k].repo] = NoFile] /\ Done(k)
           /\ UNCHANGED <<crontab, launchAgents, config>>
  <2>1. PICK s \in Repos : s = job[k].repo /\ job[k].op = "remove"
    BY <1>1, JobRepo DEF CadInv, Invoked, Removing
  <2>2. record' = [record EXCEPT ![s] = NoFile] /\ crontab' = crontab /\ launchAgents' = launchAgents
    BY <1>3, <2>1
  <2>3. Recorded(s)' = {} BY <2>2 DEF Recorded, CadInv, CadTypes
  <2>4. ASSUME k \in alone, s \notin dirty', Apart(s) PROVE Matches(s)'
    <3>1. OwnRun(k) BY <1>1, <2>4 DEF RecInv, Undisturbed
    <3>2. Scheduled(s)' = Scheduled(s) BY <2>2 DEF Scheduled, InLines, EntriesOf, Declared
    <3>3. MechsOf(s)' = MechsOf(s) BY DEF MechsOf
    <3>4. s \notin dirty BY <1>3, <2>1, <2>4 DEF Done
    <3>5. CASE MechsOf(s) = {"crontab"}
      <4>1. InLines(s, crontab) = {} BY <1>1, <2>1, <2>4, <3>1, <3>4, <3>5 DEF OwnRun, Removing
      <4>2. EntriesOf(launchAgents[s], "launchd") = {}
        BY <3>5 DEF RecInv, NoAgents, EntriesOf, Declared, EmptyTable
      <4> QED BY <2>3, <3>2, <3>3, <4>1, <4>2 DEF Matches, Scheduled
    <3>6. CASE MechsOf(s) # {"crontab"} BY <2>3, <3>3, <3>6 DEF Matches
    <3> QED BY <3>5, <3>6
  <2> QED BY <1>1, <1>3, <2>1, <2>2, <2>4, DoneRec
<1> QED BY <1>2, <1>3 DEF DeleteRecord

LEMMA OwnRunSame ==
  ASSUME NEW k \in Writers, OwnRun(k),
         crontab' = crontab, launchAgents' = launchAgents, phase' = phase, job' = job,
         base' = base, want' = want, rest' = rest, dirty' = dirty
  PROVE  OwnRun(k)'
<1> DEFINE r == job[k].repo
<1>1. InLines(r, base[k])' = InLines(r, base[k]) /\ InLines(r, crontab)' = InLines(r, crontab)
  BY DEF InLines
<1>2. /\ EntriesOf(want[k], "crontab")' = EntriesOf(want[k], "crontab")
      /\ EntriesOf(want[k], "launchd")' = EntriesOf(want[k], "launchd")
      /\ EntriesOf(launchAgents[r], "launchd")' = EntriesOf(launchAgents[r], "launchd")
  BY DEF EntriesOf, Declared
<1>3. Apart(r)' = Apart(r) /\ MechsOf(r)' = MechsOf(r) BY DEF Apart, MechsOf
<1>4. r' = r OBVIOUS
<1> QED BY <1>1, <1>2, <1>3, <1>4 DEF OwnRun, Removing

LEMMA EditRec ==
  ASSUME CadenceAssumption, CadInv, RecInv, EditCrontab \/ \E r \in Repos : EditConfig(r)
  PROVE  RecInv'
<1>1. /\ launchAgents' = launchAgents /\ record' = record /\ phase' = phase /\ job' = job
      /\ base' = base /\ want' = want /\ rest' = rest /\ dirty' = dirty
  BY DEF EditCrontab, EditConfig, plan
<1>2. \A r : InLines(r, crontab') = InLines(r, crontab)
  <2>1. CASE EditCrontab
    <3>1. PICK u \in UserLines : crontab' = Append(crontab, UserLine(u)) BY <2>1 DEF EditCrontab
    <3> QED BY <3>1, UserSchedulesNothing DEF CadInv, CadTypes
  <2>2. CASE \E r \in Repos : EditConfig(r) BY <2>2 DEF EditConfig
  <2> QED BY <2>1, <2>2
<1>3. \A k : k \in alone' => (k \in alone /\ crontab' = crontab)
  BY DEF EditCrontab, EditConfig
<1>4. MechFits' /\ AloneOff' BY <1>1, <1>3 DEF MechFits, AloneOff, RecInv
<1>5. NoAgents' BY <1>1 DEF NoAgents, RecInv, MechsOf
<1>6. \A r \in Repos : Steady(r)'
  <2> TAKE r \in Repos
  <2>1. Steady(r) BY DEF RecInv
  <2>2. Clear(r)' = Clear(r) BY <1>1 DEF Clear, Busy, Apart
  <2>3. Matches(r)' = Matches(r)
    <3>1. Scheduled(r)' = Scheduled(r)
      <4>1. Scheduled(r)' = InLines(r, crontab') \cup EntriesOf(launchAgents'[r], "launchd")
        BY DEF Scheduled, InLines, EntriesOf, Declared
      <4> QED BY <1>1, <1>2, <4>1 DEF Scheduled
    <3>2. Recorded(r)' = Recorded(r) BY <1>1 DEF Recorded
    <3>3. MechsOf(r)' = MechsOf(r) BY DEF MechsOf
    <3> QED BY <3>1, <3>2, <3>3 DEF Matches
  <2>4. InLines(r, crontab') = InLines(r, crontab) BY <1>2
  <2> QED BY <1>1, <2>1, <2>2, <2>3, <2>4 DEF Steady, InLines
<1>7. Undisturbed'
  <2> SUFFICES ASSUME NEW k \in Writers, k \in alone', phase'[k] # "off" PROVE OwnRun(k)'
    BY DEF Undisturbed
  <2>1. OwnRun(k) BY <1>1, <1>3 DEF RecInv, Undisturbed
  <2> QED BY <1>1, <1>3, <2>1, OwnRunSame
<1> QED BY <1>4, <1>5, <1>6, <1>7 DEF RecInv

LEMMA RecInitInv ==
  ASSUME CadenceAssumption, CadInit
  PROVE  RecInv
<1>1. \A k \in Writers : phase[k] = "off" BY DEF CadInit
<1>2. MechFits /\ AloneOff /\ Undisturbed BY <1>1 DEF MechFits, AloneOff, Undisturbed
<1>3. \A r \in Repos : record[r] = NoFile /\ launchAgents[r] = EmptyTable BY DEF CadInit
<1>4. NoAgents BY <1>3 DEF NoAgents
<1>5. ASSUME NEW r \in Repos PROVE Steady(r)
  <2>1. Recorded(r) = {} BY <1>3 DEF Recorded
  <2>2. InLines(r, crontab) = {}
    <3>1. crontab = <<>> BY DEF CadInit
    <3> QED BY <3>1 DEF InLines, Range
  <2>3. EntriesOf(launchAgents[r], "launchd") = {} BY <1>3 DEF EntriesOf, Declared, EmptyTable
  <2>4. Matches(r) BY <2>1, <2>2, <2>3 DEF Matches, Scheduled
  <2> QED BY <1>1, <2>4 DEF Steady
<1> QED BY <1>2, <1>4, <1>5 DEF RecInv

LEMMA RecNextInv ==
  ASSUME CadenceAssumption, CadInv, RecInv, CadNext
  PROVE  RecInv'
<1>1. ASSUME NEW k \in Writers, Dies(k) PROVE RecInv' BY <1>1, AbortQuiet DEF Dies
<1> QED BY <1>1, RunRec, UpsertRec, ReadConfigRec, ReadRec, WriteRec, InstallRec, WriteRecordRec,
           RemoveAgentRec, StripRec, DeleteRec, EditRec
       DEF CadNext

\* The record of a repository whose tag does not begin with another's is what is
\* scheduled, once a sync has run undisturbed (sync, remove, begin).
THEOREM RecordKept == CadSpec => []RecordMatches
<1>1. CadInit => RecInv BY RecInitInv, CadenceAssumption
<1>2. CadInv /\ RecInv /\ [CadNext]_cadVars => RecInv'
  <2> SUFFICES ASSUME CadInv, RecInv, [CadNext]_cadVars PROVE RecInv' OBVIOUS
  <2>1. CASE CadNext BY <2>1, RecNextInv, CadenceAssumption
  <2>2. CASE UNCHANGED cadVars
    <3>1. /\ crontab' = crontab /\ launchAgents' = launchAgents /\ record' = record
          /\ phase' = phase /\ job' = job /\ base' = base /\ want' = want /\ rest' = rest
          /\ alone' = alone /\ dirty' = dirty
      BY <2>2 DEF cadVars, files, plan
    <3>2. MechFits' /\ AloneOff' BY <3>1 DEF RecInv, MechFits, AloneOff
    <3>3. NoAgents' BY <3>1 DEF RecInv, NoAgents, MechsOf
    <3>4. ASSUME NEW r \in Repos PROVE Steady(r)'
      <4>1. Steady(r) BY DEF RecInv
      <4> QED BY <3>1, <4>1, Zenon DEF Steady, Clear, Busy, Matches, Recorded, Scheduled, MechsOf, Apart,
                                       InLines, EntriesOf, Declared
    <3>5. ASSUME NEW k \in Writers, k \in alone', phase'[k] # "off" PROVE OwnRun(k)'
      <4>1. OwnRun(k) BY <3>1, <3>5 DEF RecInv, Undisturbed
      <4> QED BY <3>1, <4>1, OwnRunSame
    <3> QED BY <3>2, <3>3, <3>4, <3>5 DEF RecInv, Undisturbed
  <2> QED BY <2>1, <2>2
<1>3. RecInv => RecordMatches BY DEF RecInv, Steady, Clear, Matches, RecordMatches
<1> QED BY <1>1, <1>2, <1>3, CadInvHolds, PTL DEF CadSpec
=============================================================================
