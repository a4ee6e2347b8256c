----------------------------- MODULE File_proofs ------------------------------
(***************************************************************************)
(* Proofs about ProjectFile, for any processes, pull requests and files to *)
(* begin with that parse (FileAssumption).                                 *)
(***************************************************************************)
EXTENDS ProjectFile, Functions, FiniteSetTheorems, NaturalsInduction, WellFoundedInduction, TLAPS

-----------------------------------------------------------------------------
(* Lines and the tables they are in.                                       *)

LEMMA LeastNumber ==
  ASSUME NEW S \in SUBSET Nat, S # {}
  PROVE  \E k \in S : \A j \in S : k <= j
<1>1. PICK k \in S : \A j \in S : <<j, k>> \notin OpToRel(<, Nat)
  BY NatLessThanWellFounded, WFMin, Zenon
<1>2. \A j \in S : ~ (j < k) BY <1>1 DEF OpToRel
<1> QED BY <1>2

LEMMA GreatestNumber ==
  ASSUME NEW n \in Nat, NEW S \in SUBSET (1..n), S # {}
  PROVE  \E k \in S : \A j \in S : j <= k
<1> DEFINE T == {i \in Nat : n - i \in S}
<1>1. T # {}
  <2>1. PICK x \in S : TRUE OBVIOUS
  <2>2. n - x \in Nat /\ n - (n - x) = x OBVIOUS
  <2> QED BY <2>1, <2>2
<1>2. PICK k \in T : \A j \in T : k <= j BY <1>1, LeastNumber
<1>3. \A j \in S : n - j \in T OBVIOUS
<1>4. \A j \in S : j <= n - k
  <2> TAKE j \in S
  <2>1. k <= n - j BY <1>2, <1>3
  <2> QED BY <2>1
<1> QED BY <1>2, <1>4

\* Table is what line i stands under.
NoTable == <<"[", "">>
Under(text, i, table) ==
  \/ table = NoTable /\ \A h \in 1..i : ~ Opens(text[h])
  \/ \E h \in 1..i : text[h] = table /\ Opens(table) /\ \A g \in h + 1..i : ~ Opens(text[g])

LEMMA HomeIs ==
  ASSUME NEW text, NEW i \in Nat
  PROVE  \/ HomeOf(text, i) = 0 /\ \A h \in 1..i : ~ Opens(text[h])
         \/ /\ HomeOf(text, i) \in 1..i /\ Opens(text[HomeOf(text, i)])
            /\ \A g \in HomeOf(text, i) + 1..i : ~ Opens(text[g])
<1> DEFINE before == {h \in 1..i : Opens(text[h])}
<1>1. CASE before = {} BY <1>1 DEF HomeOf
<1>2. CASE before # {}
  <2>1. \E h \in before : \A g \in before : g <= h BY <1>2, GreatestNumber
  <2>2. HomeOf(text, i) = CHOOSE h \in before : \A g \in before : g <= h BY <1>2 DEF HomeOf
  <2>3. HomeOf(text, i) \in before /\ \A g \in before : g <= HomeOf(text, i) BY <2>1, <2>2
  <2>4. \A g \in HomeOf(text, i) + 1..i : g \notin before BY <2>3
  <2> QED BY <2>3, <2>4
<1> QED BY <1>1, <1>2

\* TableOf is the table that a line is under, and there is one only.
LEMMA TableIs ==
  ASSUME NEW text, NEW i \in Nat
  PROVE  Under(text, i, TableOf(text, i)) /\ \A table : Under(text, i, table) => table = TableOf(text, i)
<1>1. CASE HomeOf(text, i) = 0 /\ \A h \in 1..i : ~ Opens(text[h])
  <2>1. TableOf(text, i) = NoTable BY <1>1 DEF TableOf, NoTable
  <2> QED BY <1>1, <2>1 DEF Under
<1>2. CASE /\ HomeOf(text, i) \in 1..i /\ Opens(text[HomeOf(text, i)])
           /\ \A g \in HomeOf(text, i) + 1..i : ~ Opens(text[g])
  <2> DEFINE o == HomeOf(text, i)
  <2>1. o # 0 BY <1>2
  <2>2. TableOf(text, i) = text[o] BY <2>1 DEF TableOf
  <2>3. Under(text, i, TableOf(text, i)) BY <1>2, <2>2 DEF Under
  <2>4. ASSUME NEW table, Under(text, i, table)
        PROVE  table = TableOf(text, i)
    <3>1. PICK h \in 1..i : /\ text[h] = table /\ Opens(table) /\ \A g \in h + 1..i : ~ Opens(text[g])
      BY <1>2, <2>4 DEF Under
    <3>2. ~ (h < o) /\ ~ (o < h) BY <1>2, <3>1
    <3>3. h = o BY <1>2, <3>2
    <3> QED BY <2>2, <3>1, <3>3
  <2> QED BY <2>3, <2>4
<1> QED BY <1>1, <1>2, HomeIs

\* What is written behind a text leaves the tables of its lines.
LEMMA TableBehind ==
  ASSUME NEW X, NEW text \in Seq(X), NEW more \in Seq(X), NEW i \in 1..Len(text)
  PROVE  TableOf(text \o more, i) = TableOf(text, i)
<1>1. \A h \in 1..i : (text \o more)[h] = text[h] OBVIOUS
<1>2. Under(text, i, TableOf(text, i)) BY TableIs
<1>3. Under(text \o more, i, TableOf(text, i)) BY <1>1, <1>2 DEF Under
<1> QED BY <1>3, TableIs

LEMMA Inserted ==
  ASSUME NEW X, NEW text \in Seq(X), NEW line \in X, NEW p \in 1..Len(text) + 1
  PROVE  LET out == InsertAt(text, p, line) IN
         /\ out \in Seq(X) /\ Len(out) = Len(text) + 1
         /\ \A i \in 1..p - 1 : i \in 1..Len(text) /\ out[i] = text[i]
         /\ out[p] = line
         /\ \A i \in p..Len(text) : out[i + 1] = text[i]
<1> DEFINE a == SubSeq(text, 1, p - 1)
           b == SubSeq(text, p, Len(text))
           out == InsertAt(text, p, line)
<1>1. out = a \o <<line>> \o b BY DEF InsertAt
<1>2. a \in Seq(X) /\ Len(a) = p - 1 /\ \A i \in 1..p - 1 : a[i] = text[i] OBVIOUS
<1>3. b \in Seq(X) /\ Len(b) = Len(text) - p + 1 /\ \A i \in 1..Len(text) - p + 1 : b[i] = text[i + p - 1]
  OBVIOUS
<1> DEFINE c == a \o <<line>>
<1>4. c \in Seq(X) /\ Len(c) = p /\ c[p] = line /\ \A i \in 1..p - 1 : c[i] = text[i] BY <1>2
<1> HIDE DEF a, b
<1>5. out = c \o b BY <1>1
<1> HIDE DEF c, out
<1>6. out \in Seq(X) /\ Len(out) = Len(text) + 1 BY <1>3, <1>4, <1>5
<1>7. \A i \in 1..p : out[i] = c[i] BY <1>3, <1>4, <1>5
<1>8. ASSUME NEW i \in p..Len(text)
      PROVE  out[i + 1] = text[i]
  <2>1. i + 1 - p \in 1..Len(b) /\ i + 1 \in p + 1..Len(text) + 1 BY <1>3
  <2>2. out[i + 1] = b[i + 1 - p] BY <2>1, <1>3, <1>4, <1>5
  <2>3. b[i + 1 - p] = text[i + 1 - p + p - 1] BY <2>1, <1>3
  <2> QED BY <2>2, <2>3
<1>9. \A i \in 1..p - 1 : i \in 1..Len(text) /\ out[i] = text[i]
  <2> TAKE i \in 1..p - 1
  <2>1. i \in 1..Len(text) /\ i \in 1..p OBVIOUS
  <2> QED BY <2>1, <1>4, <1>7
<1>10. out[p] = line
  <2>1. p \in 1..p OBVIOUS
  <2> QED BY <2>1, <1>4, <1>7
<1>11. \A i \in p..Len(text) : out[i + 1] = text[i] BY <1>8
<1> USE DEF out
<1> QED BY <1>6, <1>9, <1>10, <1>11

\* A line that opens no table leaves the tables of the others.
LEMMA TableInserted ==
  ASSUME NEW X, NEW text \in Seq(X), NEW line \in X, NEW p \in 1..Len(text) + 1, ~ Opens(line)
  PROVE  LET out == InsertAt(text, p, line) IN
         /\ \A i \in 1..p - 1 : TableOf(out, i) = TableOf(text, i)
         /\ TableOf(out, p) = TableOf(text, p - 1)
         /\ \A i \in p..Len(text) : TableOf(out, i + 1) = TableOf(text, i)
<1> DEFINE out == InsertAt(text, p, line)
<1>1. /\ out \in Seq(X) /\ Len(out) = Len(text) + 1
      /\ \A i \in 1..p - 1 : i \in 1..Len(text) /\ out[i] = text[i]
      /\ out[p] = line
      /\ \A i \in p..Len(text) : out[i + 1] = text[i]
  BY Inserted
<1> HIDE DEF out
<1>2. ASSUME NEW i \in 1..p - 1
      PROVE  TableOf(out, i) = TableOf(text, i)
  <2>1. \A h \in 1..i : h \in 1..p - 1 OBVIOUS
  <2>2. \A h \in 1..i : out[h] = text[h] BY <1>1, <2>1, Zenon
  <2>3. i \in Nat /\ Under(text, i, TableOf(text, i)) BY TableIs
  <2>4. Under(out, i, TableOf(text, i)) BY <2>2, <2>3 DEF Under
  <2> QED BY <2>3, <2>4, TableIs
\* From p on, each line is one further down.
<1>3. ASSUME NEW i \in p - 1..Len(text)
      PROVE  TableOf(out, i + 1) = TableOf(text, i)
  <2>1. \A h \in 1..i + 1 : Opens(out[h]) =>
          \/ h < p /\ h \in 1..i /\ out[h] = text[h]
          \/ h > p /\ h - 1 \in 1..i /\ out[h] = text[h - 1]
    <3> SUFFICES ASSUME NEW h \in 1..i + 1, Opens(out[h])
                 PROVE  \/ h < p /\ h \in 1..i /\ out[h] = text[h]
                        \/ h > p /\ h - 1 \in 1..i /\ out[h] = text[h - 1]
      OBVIOUS
    <3>1. h # p BY <1>1
    <3>2. CASE h < p BY <3>2, <1>1
    <3>3. CASE h > p
      <4>1. h - 1 \in p..Len(text) BY <3>3
      <4>2. out[h - 1 + 1] = text[h - 1] BY <4>1, <1>1
      <4> QED BY <3>3, <4>1, <4>2
    <3> QED BY <3>1, <3>2, <3>3
  <2>2. Under(text, i, TableOf(text, i)) BY TableIs
  <2>3. CASE TableOf(text, i) = NoTable /\ \A h \in 1..i : ~ Opens(text[h])
    <3>1. \A h \in 1..i + 1 : ~ Opens(out[h]) BY <2>1, <2>3
    <3>2. Under(out, i + 1, TableOf(text, i)) BY <2>3, <3>1 DEF Under
    <3> QED BY <3>2, TableIs
  <2>4. ASSUME NEW h \in 1..i, text[h] = TableOf(text, i), Opens(TableOf(text, i)),
               \A g \in h + 1..i : ~ Opens(text[g])
        PROVE  TableOf(out, i + 1) = TableOf(text, i)
    <3> DEFINE o == IF h < p THEN h ELSE h + 1
    <3>1. o \in 1..i + 1 /\ out[o] = text[h] BY <1>1
    <3>2. \A g \in o + 1..i + 1 : ~ Opens(out[g])
      <4> SUFFICES ASSUME NEW g \in o + 1..i + 1, Opens(out[g]) PROVE FALSE OBVIOUS
      <4>1. CASE g < p /\ g \in 1..i /\ out[g] = text[g]
        <5>1. g \in h + 1..i BY <4>1
        <5> QED BY <4>1, <5>1, <2>4
      <4>2. CASE g > p /\ g - 1 \in 1..i /\ out[g] = text[g - 1]
        <5>1. g - 1 \in h + 1..i \/ g - 1 = h
          <6>1. CASE h < p BY <6>1, <4>2
          <6>2. CASE ~ (h < p) BY <6>2, <4>2
          <6> QED BY <6>1, <6>2
        <5>2. g - 1 # h
          <6> SUFFICES ASSUME g - 1 = h PROVE FALSE OBVIOUS
          <6>1. ~ (h < p) BY <4>2
          <6>2. o = h + 1 BY <6>1
          <6> QED BY <6>2
        <5> QED BY <4>2, <5>1, <5>2, <2>4
      <4> QED BY <4>1, <4>2, <2>1
    <3> HIDE DEF o
    <3>3. Under(out, i + 1, TableOf(text, i)) BY <2>4, <3>1, <3>2 DEF Under
    <3> QED BY <3>3, TableIs
  <2> QED BY <2>2, <2>3, <2>4 DEF Under
<1>4. TableOf(out, p - 1 + 1) = TableOf(text, p - 1) BY <1>3
<1>5. p - 1 + 1 = p OBVIOUS
<1>6. TableOf(out, p) = TableOf(text, p - 1) BY <1>4, <1>5
<1>7. \A i \in p..Len(text) : TableOf(out, i + 1) = TableOf(text, i) BY <1>3
<1> QED BY <1>2, <1>6, <1>7 DEF out

\* So does a change of lines that open no table.
LEMMA TableChanged ==
  ASSUME NEW X, NEW text \in Seq(X), NEW out \in Seq(X), NEW i \in 1..Len(text),
         \A h \in 1..Len(text) : /\ Opens(out[h]) <=> Opens(text[h])
                                 /\ Opens(text[h]) => out[h] = text[h]
  PROVE  TableOf(out, i) = TableOf(text, i)
<1>1. Under(text, i, TableOf(text, i)) BY TableIs
<1>2. Under(out, i, TableOf(text, i)) BY <1>1 DEF Under
<1> QED BY <1>2, TableIs

-----------------------------------------------------------------------------
(* Rows.                                                                   *)

LEMMA KeyLine ==
  ASSUME NEW k, NEW v
  PROVE  ~ Opens(Key(k, v)) /\ Key(k, v)[2] = k /\ Key(k, v)[3] = v
BY DEF Key, Opens

LEMMA ArrayLine ==
  ASSUME NEW t
  PROVE  Opens(<<"[[", t>>) /\ <<"[[", t>>[2] = t /\ <<"[[", t>>[1] = "[["
BY DEF Opens

LEMMA Numbers ==
  ASSUME NEW S, IsFiniteSet(S)
  PROVE  /\ Cardinality(S) \in Nat
         /\ SetToSeq(S) \in [1..Cardinality(S) -> S]
         /\ \A i, j \in 1..Cardinality(S) : SetToSeq(S)[i] = SetToSeq(S)[j] => i = j
         /\ \A x \in S : \E m \in 1..Cardinality(S) : SetToSeq(S)[m] = x
<1> DEFINE n == Cardinality(S)
<1>1. n \in Nat BY FS_CardinalityType
<1>2. \E f \in [1..n -> S] : IsInjective(f)
  <2>1. PICK f : f \in Bijection(1..n, S) BY FS_CardinalityType DEF ExistsBijection
  <2> QED BY <2>1 DEF Bijection, Injection, IsInjective
<1>3. SetToSeq(S) \in [1..n -> S] /\ IsInjective(SetToSeq(S)) BY <1>2 DEF SetToSeq
<1>4. \A x \in S : \E m \in 1..n : SetToSeq(S)[m] = x
  <2>1. Cardinality(1..n) = n BY <1>1, FS_Interval
  <2>2. SetToSeq(S) \in Injection(1..n, S) BY <1>3 DEF Injection
  <2>3. SetToSeq(S) \in Surjection(1..n, S) BY <2>1, <2>2, FS_Injection
  <2> QED BY <2>3 DEF Surjection
<1> QED BY <1>1, <1>3, <1>4 DEF IsInjective

RowLines(t, k, S) == {<<"[[", t>>} \cup {Key(k, x) : x \in S}

\* There is a row of x.
HasRow(rows, t, k, x) == \E i \in 2..Len(rows) : rows[i - 1] = <<"[[", t>> /\ rows[i] = Key(k, x)

\* RowsFor has, for each number, the line that opens its row and the number under it.
LEMMA RowsForIs ==
  ASSUME NEW t, NEW k, NEW S, IsFiniteSet(S)
  PROVE  LET rows == RowsFor(t, k, S) IN
         /\ rows \in Seq(RowLines(t, k, S))
         /\ \A i \in 1..Len(rows) :
              \/ rows[i] = <<"[[", t>>
              \/ i > 1 /\ rows[i - 1] = <<"[[", t>> /\ \E x \in S : rows[i] = Key(k, x)
         /\ \A x \in S : HasRow(rows, t, k, x)
         /\ \A i, j \in 1..Len(rows) : i < j /\ ~ Opens(rows[i]) => rows[j] # rows[i]
<1> DEFINE n == Cardinality(S)
           numbers == SetToSeq(S)
           rows == RowsFor(t, k, S)
           line(i) == IF i % 2 = 1 THEN <<"[[", t>> ELSE Key(k, numbers[i \div 2])
<1>1. /\ n \in Nat /\ numbers \in [1..n -> S]
      /\ \A i, j \in 1..n : numbers[i] = numbers[j] => i = j
      /\ \A x \in S : \E m \in 1..n : numbers[m] = x
  BY Numbers
<1>2. rows = [i \in 1..2 * n |-> line(i)] BY DEF RowsFor
<1> HIDE DEF n, numbers, rows
<1>3. \A i \in 1..2 * n : rows[i] = line(i) BY <1>2
<1> HIDE DEF line
<1>4. ASSUME NEW m \in 1..n
      PROVE  /\ 2 * m - 1 \in 1..2 * n /\ 2 * m \in 1..2 * n /\ numbers[m] \in S
             /\ rows[2 * m - 1] = <<"[[", t>> /\ rows[2 * m] = Key(k, numbers[m])
  <2>1. (2 * m) \div 2 = m /\ (2 * m - 1) % 2 = 1 /\ (2 * m) % 2 # 1 BY <1>1
  <2>2. line(2 * m - 1) = <<"[[", t>> BY <2>1, Zenon DEF line
  <2>3. line(2 * m) = Key(k, numbers[m]) BY <2>1, Zenon DEF line
  <2>4. 2 * m - 1 \in 1..2 * n /\ 2 * m \in 1..2 * n /\ numbers[m] \in S BY <1>1
  <2> QED BY <2>2, <2>3, <2>4, <1>3
<1>5. \A i \in 1..2 * n : \E m \in 1..n : i = 2 * m - 1 \/ i = 2 * m
  <2> TAKE i \in 1..2 * n
  <2>1. (i + 1) \div 2 \in 1..n BY <1>1
  <2>2. i = 2 * ((i + 1) \div 2) - 1 \/ i = 2 * ((i + 1) \div 2) BY <1>1
  <2> QED BY <2>1, <2>2
<1> DEFINE Own == RowLines(t, k, S)
<1>6. \A i \in 1..2 * n : rows[i] \in Own
  <2> TAKE i \in 1..2 * n
  <2>1. PICK m \in 1..n : i = 2 * m - 1 \/ i = 2 * m BY <1>5
  <2>2. rows[2 * m - 1] \in Own /\ rows[2 * m] \in Own BY <1>4 DEF RowLines
  <2> QED BY <2>1, <2>2
<1> HIDE DEF Own
<1>7. rows \in Seq(Own) /\ Len(rows) = 2 * n
  <2>1. rows \in [1..2 * n -> Own] BY <1>2, <1>3, <1>6
  <2>2. 2 * n \in Nat BY <1>1
  <2> QED BY <2>1, <2>2
<1>8. ASSUME NEW i \in 1..Len(rows)
      PROVE  \/ rows[i] = <<"[[", t>>
             \/ i > 1 /\ rows[i - 1] = <<"[[", t>> /\ \E x \in S : rows[i] = Key(k, x)
  <2>1. PICK m \in 1..n : i = 2 * m - 1 \/ i = 2 * m BY <1>5, <1>7
  <2>2. CASE i = 2 * m - 1 BY <2>2, <1>4
  <2>3. CASE i = 2 * m
    <3>1. i > 1 /\ i - 1 = 2 * m - 1 BY <2>3, <1>1
    <3>2. rows[i - 1] = <<"[[", t>> /\ rows[i] = Key(k, numbers[m]) /\ numbers[m] \in S
      BY <1>4, <2>3, <3>1, Zenon
    <3> QED BY <3>1, <3>2
  <2> QED BY <2>1, <2>2, <2>3
<1>9. ASSUME NEW x \in S
      PROVE  HasRow(rows, t, k, x)
  <2>1. PICK m \in 1..n : numbers[m] = x BY <1>1
  <2>2. 2 * m \in 2..Len(rows) BY <1>1, <1>7
  <2>3. rows[2 * m - 1] = <<"[[", t>> /\ rows[2 * m] = Key(k, x) BY <1>4, <2>1, Zenon
  <2> QED BY <2>2, <2>3 DEF HasRow
<1>10. ASSUME NEW i \in 1..Len(rows), NEW j \in 1..Len(rows), i < j, ~ Opens(rows[i]), rows[j] = rows[i]
       PROVE  FALSE
  <2>1. PICK m \in 1..n : i = 2 * m - 1 \/ i = 2 * m BY <1>5, <1>7
  <2>2. PICK o \in 1..n : j = 2 * o - 1 \/ j = 2 * o BY <1>5, <1>7
  <2>3. i # 2 * m - 1
    <3> SUFFICES ASSUME i = 2 * m - 1 PROVE FALSE OBVIOUS
    <3>1. rows[i] = <<"[[", t>> BY <1>4, Zenon
    <3> QED BY <3>1, <1>10, ArrayLine
  <2>4. j # 2 * o - 1
    <3> SUFFICES ASSUME j = 2 * o - 1 PROVE FALSE OBVIOUS
    <3>1. rows[j] = <<"[[", t>> BY <1>4, Zenon
    <3> QED BY <3>1, <1>10, ArrayLine
  <2>5. rows[i] = Key(k, numbers[m]) /\ rows[j] = Key(k, numbers[o])
    BY <1>4, <2>1, <2>2, <2>3, <2>4, Zenon
  <2>6. Key(k, numbers[m])[3] = numbers[m] /\ Key(k, numbers[o])[3] = numbers[o] BY KeyLine
  <2>7. numbers[m] = numbers[o] BY <1>10, <2>5, <2>6
  <2>8. m = o BY <1>1, <2>7
  <2> QED BY <1>10, <2>1, <2>2, <2>3, <2>4, <2>8
<1> QED BY <1>7, <1>8, <1>9, <1>10 DEF rows, Own

InRow(text, j, t, k) ==
  /\ ~ Opens(text[j]) /\ text[j][2] = k
  /\ \E h \in 1..j : text[h] = <<"[[", t>> /\ \A g \in h + 1..j : text[g][1] # "[["

LEMMA RowNumbersAre ==
  ASSUME NEW text, NEW t, NEW k
  PROVE  RowNumbers(text, t, k) = {text[i][3] : i \in {j \in DOMAIN text : InRow(text, j, t, k)}}
BY DEF RowNumbers, InRow

\* A number of a table's row is found.
LEMMA RowFound ==
  ASSUME NEW X, NEW text \in Seq(X), NEW t, NEW k, NEW i \in 1..Len(text), NEW x,
         TableOf(text, i) = <<"[[", t>>, text[i] = Key(k, x)
  PROVE  x \in RowNumbers(text, t, k)
<1>1. PICK h \in 1..i : /\ text[h] = <<"[[", t>> /\ \A g \in h + 1..i : ~ Opens(text[g])
  <2>1. Under(text, i, <<"[[", t>>) BY TableIs
  <2>2. <<"[[", t>> # NoTable BY DEF NoTable
  <2> QED BY <2>1, <2>2 DEF Under
<1>2. \A g \in h + 1..i : text[g][1] # "[[" BY <1>1 DEF Opens
<1>3. InRow(text, i, t, k) BY <1>1, <1>2, KeyLine DEF InRow
<1>4. text[i][3] = x BY KeyLine
<1>5. i \in DOMAIN text OBVIOUS
<1> QED BY <1>3, <1>4, <1>5, RowNumbersAre

LEMMA InRowBehind ==
  ASSUME NEW X, NEW text \in Seq(X), NEW more \in Seq(X), NEW j \in 1..Len(text), NEW t, NEW k
  PROVE  /\ (text \o more)[j] = text[j]
         /\ InRow(text \o more, j, t, k) <=> InRow(text, j, t, k)
<1>1. \A h \in 1..j : (text \o more)[h] = text[h] OBVIOUS
<1>2. (text \o more)[j] = text[j] OBVIOUS
<1> HIDE DEF InRow
<1>3. InRow(text, j, t, k) => InRow(text \o more, j, t, k) BY <1>1 DEF InRow
<1>4. InRow(text \o more, j, t, k) => InRow(text, j, t, k) BY <1>1 DEF InRow
<1> QED BY <1>2, <1>3, <1>4

\* Lines with other keys add no numbers.
LEMMA OthersBehind ==
  ASSUME NEW X, NEW text \in Seq(X), NEW more \in Seq(X), NEW t, NEW k,
         \A i \in 1..Len(more) : Opens(more[i]) \/ more[i][2] # k
  PROVE  RowNumbers(text \o more, t, k) = RowNumbers(text, t, k)
<1> DEFINE out == text \o more
<1>1. DOMAIN text = 1..Len(text) /\ DOMAIN out = 1..Len(text) + Len(more) OBVIOUS
<1>2. \A j \in 1..Len(text) : out[j] = text[j] /\ (InRow(out, j, t, k) <=> InRow(text, j, t, k))
  BY InRowBehind
<1>3. \A j \in Len(text) + 1..Len(text) + Len(more) : ~ InRow(out, j, t, k)
  <2> TAKE j \in Len(text) + 1..Len(text) + Len(more)
  <2>1. j - Len(text) \in 1..Len(more) /\ out[j] = more[j - Len(text)] OBVIOUS
  <2> QED BY <2>1 DEF InRow
<1> HIDE DEF out
<1> DEFINE N == {j \in DOMAIN out : InRow(out, j, t, k)}
           M == {j \in DOMAIN text : InRow(text, j, t, k)}
<1>4. N = M BY <1>1, <1>2, <1>3
<1>5. \A j \in M : out[j] = text[j] BY <1>1, <1>2
<1>6. RowNumbers(out, t, k) = {out[i][3] : i \in N} /\ RowNumbers(text, t, k) = {text[i][3] : i \in M}
  BY RowNumbersAre
<1> QED BY <1>4, <1>5, <1>6 DEF out

\* New rows add their numbers.
LEMMA RowsBehind ==
  ASSUME NEW X, NEW text \in Seq(X), NEW t, NEW k, NEW S, IsFiniteSet(S)
  PROVE  RowNumbers(text \o RowsFor(t, k, S), t, k) = RowNumbers(text, t, k) \cup S
<1> DEFINE rows == RowsFor(t, k, S)
           out == text \o rows
           Own == RowLines(t, k, S)
<1>1a. rows \in Seq(Own) BY RowsForIs
<1>1b. \A i \in 1..Len(rows) :
        \/ rows[i] = <<"[[", t>>
        \/ i > 1 /\ rows[i - 1] = <<"[[", t>> /\ \E x \in S : rows[i] = Key(k, x)
  BY RowsForIs
<1>1c. \A x \in S : HasRow(rows, t, k, x)
  BY RowsForIs
<1>1. /\ rows \in Seq(Own)
      /\ \A i \in 1..Len(rows) :
           \/ rows[i] = <<"[[", t>>
           \/ i > 1 /\ rows[i - 1] = <<"[[", t>> /\ \E x \in S : rows[i] = Key(k, x)
      /\ \A x \in S : HasRow(rows, t, k, x)
  BY <1>1a, <1>1b, <1>1c
<1> HIDE DEF rows, Own
<1>2. text \in Seq(X \cup Own) /\ rows \in Seq(X \cup Own) BY <1>1
<1>3. DOMAIN text = 1..Len(text) /\ DOMAIN out = 1..Len(text) + Len(rows) BY <1>2
<1>4. \A j \in 1..Len(text) : out[j] = text[j] /\ (InRow(out, j, t, k) <=> InRow(text, j, t, k))
  BY <1>2, InRowBehind
<1>5. \A i \in 1..Len(rows) : out[Len(text) + i] = rows[i] BY <1>2
<1> HIDE DEF out
<1>6. RowNumbers(out, t, k) \subseteq RowNumbers(text, t, k) \cup S
  <2> SUFFICES ASSUME NEW j \in DOMAIN out, InRow(out, j, t, k)
               PROVE  out[j][3] \in RowNumbers(text, t, k) \cup S
    BY RowNumbersAre
  <2>1. CASE j \in 1..Len(text)
    <3>1. InRow(text, j, t, k) /\ out[j] = text[j] /\ j \in DOMAIN text BY <2>1, <1>3, <1>4
    <3> QED BY <3>1, RowNumbersAre
  <2>2. CASE j \in Len(text) + 1..Len(text) + Len(rows)
    <3> DEFINE i == j - Len(text)
    <3>1. i \in 1..Len(rows) /\ j = Len(text) + i BY <2>2
    <3>2. out[j] = rows[i] BY <3>1, <1>5, Zenon
    <3>3. rows[i] # <<"[[", t>> BY <3>2, ArrayLine DEF InRow
    <3>4. PICK x \in S : rows[i] = Key(k, x) BY <1>1, <3>1, <3>3
    <3> QED BY <3>2, <3>4, KeyLine
  <2> QED BY <2>1, <2>2, <1>2, <1>3
<1>7. RowNumbers(text, t, k) \subseteq RowNumbers(out, t, k)
  <2> SUFFICES ASSUME NEW j \in DOMAIN text, InRow(text, j, t, k)
               PROVE  text[j][3] \in RowNumbers(out, t, k)
    BY RowNumbersAre
  <2>1. j \in DOMAIN out BY <1>2, <1>3
  <2>2. InRow(out, j, t, k) /\ out[j] = text[j] BY <1>3, <1>4
  <2> QED BY <2>1, <2>2, RowNumbersAre
<1>8. ASSUME NEW x \in S
      PROVE  x \in RowNumbers(out, t, k)
  <2>1. PICK i \in 2..Len(rows) : rows[i - 1] = <<"[[", t>> /\ rows[i] = Key(k, x) BY <1>1 DEF HasRow
  <2> DEFINE j == Len(text) + i
  <2>0. Len(text) \in Nat /\ Len(rows) \in Nat BY <1>2
  <2>2. /\ j \in 1..Len(text) + Len(rows) /\ j - 1 \in 1..j /\ i - 1 \in 1..Len(rows)
        /\ i \in 1..Len(rows) /\ j - 1 = Len(text) + (i - 1)
    BY <2>0
  <2>3. out[j - 1] = <<"[[", t>> /\ out[j] = Key(k, x) BY <2>1, <2>2, <1>5, Zenon
  <2>4. \A g \in j - 1 + 1..j : out[g][1] # "[["
    <3> TAKE g \in j - 1 + 1..j
    <3>1. g = j BY <2>2, <1>2
    <3> QED BY <3>1, <2>3 DEF Key
  <2> HIDE DEF j
  <2>5. InRow(out, j, t, k) BY <2>2, <2>3, <2>4, KeyLine DEF InRow
  <2>6. out[j][3] = x BY <2>3, KeyLine
  <2>7. j \in DOMAIN out BY <2>2, <1>3
  <2> QED BY <2>5, <2>6, <2>7, RowNumbersAre
<1> QED BY <1>6, <1>7, <1>8 DEF out, rows

\* A line with another key that is put in adds none.
LEMMA RowsInserted ==
  ASSUME NEW X, NEW text \in Seq(X), NEW line \in X, NEW p \in 1..Len(text) + 1, NEW t, NEW k,
         ~ Opens(line), line[2] # k
  PROVE  RowNumbers(InsertAt(text, p, line), t, k) \subseteq RowNumbers(text, t, k)
<1> DEFINE out == InsertAt(text, p, line)
<1>1. /\ out \in Seq(X) /\ Len(out) = Len(text) + 1
      /\ \A i \in 1..p - 1 : i \in 1..Len(text) /\ out[i] = text[i]
      /\ out[p] = line
      /\ \A i \in p..Len(text) : out[i + 1] = text[i]
  BY Inserted
<1> HIDE DEF out
<1> SUFFICES ASSUME NEW j \in DOMAIN out, InRow(out, j, t, k)
             PROVE  out[j][3] \in RowNumbers(text, t, k)
  BY RowNumbersAre DEF out
<1>2. PICK h \in 1..j : out[h] = <<"[[", t>> /\ \A g \in h + 1..j : out[g][1] # "[[" BY DEF InRow
<1>3. j \in 1..Len(text) + 1 /\ j # p /\ h # p
  <2>1. Opens(out[h]) BY <1>2, ArrayLine
  <2>2. ~ Opens(out[p]) /\ out[p][2] # k BY <1>1
  <2>3. out[j][2] = k BY DEF InRow
  <2>4. DOMAIN out = 1..Len(text) + 1 BY <1>1
  <2> QED BY <2>1, <2>2, <2>3, <2>4
\* Where a line was.
<1> DEFINE was(i) == IF i < p THEN i ELSE i - 1
<1>4. \A i \in 1..Len(text) + 1 : i # p => was(i) \in 1..Len(text) /\ text[was(i)] = out[i]
  <2> SUFFICES ASSUME NEW i \in 1..Len(text) + 1, i # p
               PROVE  was(i) \in 1..Len(text) /\ text[was(i)] = out[i]
    OBVIOUS
  <2>1. CASE i < p BY <2>1, <1>1
  <2>2. CASE ~ (i < p)
    <3>1. i - 1 \in p..Len(text) /\ i - 1 + 1 = i BY <2>2
    <3>2. out[i - 1 + 1] = text[i - 1] BY <3>1, <1>1
    <3> QED BY <2>2, <3>1, <3>2
  <2> QED BY <2>1, <2>2
<1>5. was(h) \in 1..was(j) BY <1>3
<1>6. \A g \in was(h) + 1..was(j) : text[g][1] # "[["
  <2> TAKE g \in was(h) + 1..was(j)
  <2> DEFINE o == IF g < p THEN g ELSE g + 1
  <2>1. o \in 1..Len(text) + 1 /\ o # p /\ was(o) = g BY <1>3
  <2>2. o \in h + 1..j
    <3>1. CASE j < p BY <3>1, <1>3
    <3>2. CASE ~ (j < p) /\ h < p BY <3>2, <1>3
    <3>3. CASE ~ (j < p) /\ ~ (h < p) BY <3>3, <1>3
    <3> QED BY <3>1, <3>2, <3>3
  <2>3. text[g] = out[o] BY <2>1, <1>4
  <2> QED BY <2>2, <2>3, <1>2
<1>7. text[was(h)] = <<"[[", t>> /\ text[was(j)] = out[j] /\ was(j) \in 1..Len(text)
  BY <1>2, <1>3, <1>4
<1> HIDE DEF was
<1>8. InRow(text, was(j), t, k) BY <1>5, <1>6, <1>7 DEF InRow
<1> QED BY <1>7, <1>8, RowNumbersAre

\* Nor does one that is changed.
LEMMA RowsChanged ==
  ASSUME NEW X, NEW text \in Seq(X), NEW out \in Seq(X), Len(out) = Len(text), NEW t, NEW k,
         \A i \in 1..Len(text) :
           out[i] = text[i] \/ (~ Opens(out[i]) /\ ~ Opens(text[i]) /\ out[i][2] # k)
  PROVE  RowNumbers(out, t, k) \subseteq RowNumbers(text, t, k)
<1> SUFFICES ASSUME NEW j \in DOMAIN out, InRow(out, j, t, k)
             PROVE  out[j][3] \in RowNumbers(text, t, k)
  BY RowNumbersAre
<1>1. PICK h \in 1..j : out[h] = <<"[[", t>> /\ \A g \in h + 1..j : out[g][1] # "[[" BY DEF InRow
<1>2. j \in 1..Len(text) /\ out[j] = text[j] BY DEF InRow
<1>3. text[h] = <<"[[", t>>
  <2>1. Opens(out[h]) BY <1>1, ArrayLine
  <2>2. h \in 1..Len(text) BY <1>2
  <2> QED BY <1>1, <2>1, <2>2
<1>4. \A g \in h + 1..j : text[g][1] # "[["
  <2> TAKE g \in h + 1..j
  <2>1. out[g] = text[g] \/ ~ Opens(text[g]) BY <1>2
  <2> QED BY <2>1, <1>1 DEF Opens
<1>5. InRow(text, j, t, k) BY <1>2, <1>3, <1>4 DEF InRow
<1> QED BY <1>2, <1>5, RowNumbersAre

-----------------------------------------------------------------------------
(* Texts in order.                                                         *)

Prs == ClosedPrs \cup UNION {RowNumbers(text, "tempo.prs", "number")
                               \cup RowNumbers(text, "ci.runs", "pr") : text \in FirstFiles}
Skills == BegunSkills \cup {"orchestrate", "idle"}
TableLines == {<<"[", t>> : t \in {"idle", "cadence", "band"}}
ArrayLines == {<<"[[", t>> : t \in {"tempo.prs", "ci.runs"}}
FixedLines == {Key("project_tag", "tag"), Key("human_assignee", "me")}
NumberLines == {Key(k, x) : k \in {"number", "pr"}, x \in Prs}
ModuleLines == {Key("last_module", m) : m \in Modules}
SkillLines == {Key(s, "*/30") : s \in Skills}
FirstLines == UNION {Range(text) : text \in FirstFiles}
FileLines ==
  FirstLines \cup TableLines \cup ArrayLines \cup FixedLines
    \cup NumberLines \cup ModuleLines \cup SkillLines

OneIdle(text) == \A i, j \in DOMAIN text : text[i] = <<"[", "idle">> /\ text[j] = <<"[", "idle">> => i = j

Good(text) ==
  /\ text \in Seq(FileLines) /\ RowsSingle(text) /\ RowsFit(text) /\ ModuleAtIdle(text) /\ OneIdle(text)

Pair(t, k) == (t = "tempo.prs" /\ k = "number") \/ (t = "ci.runs" /\ k = "pr")

LEMMA SomeLines ==
  /\ \A t \in {"tempo.prs", "ci.runs"} : <<"[[", t>> \in FileLines
  /\ \A t \in {"idle", "cadence", "band"} : <<"[", t>> \in FileLines
  /\ Key("project_tag", "tag") \in FileLines /\ Key("human_assignee", "me") \in FileLines
  /\ \A k \in {"number", "pr"}, x \in Prs : Key(k, x) \in FileLines
  /\ \A m \in Modules : Key("last_module", m) \in FileLines
  /\ \A s \in Skills : Key(s, "*/30") \in FileLines
<1>1. \A t \in {"idle", "cadence", "band"} : <<"[", t>> \in TableLines BY DEF TableLines
<1>2. \A t \in {"tempo.prs", "ci.runs"} : <<"[[", t>> \in ArrayLines BY DEF ArrayLines
<1>3. \A k \in {"number", "pr"}, x \in Prs : Key(k, x) \in NumberLines BY DEF NumberLines
<1>4. \A m \in Modules : Key("last_module", m) \in ModuleLines BY DEF ModuleLines
<1>5. \A s \in Skills : Key(s, "*/30") \in SkillLines BY DEF SkillLines
<1>6. Key("project_tag", "tag") \in FixedLines /\ Key("human_assignee", "me") \in FixedLines BY DEF FixedLines
<1> QED BY <1>1, <1>2, <1>3, <1>4, <1>5, <1>6 DEF FileLines

\* Where new rows are.
LEMMA RowTables ==
  ASSUME NEW X, NEW text \in Seq(X), NEW t, NEW k, NEW S \in SUBSET Prs, IsFiniteSet(S), Pair(t, k)
  PROVE  LET rows == RowsFor(t, k, S)
             out == text \o rows
         IN  /\ rows \in Seq(FileLines) /\ Len(rows) \in Nat
             /\ \A i \in 1..Len(rows) : out[Len(text) + i] = rows[i] /\ TableOf(out, Len(text) + i) = <<"[[", t>>
<1> DEFINE rows == RowsFor(t, k, S)
           out == text \o rows
           Own == RowLines(t, k, S)
<1>1. /\ rows \in Seq(Own)
      /\ \A i \in 1..Len(rows) :
           \/ rows[i] = <<"[[", t>>
           \/ i > 1 /\ rows[i - 1] = <<"[[", t>> /\ \E x \in S : rows[i] = Key(k, x)
  BY RowsForIs
<1>2. Own \subseteq FileLines
  <2>1. <<"[[", t>> \in FileLines BY SomeLines DEF Pair
  <2>2. \A x \in S : Key(k, x) \in FileLines
    <3> TAKE x \in S
    <3>1. k \in {"number", "pr"} /\ x \in Prs BY DEF Pair
    <3> QED BY <3>1, SomeLines
  <2> QED BY <2>1, <2>2 DEF RowLines
<1> HIDE DEF rows, Own
<1>3. rows \in Seq(FileLines) BY <1>1, <1>2
<1>4. text \in Seq(X \cup FileLines) /\ rows \in Seq(X \cup FileLines) BY <1>3
<1>5. \A i \in 1..Len(rows) : out[Len(text) + i] = rows[i] BY <1>4
<1> HIDE DEF out
<1>6. ASSUME NEW i \in 1..Len(rows)
      PROVE  TableOf(out, Len(text) + i) = <<"[[", t>>
  <2> DEFINE j == Len(text) + i
  <2>0. j \in Nat /\ j \in 1..j /\ Len(text) \in Nat BY <1>4
  <2>1. CASE rows[i] = <<"[[", t>>
    <3>1. out[j] = <<"[[", t>> BY <2>1, <1>5
    <3>2. \A g \in j + 1..j : ~ Opens(out[g]) BY <2>0
    <3> HIDE DEF j
    <3>3. Under(out, j, <<"[[", t>>) BY <2>0, <3>1, <3>2, ArrayLine DEF Under
    <3> QED BY <2>0, <3>3, TableIs DEF j
  <2>2. CASE i > 1 /\ rows[i - 1] = <<"[[", t>> /\ \E x \in S : rows[i] = Key(k, x)
    <3>1. i - 1 \in 1..Len(rows) /\ Len(text) + (i - 1) = j - 1 /\ j - 1 \in 1..j BY <2>0, <2>2
    <3>2. out[j - 1] = <<"[[", t>>
      <4>1. out[Len(text) + (i - 1)] = rows[i - 1] BY <1>5, <3>1, Zenon
      <4> QED BY <4>1, <2>2, <3>1
    <3>3. \A g \in j - 1 + 1..j : ~ Opens(out[g])
      <4> TAKE g \in j - 1 + 1..j
      <4>1. g = j BY <2>0
      <4>2. out[j] = rows[i] BY <1>5
      <4> QED BY <4>1, <4>2, <2>2, KeyLine
    <3> HIDE DEF j
    <3>4. Under(out, j, <<"[[", t>>) BY <2>0, <3>1, <3>2, <3>3, ArrayLine DEF Under
    <3> QED BY <2>0, <3>4, TableIs DEF j
  <2> QED BY <1>1, <2>1, <2>2
<1>7. Len(rows) \in Nat BY <1>3
<1> QED BY <1>3, <1>5, <1>6, <1>7 DEF out, rows

LEMMA GoodRows ==
  ASSUME NEW text, Good(text), NEW t, NEW k, NEW S \in SUBSET Prs, IsFiniteSet(S), Pair(t, k),
         S \cap RowNumbers(text, t, k) = {}
  PROVE  Good(text \o RowsFor(t, k, S))
<1> DEFINE rows == RowsFor(t, k, S)
           out == text \o rows
           n == Len(text)
<1>1. text \in Seq(FileLines) BY DEF Good
<1>2. /\ rows \in Seq(FileLines) /\ Len(rows) \in Nat
      /\ \A i \in 1..Len(rows) : out[n + i] = rows[i] /\ TableOf(out, n + i) = <<"[[", t>>
  BY <1>1, RowTables
<1>3. /\ \A i \in 1..Len(rows) :
           \/ rows[i] = <<"[[", t>>
           \/ i > 1 /\ rows[i - 1] = <<"[[", t>> /\ \E x \in S : rows[i] = Key(k, x)
      /\ \A i, j \in 1..Len(rows) : i < j /\ ~ Opens(rows[i]) => rows[j] # rows[i]
  BY RowsForIs
<1> HIDE DEF rows
<1>4. \A i \in 1..n : out[i] = text[i] /\ TableOf(out, i) = TableOf(text, i) BY <1>1, <1>2, TableBehind
<1>5. n \in Nat /\ DOMAIN text = 1..n /\ DOMAIN out = 1..n + Len(rows) BY <1>1, <1>2
<1>6. out \in Seq(FileLines) BY <1>1, <1>2
<1> HIDE DEF out, n
\* A line is an old one or a new one.
<1>7. \A i \in DOMAIN out : i \in 1..n \/ (i - n \in 1..Len(rows) /\ i = n + (i - n)) BY <1>2, <1>5
<1>8. ASSUME NEW i \in DOMAIN out, i - n \in 1..Len(rows), i = n + (i - n)
      PROVE  /\ out[i] = rows[i - n] /\ TableOf(out, i) = <<"[[", t>>
             /\ out[i] = <<"[[", t>> \/ \E x \in S : out[i] = Key(k, x)
  <2>1. out[n + (i - n)] = rows[i - n] /\ TableOf(out, n + (i - n)) = <<"[[", t>> BY <1>2, <1>8, Zenon
  <2>2. out[i] = rows[i - n] /\ TableOf(out, i) = <<"[[", t>> BY <2>1, <1>8
  <2> QED BY <2>2, <1>3, <1>8
<1>9. t \notin {"number", "pr"} BY DEF Pair
<1>10. RowsFit(out)
  <2> SUFFICES ASSUME NEW i \in DOMAIN out, out[i][2] \in {"number", "pr"}
               PROVE  /\ TableOf(out, i) = <<"[[", "tempo.prs">> => out[i][2] = "number"
                      /\ TableOf(out, i) = <<"[[", "ci.runs">> => out[i][2] = "pr"
    BY DEF RowsFit
  <2>1. CASE i \in 1..n
    <3>1. out[i] = text[i] /\ TableOf(out, i) = TableOf(text, i) /\ i \in DOMAIN text
      BY <2>1, <1>4, <1>5
    <3> QED BY <3>1 DEF Good, RowsFit
  <2>2. CASE i - n \in 1..Len(rows) /\ i = n + (i - n)
    <3>1. TableOf(out, i) = <<"[[", t>> /\ (out[i] = <<"[[", t>> \/ \E x \in S : out[i] = Key(k, x))
      BY <2>2, <1>8
    <3>2. out[i][2] = k BY <3>1, <1>9, KeyLine, ArrayLine
    <3>3. <<"[[", t>>[2] = t /\ <<"[[", "tempo.prs">>[2] = "tempo.prs" /\ <<"[[", "ci.runs">>[2] = "ci.runs"
      OBVIOUS
    <3> QED BY <3>1, <3>2, <3>3 DEF Pair
  <2> QED BY <1>7, <2>1, <2>2
<1>11. RowsSingle(out)
  <2> SUFFICES ASSUME NEW i \in DOMAIN out, NEW j \in DOMAIN out, i < j,
                      TableOf(out, i) \in {<<"[[", "tempo.prs">>, <<"[[", "ci.runs">>},
                      out[i][2] \in {"number", "pr"}, out[j] = out[i]
               PROVE  FALSE
    BY DEF RowsSingle
  <2>1. CASE i \in 1..n /\ j \in 1..n
    <3>1. /\ out[i] = text[i] /\ TableOf(out, i) = TableOf(text, i) /\ i \in DOMAIN text
          /\ out[j] = text[j] /\ j \in DOMAIN text
      BY <2>1, <1>4, <1>5
    <3> QED BY <3>1 DEF Good, RowsSingle
  <2>2. CASE i \in 1..n /\ j - n \in 1..Len(rows) /\ j = n + (j - n)
    <3>1. out[i] = text[i] /\ TableOf(out, i) = TableOf(text, i) /\ i \in DOMAIN text
      BY <2>2, <1>4, <1>5
    <3>2. out[j] = <<"[[", t>> \/ \E x \in S : out[j] = Key(k, x) BY <2>2, <1>8
    <3>3. PICK x \in S : text[i] = Key(k, x) BY <3>1, <3>2, <1>9, ArrayLine
    <3>4. text[i][2] = k BY <3>3, KeyLine
    <3>5. TableOf(text, i) = <<"[[", t>> BY <3>1, <3>4 DEF Good, RowsFit, Pair
    <3>6. x \in RowNumbers(text, t, k) BY <2>2, <3>3, <3>5, <1>1, RowFound DEF n
    <3> QED BY <3>6
  <2>3. CASE i - n \in 1..Len(rows) /\ i = n + (i - n)
    <3>1. j - n \in 1..Len(rows) /\ j = n + (j - n) /\ i - n < j - n
      <4>1. j \notin 1..n BY <2>3, <1>2, <1>5
      <4> QED BY <4>1, <2>3, <1>2, <1>5, <1>7
    <3>2. out[i] = rows[i - n] /\ out[j] = rows[j - n] BY <2>3, <3>1, <1>8
    <3>3. ~ Opens(rows[i - n])
      <4>1. out[i] = <<"[[", t>> \/ \E x \in S : out[i] = Key(k, x) BY <2>3, <1>8
      <4>2. PICK x \in S : out[i] = Key(k, x) BY <4>1, <1>9, ArrayLine
      <4>3. rows[i - n] = Key(k, x) BY <4>2, <3>2
      <4> QED BY <4>3, KeyLine DEF Opens
    <3> QED BY <2>3, <3>1, <3>2, <3>3, <1>3
  <2> QED BY <1>7, <2>1, <2>2, <2>3
<1>12. ModuleAtIdle(out)
  <2> SUFFICES ASSUME NEW i \in DOMAIN out, ~ Opens(out[i]), out[i][2] = "last_module"
               PROVE  TableOf(out, i) = <<"[", "idle">>
    BY DEF ModuleAtIdle
  <2>1. CASE i \in 1..n
    <3>1. out[i] = text[i] /\ TableOf(out, i) = TableOf(text, i) /\ i \in DOMAIN text
      BY <2>1, <1>4, <1>5
    <3> QED BY <3>1 DEF Good, ModuleAtIdle
  <2>2. CASE i - n \in 1..Len(rows) /\ i = n + (i - n)
    <3>1. out[i] = <<"[[", t>> \/ \E x \in S : out[i] = Key(k, x) BY <2>2, <1>8
    <3>2. out[i][2] \in {"number", "pr"} BY <3>1, ArrayLine, KeyLine DEF Pair
    <3> QED BY <3>2
  <2> QED BY <1>7, <2>1, <2>2
<1>13. OneIdle(out)
  <2>1. \A i \in DOMAIN out : out[i] = <<"[", "idle">> => i \in 1..n
    <3> SUFFICES ASSUME NEW i \in DOMAIN out, i - n \in 1..Len(rows), i = n + (i - n), out[i] = <<"[", "idle">>
                 PROVE  FALSE
      BY <1>7
    <3>1. out[i] = <<"[[", t>> \/ \E x \in S : out[i] = Key(k, x) BY <1>8
    <3>2. Opens(<<"[", "idle">>) /\ <<"[", "idle">>[1] = "[" BY DEF Opens
    <3> QED BY <3>1, <3>2, ArrayLine, KeyLine
  <2>2. \A i, j \in 1..n : text[i] = <<"[", "idle">> /\ text[j] = <<"[", "idle">> => i = j
    BY <1>5 DEF Good, OneIdle
  <2> QED BY <2>1, <2>2, <1>4 DEF OneIdle
<1> QED BY <1>6, <1>10, <1>11, <1>12, <1>13 DEF Good, out, rows

\* append_rows keeps a text in order and leaves every row it was to append in it.
LEMMA AppendRowsGood ==
  ASSUME NEW text, Good(text), NEW prs \in SUBSET Prs, NEW ci \in SUBSET Prs,
         IsFiniteSet(prs), IsFiniteSet(ci)
  PROVE  /\ Good(AppendRows(text, prs, ci))
         /\ RowNumbers(AppendRows(text, prs, ci), "tempo.prs", "number")
              = RowNumbers(text, "tempo.prs", "number") \cup prs
         /\ FileEntries(text) \subseteq FileEntries(AppendRows(text, prs, ci))
<1> DEFINE S == prs \ RowNumbers(text, "tempo.prs", "number")
           T == ci \ RowNumbers(text, "ci.runs", "pr")
           a == RowsFor("tempo.prs", "number", S)
           b == RowsFor("ci.runs", "pr", T)
           mid == text \o a
           out == AppendRows(text, prs, ci)
<1>1. out = mid \o b BY DEF AppendRows
<1>2. S \subseteq Prs /\ T \subseteq Prs /\ IsFiniteSet(S) /\ IsFiniteSet(T) BY FS_Subset
<1>3. Pair("tempo.prs", "number") /\ Pair("ci.runs", "pr") BY DEF Pair
<1>4. text \in Seq(FileLines) BY DEF Good
<1>5. Good(mid)
  <2>1. S \cap RowNumbers(text, "tempo.prs", "number") = {} OBVIOUS
  <2> HIDE DEF S
  <2> QED BY <1>2, <1>3, <2>1, GoodRows
<1>6. a \in Seq(FileLines) /\ b \in Seq(FileLines)
  <2> HIDE DEF S, T
  <2>1. a \in Seq(FileLines) BY <1>2, <1>3, <1>4, RowTables
  <2>2. b \in Seq(FileLines) BY <1>2, <1>3, <1>4, RowTables
  <2> QED BY <2>1, <2>2
<1> HIDE DEF S, T, a, b, out
<1>7. \A i \in 1..Len(a) : Opens(a[i]) \/ a[i][2] # "pr"
  <2> TAKE i \in 1..Len(a)
  <2>1. a[i] = <<"[[", "tempo.prs">> \/ \E x \in S : a[i] = Key("number", x)
    BY <1>2, RowsForIs DEF a
  <2> QED BY <2>1, ArrayLine, KeyLine
<1>8. \A i \in 1..Len(b) : Opens(b[i]) \/ b[i][2] # "number"
  <2> TAKE i \in 1..Len(b)
  <2>1. b[i] = <<"[[", "ci.runs">> \/ \E x \in T : b[i] = Key("pr", x)
    BY <1>2, RowsForIs DEF b
  <2> QED BY <2>1, ArrayLine, KeyLine
<1>9. RowNumbers(mid, "ci.runs", "pr") = RowNumbers(text, "ci.runs", "pr")
  BY <1>4, <1>6, <1>7, OthersBehind
<1>10. T \cap RowNumbers(mid, "ci.runs", "pr") = {} BY <1>9 DEF T
<1>11. RowNumbers(mid, "tempo.prs", "number") = RowNumbers(text, "tempo.prs", "number") \cup S
  BY <1>2, <1>4, RowsBehind DEF a
<1>12. mid \in Seq(FileLines) BY <1>5 DEF Good
<1> HIDE DEF mid
<1>13. Good(out)
  <2>1. Good(mid \o RowsFor("ci.runs", "pr", T)) BY <1>2, <1>3, <1>5, <1>10, GoodRows
  <2> QED BY <2>1, <1>1 DEF b
<1>14. RowNumbers(out, "tempo.prs", "number") = RowNumbers(mid, "tempo.prs", "number")
  <2>1. RowNumbers(mid \o b, "tempo.prs", "number") = RowNumbers(mid, "tempo.prs", "number")
    BY <1>6, <1>8, <1>12, OthersBehind
  <2> QED BY <2>1, <1>1
<1>15. RowNumbers(text, "tempo.prs", "number") \cup S = RowNumbers(text, "tempo.prs", "number") \cup prs
  BY DEF S
<1>16. FileEntries(text) \subseteq FileEntries(out)
  <2> SUFFICES ASSUME NEW i \in DOMAIN text, ~ Opens(text[i])
               PROVE  <<TableOf(text, i), text[i]>> \in FileEntries(out)
    BY DEF FileEntries
  <2>1. i \in 1..Len(text) BY <1>4
  <2>2. mid[i] = text[i] /\ TableOf(mid, i) = TableOf(text, i) /\ i \in 1..Len(mid)
    BY <2>1, <1>4, <1>6, TableBehind DEF mid
  <2>3. out[i] = mid[i] /\ TableOf(out, i) = TableOf(mid, i) /\ i \in DOMAIN out
    BY <2>2, <1>1, <1>6, <1>12, TableBehind
  <2>4. ~ Opens(out[i]) /\ <<TableOf(text, i), text[i]>> = <<TableOf(out, i), out[i]>> BY <2>2, <2>3
  <2> QED BY <2>3, <2>4 DEF FileEntries
<1> QED BY <1>11, <1>13, <1>14, <1>15, <1>16 DEF out

\* Where a line was before one was put in at p.
Was(p, i) == IF i < p THEN i ELSE i - 1

LEMMA WasThere ==
  ASSUME NEW X, NEW text \in Seq(X), NEW line \in X, NEW p \in 1..Len(text) + 1, ~ Opens(line)
  PROVE  LET out == InsertAt(text, p, line) IN
         /\ out \in Seq(X) /\ p \in DOMAIN out /\ out[p] = line /\ TableOf(out, p) = TableOf(text, p - 1)
         /\ \A i \in DOMAIN out : i # p =>
              Was(p, i) \in DOMAIN text /\ out[i] = text[Was(p, i)] /\ TableOf(out, i) = TableOf(text, Was(p, i))
         /\ \A i, j \in DOMAIN out : i # p /\ j # p /\ i < j => Was(p, i) < Was(p, j)
         /\ \A i \in DOMAIN text : \E j \in DOMAIN out : out[j] = text[i] /\ TableOf(out, j) = TableOf(text, i)
<1> DEFINE out == InsertAt(text, p, line)
<1>1. /\ out \in Seq(X) /\ Len(out) = Len(text) + 1
      /\ \A i \in 1..p - 1 : i \in 1..Len(text) /\ out[i] = text[i]
      /\ out[p] = line
      /\ \A i \in p..Len(text) : out[i + 1] = text[i]
  BY Inserted
<1>2. /\ \A i \in 1..p - 1 : TableOf(out, i) = TableOf(text, i)
      /\ TableOf(out, p) = TableOf(text, p - 1)
      /\ \A i \in p..Len(text) : TableOf(out, i + 1) = TableOf(text, i)
  BY TableInserted
<1> HIDE DEF out
<1>3. DOMAIN out = 1..Len(text) + 1 /\ DOMAIN text = 1..Len(text) /\ Len(text) \in Nat BY <1>1
<1>4. ASSUME NEW i \in DOMAIN out, i # p
      PROVE  Was(p, i) \in DOMAIN text /\ out[i] = text[Was(p, i)] /\ TableOf(out, i) = TableOf(text, Was(p, i))
  <2>1. CASE i < p
    <3>1. Was(p, i) = i /\ i \in 1..p - 1 BY <2>1, <1>3 DEF Was
    <3> QED BY <3>1, <1>1, <1>2, <1>3
  <2>2. CASE ~ (i < p)
    <3>1. i - 1 \in p..Len(text) /\ i - 1 + 1 = i /\ Was(p, i) = i - 1 /\ i - 1 \in 1..Len(text)
      BY <2>2, <1>3, <1>4 DEF Was
    <3>2. out[i - 1 + 1] = text[i - 1] /\ TableOf(out, i - 1 + 1) = TableOf(text, i - 1)
      BY <3>1, <1>1, <1>2
    <3> QED BY <3>1, <3>2, <1>3
  <2> QED BY <2>1, <2>2
<1>5. \A i, j \in DOMAIN out : i # p /\ j # p /\ i < j => Was(p, i) < Was(p, j) BY <1>3 DEF Was
<1>6. ASSUME NEW i \in DOMAIN text
      PROVE  \E j \in DOMAIN out : out[j] = text[i] /\ TableOf(out, j) = TableOf(text, i)
  <2>1. CASE i \in 1..p - 1 BY <2>1, <1>1, <1>2, <1>3
  <2>2. CASE i \in p..Len(text)
    <3>1. i + 1 \in DOMAIN out BY <2>2, <1>3
    <3>2. out[i + 1] = text[i] /\ TableOf(out, i + 1) = TableOf(text, i) BY <2>2, <1>1, <1>2
    <3> QED BY <3>1, <3>2
  <2> QED BY <2>1, <2>2, <1>3
<1>7. p \in DOMAIN out BY <1>3
<1> QED BY <1>1, <1>2, <1>4, <1>5, <1>6, <1>7 DEF out

\* A line of another kind that is put in leaves a text in order, and the lines there.
LEMMA InsertGood ==
  ASSUME NEW text, Good(text), NEW line \in FileLines, NEW p \in 1..Len(text) + 1, ~ Opens(line),
         line[2] \notin {"number", "pr"},
         line[2] = "last_module" => TableOf(text, p - 1) = <<"[", "idle">>
  PROVE  LET out == InsertAt(text, p, line) IN
         /\ Good(out) /\ FileEntries(text) \subseteq FileEntries(out)
         /\ RowNumbers(out, "tempo.prs", "number") \subseteq RowNumbers(text, "tempo.prs", "number")
<1> DEFINE out == InsertAt(text, p, line)
<1>1. text \in Seq(FileLines) BY DEF Good
<1>2. /\ out \in Seq(FileLines) /\ p \in DOMAIN out /\ out[p] = line /\ TableOf(out, p) = TableOf(text, p - 1)
      /\ \A i \in DOMAIN out : i # p =>
           Was(p, i) \in DOMAIN text /\ out[i] = text[Was(p, i)] /\ TableOf(out, i) = TableOf(text, Was(p, i))
      /\ \A i, j \in DOMAIN out : i # p /\ j # p /\ i < j => Was(p, i) < Was(p, j)
      /\ \A i \in DOMAIN text : \E j \in DOMAIN out : out[j] = text[i] /\ TableOf(out, j) = TableOf(text, i)
  BY <1>1, WasThere
<1>3. RowNumbers(out, "tempo.prs", "number") \subseteq RowNumbers(text, "tempo.prs", "number")
  BY <1>1, RowsInserted
<1> HIDE DEF out
<1>4. RowsSingle(out)
  <2> SUFFICES ASSUME NEW i \in DOMAIN out, NEW j \in DOMAIN out, i < j,
                      TableOf(out, i) \in {<<"[[", "tempo.prs">>, <<"[[", "ci.runs">>},
                      out[i][2] \in {"number", "pr"}, out[j] = out[i]
               PROVE  FALSE
    BY DEF RowsSingle
  <2>1. i # p /\ j # p BY <1>2
  <2>2. /\ Was(p, i) \in DOMAIN text /\ out[i] = text[Was(p, i)] /\ TableOf(out, i) = TableOf(text, Was(p, i))
        /\ Was(p, j) \in DOMAIN text /\ out[j] = text[Was(p, j)] /\ Was(p, i) < Was(p, j)
    BY <1>2, <2>1
  <2> QED BY <2>2 DEF Good, RowsSingle
<1>5. RowsFit(out)
  <2> SUFFICES ASSUME NEW i \in DOMAIN out, out[i][2] \in {"number", "pr"}
               PROVE  /\ TableOf(out, i) = <<"[[", "tempo.prs">> => out[i][2] = "number"
                      /\ TableOf(out, i) = <<"[[", "ci.runs">> => out[i][2] = "pr"
    BY DEF RowsFit
  <2>1. Was(p, i) \in DOMAIN text /\ out[i] = text[Was(p, i)] /\ TableOf(out, i) = TableOf(text, Was(p, i))
    BY <1>2
  <2> QED BY <2>1 DEF Good, RowsFit
<1>6. ModuleAtIdle(out)
  <2> SUFFICES ASSUME NEW i \in DOMAIN out, ~ Opens(out[i]), out[i][2] = "last_module"
               PROVE  TableOf(out, i) = <<"[", "idle">>
    BY DEF ModuleAtIdle
  <2>1. CASE i = p BY <2>1, <1>2
  <2>2. CASE i # p
    <3>1. Was(p, i) \in DOMAIN text /\ out[i] = text[Was(p, i)] /\ TableOf(out, i) = TableOf(text, Was(p, i))
      BY <2>2, <1>2
    <3> QED BY <3>1 DEF Good, ModuleAtIdle
  <2> QED BY <2>1, <2>2
<1>7. OneIdle(out)
  <2> SUFFICES ASSUME NEW i \in DOMAIN out, NEW j \in DOMAIN out, i < j,
                      out[i] = <<"[", "idle">>, out[j] = <<"[", "idle">>
               PROVE  FALSE
    <3>1. DOMAIN out \subseteq Int BY <1>2
    <3> QED BY <3>1 DEF OneIdle
  <2>1. i # p /\ j # p BY <1>2 DEF Opens
  <2>2. /\ Was(p, i) \in DOMAIN text /\ out[i] = text[Was(p, i)]
        /\ Was(p, j) \in DOMAIN text /\ out[j] = text[Was(p, j)] /\ Was(p, i) < Was(p, j)
    BY <1>2, <2>1
  <2>3. Was(p, i) = Was(p, j) BY <2>2 DEF Good, OneIdle
  <2>4. DOMAIN text \subseteq Int BY <1>1
  <2> QED BY <2>2, <2>3, <2>4
<1>8. FileEntries(text) \subseteq FileEntries(out)
  <2> SUFFICES ASSUME NEW i \in DOMAIN text, ~ Opens(text[i])
               PROVE  <<TableOf(text, i), text[i]>> \in FileEntries(out)
    BY DEF FileEntries
  <2>1. PICK j \in DOMAIN out : out[j] = text[i] /\ TableOf(out, j) = TableOf(text, i) BY <1>2
  <2>2. ~ Opens(out[j]) /\ <<TableOf(text, i), text[i]>> = <<TableOf(out, j), out[j]>> BY <2>1
  <2> QED BY <2>2 DEF FileEntries
<1> QED BY <1>2, <1>3, <1>4, <1>5, <1>6, <1>7, <1>8 DEF Good, out

\* A table with one key, written behind a text.
LEMMA TableGood ==
  ASSUME NEW text, Good(text), NEW t \in {"idle", "cadence", "band"}, NEW line \in FileLines,
         ~ Opens(line), line[2] \notin {"number", "pr"}, line[2] = "last_module" => t = "idle",
         t = "idle" => \A i \in DOMAIN text : text[i] # <<"[", "idle">>
  PROVE  LET out == text \o <<<<"[", t>>, line>> IN
         /\ Good(out) /\ FileEntries(text) \subseteq FileEntries(out)
         /\ RowNumbers(out, "tempo.prs", "number") \subseteq RowNumbers(text, "tempo.prs", "number")
         /\ FileEntries(out) \subseteq FileEntries(text) \cup {<<<<"[", t>>, line>>}
         /\ <<<<"[", t>>, line>> \in FileEntries(out)
<1> DEFINE head == <<"[", t>>
           more == <<head, line>>
           out == text \o more
           n == Len(text)
<1>1. text \in Seq(FileLines) /\ n \in Nat /\ DOMAIN text = 1..n BY DEF Good
<1>2. head \in FileLines BY SomeLines
<1>3. Opens(head) /\ head[1] = "[" /\ head[2] = t BY DEF Opens
<1>4. head # <<"[[", "tempo.prs">> /\ head # <<"[[", "ci.runs">>
  <2>1. <<"[[", "tempo.prs">>[1] = "[[" /\ <<"[[", "ci.runs">>[1] = "[[" OBVIOUS
  <2> QED BY <2>1, <1>3
<1> HIDE DEF head
<1>5. more \in Seq(FileLines) /\ Len(more) = 2 /\ more[1] = head /\ more[2] = line BY <1>2
<1> HIDE DEF more
<1>6. out \in Seq(FileLines) /\ DOMAIN out = 1..n + 2 /\ out[n + 1] = head /\ out[n + 2] = line
  <2>0. text \in Seq(FileLines) /\ more \in Seq(FileLines) BY <1>1, <1>5
  <2>1. out \in Seq(FileLines) /\ Len(out) = n + 2
    <3>1. out \in Seq(FileLines) /\ Len(out) = Len(text) + Len(more) BY <2>0
    <3> QED BY <3>1, <1>5
  <2>2. n + 1 \in 1..Len(text) + Len(more) /\ n + 2 \in 1..Len(text) + Len(more)
        /\ n + 1 - Len(text) = 1 /\ n + 2 - Len(text) = 2
    BY <1>1, <1>5
  <2>3. \A i \in 1..Len(text) + Len(more) : i > Len(text) => out[i] = more[i - Len(text)] BY <2>0
  <2>4. out[n + 1] = more[1] /\ out[n + 2] = more[2] BY <1>1, <2>2, <2>3
  <2> QED BY <1>5, <2>1, <2>4
<1>7. \A i \in 1..n : out[i] = text[i] /\ TableOf(out, i) = TableOf(text, i) BY <1>1, <1>5, TableBehind
<1>8. RowNumbers(out, "tempo.prs", "number") = RowNumbers(text, "tempo.prs", "number")
  <2>1. \A i \in 1..Len(more) : Opens(more[i]) \/ more[i][2] # "number" BY <1>3, <1>5
  <2> QED BY <2>1, <1>1, <1>5, OthersBehind
<1> HIDE DEF out, n
<1>9. TableOf(out, n + 1) = head /\ TableOf(out, n + 2) = head
  <2>1. n + 1 \in Nat /\ n + 2 \in Nat /\ n + 1 \in 1..n + 1 /\ n + 1 \in 1..n + 2 BY <1>1
  <2>2. \A g \in n + 1 + 1..n + 1 : ~ Opens(out[g]) BY <1>1
  <2>3. \A g \in n + 1 + 1..n + 2 : ~ Opens(out[g])
    <3> TAKE g \in n + 1 + 1..n + 2
    <3>1. g = n + 2 BY <1>1
    <3> QED BY <3>1, <1>6
  <2>4. Under(out, n + 1, head) BY <2>1, <2>2, <1>3, <1>6 DEF Under
  <2>5. Under(out, n + 2, head) BY <2>1, <2>3, <1>3, <1>6 DEF Under
  <2> QED BY <2>1, <2>4, <2>5, TableIs
<1>10. \A i \in DOMAIN out : i \in 1..n \/ i = n + 1 \/ i = n + 2 BY <1>1, <1>6
<1>11. \A i \in 1..n : i \in DOMAIN text /\ i \in DOMAIN out BY <1>1, <1>6
<1>12. \A i \in DOMAIN out : out[i][2] \in {"number", "pr"} => i \in 1..n BY <1>3, <1>6, <1>10
<1>13. RowsSingle(out)
  <2> SUFFICES ASSUME NEW i \in DOMAIN out, NEW j \in DOMAIN out, i < j,
                      TableOf(out, i) \in {<<"[[", "tempo.prs">>, <<"[[", "ci.runs">>},
                      out[i][2] \in {"number", "pr"}, out[j] = out[i]
               PROVE  FALSE
    BY DEF RowsSingle
  <2>1. i \in 1..n /\ j \in 1..n BY <1>12
  <2>2. out[i] = text[i] /\ TableOf(out, i) = TableOf(text, i) /\ out[j] = text[j] BY <2>1, <1>7
  <2> QED BY <2>1, <2>2, <1>11 DEF Good, RowsSingle
<1>14. RowsFit(out)
  <2> SUFFICES ASSUME NEW i \in DOMAIN out, out[i][2] \in {"number", "pr"}
               PROVE  /\ TableOf(out, i) = <<"[[", "tempo.prs">> => out[i][2] = "number"
                      /\ TableOf(out, i) = <<"[[", "ci.runs">> => out[i][2] = "pr"
    BY DEF RowsFit
  <2>1. i \in 1..n BY <1>12
  <2>2. out[i] = text[i] /\ TableOf(out, i) = TableOf(text, i) BY <2>1, <1>7
  <2> QED BY <2>1, <2>2, <1>11 DEF Good, RowsFit
<1>15. ModuleAtIdle(out)
  <2> SUFFICES ASSUME NEW i \in DOMAIN out, ~ Opens(out[i]), out[i][2] = "last_module"
               PROVE  TableOf(out, i) = <<"[", "idle">>
    BY DEF ModuleAtIdle
  <2>1. CASE i \in 1..n
    <3>1. out[i] = text[i] /\ TableOf(out, i) = TableOf(text, i) BY <2>1, <1>7
    <3> QED BY <2>1, <3>1, <1>11 DEF Good, ModuleAtIdle
  <2>2. CASE i = n + 1 BY <2>2, <1>3, <1>6
  <2>3. CASE i = n + 2 BY <2>3, <1>6, <1>9 DEF head
  <2> QED BY <2>1, <2>2, <2>3, <1>10
<1>16. OneIdle(out)
  <2> SUFFICES ASSUME NEW i \in DOMAIN out, NEW j \in DOMAIN out,
                      out[i] = <<"[", "idle">>, out[j] = <<"[", "idle">>
               PROVE  i = j
    BY DEF OneIdle
  <2>1. Opens(<<"[", "idle">>) /\ <<"[", "idle">>[2] = "idle" BY DEF Opens
  <2>2. i # n + 2 /\ j # n + 2 BY <1>6, <2>1
  <2>3. CASE i \in 1..n /\ j \in 1..n
    <3>1. out[i] = text[i] /\ out[j] = text[j] BY <2>3, <1>7
    <3> QED BY <2>3, <3>1, <1>11 DEF Good, OneIdle
  <2>4. CASE i = n + 1 \/ j = n + 1
    <3>1. t = "idle" BY <2>1, <2>4, <1>3, <1>6
    <3>2. \A k \in 1..n : out[k] # <<"[", "idle">> BY <3>1, <1>7, <1>11
    <3> QED BY <3>2, <2>2, <1>10
  <2> QED BY <2>2, <2>3, <2>4, <1>10
<1>17. FileEntries(text) \subseteq FileEntries(out)
  <2> SUFFICES ASSUME NEW i \in DOMAIN text, ~ Opens(text[i])
               PROVE  <<TableOf(text, i), text[i]>> \in FileEntries(out)
    BY DEF FileEntries
  <2>1. i \in 1..n BY <1>1
  <2>2. out[i] = text[i] /\ TableOf(out, i) = TableOf(text, i) /\ i \in DOMAIN out BY <2>1, <1>7, <1>11
  <2>3. <<TableOf(text, i), text[i]>> = <<TableOf(out, i), out[i]>> /\ ~ Opens(out[i]) BY <2>2
  <2> QED BY <2>2, <2>3 DEF FileEntries
<1>18. FileEntries(out) \subseteq FileEntries(text) \cup {<<head, line>>}
  <2> SUFFICES ASSUME NEW i \in DOMAIN out, ~ Opens(out[i])
               PROVE  <<TableOf(out, i), out[i]>> \in FileEntries(text) \cup {<<head, line>>}
    BY DEF FileEntries
  <2>1. CASE i \in 1..n
    <3>1. out[i] = text[i] /\ TableOf(out, i) = TableOf(text, i) /\ i \in DOMAIN text BY <2>1, <1>7, <1>11
    <3>2. <<TableOf(text, i), text[i]>> = <<TableOf(out, i), out[i]>> /\ ~ Opens(text[i]) BY <3>1
    <3> QED BY <3>1, <3>2 DEF FileEntries
  <2>2. CASE i = n + 1 BY <2>2, <1>3, <1>6
  <2>3. CASE i = n + 2
    <3>1. <<TableOf(out, i), out[i]>> = <<head, line>> BY <2>3, <1>6, <1>9
    <3> QED BY <3>1
  <2> QED BY <2>1, <2>2, <2>3, <1>10
<1>19. <<head, line>> \in FileEntries(out)
  <2>1. n + 2 \in DOMAIN out /\ ~ Opens(out[n + 2]) BY <1>1, <1>6
  <2>2. <<TableOf(out, n + 2), out[n + 2]>> = <<head, line>> BY <1>6, <1>9
  <2> QED BY <2>1, <2>2 DEF FileEntries
<1> QED BY <1>6, <1>8, <1>13, <1>14, <1>15, <1>16, <1>17, <1>18, <1>19 DEF Good, out, head, more

LEMMA FirstFromIs ==
  ASSUME NEW X, NEW text \in Seq(X), NEW from \in Nat, NEW wanted
  PROVE  LET r == FirstFrom(text, from, wanted) IN
         \/ r = Len(text) + 1 /\ \A i \in from..Len(text) : text[i] \notin wanted
         \/ r \in from..Len(text) /\ text[r] \in wanted
<1> DEFINE hits == {i \in from..Len(text) : text[i] \in wanted}
<1>1. CASE hits = {} BY <1>1 DEF FirstFrom
<1>2. CASE hits # {}
  <2>1. hits \subseteq Nat BY SMT
  <2>2. \E i \in hits : \A j \in hits : i <= j BY <1>2, <2>1, LeastNumber
  <2>3. FirstFrom(text, from, wanted) = CHOOSE i \in hits : \A j \in hits : i <= j BY <1>2 DEF FirstFrom
  <2> HIDE DEF hits
  <2>4. FirstFrom(text, from, wanted) \in hits BY <2>2, <2>3
  <2> DEFINE r == FirstFrom(text, from, wanted)
  <2>5. r \in from..Len(text) /\ text[r] \in wanted BY <2>4 DEF hits
  <2> QED BY <2>5
<1> QED BY <1>1, <1>2

\* A key with the name last_module is between the line of [idle] and the next plain table.
LEMMA ModuleInSection ==
  ASSUME NEW text, Good(text), NEW i \in DOMAIN text, ~ Opens(text[i]), text[i][2] = "last_module"
  PROVE  LET start == FirstFrom(text, 1, {<<"[", "idle">>})
             end == FirstFrom(text, start + 1, PlainTables(text))
         IN  start \in 1..Len(text) /\ i \in start + 1..end - 1
<1> DEFINE start == FirstFrom(text, 1, {<<"[", "idle">>})
           end == FirstFrom(text, start + 1, PlainTables(text))
<1>1. text \in Seq(FileLines) /\ Len(text) \in Nat /\ DOMAIN text = 1..Len(text) BY DEF Good
<1>2. TableOf(text, i) = <<"[", "idle">> BY DEF Good, ModuleAtIdle
<1>3. PICK h \in 1..i : text[h] = <<"[", "idle">> /\ \A g \in h + 1..i : ~ Opens(text[g])
  <2>1. Under(text, i, <<"[", "idle">>) BY <1>1, <1>2, TableIs
  <2>2. <<"[", "idle">> # NoTable BY DEF NoTable
  <2> QED BY <2>1, <2>2 DEF Under
<1>4. h \in DOMAIN text BY <1>1
<1>5. start \in 1..Len(text) /\ text[start] = <<"[", "idle">>
  <2> DEFINE opens == {<<"[", "idle">>}
  <2>1. h \in 1..Len(text) /\ text[h] \in opens BY <1>1, <1>3, <1>4
  <2>2. start = FirstFrom(text, 1, opens) OBVIOUS
  <2> HIDE DEF start, opens
  <2>3. start \in 1..Len(text) /\ text[start] \in opens
    <3>1. \/ start = Len(text) + 1 /\ \A j \in 1..Len(text) : text[j] \notin opens
          \/ start \in 1..Len(text) /\ text[start] \in opens
      BY <1>1, <2>2, FirstFromIs
    <3> QED BY <2>1, <3>1
  <2> QED BY <2>3 DEF opens
<1>6. start = h BY <1>3, <1>4, <1>5, <1>1 DEF Good, OneIdle
<1>7. h # i BY <1>3 DEF Opens
<1> HIDE DEF start
<1>8. \/ end = Len(text) + 1
      \/ end \in start + 1..Len(text) /\ text[end] \in PlainTables(text)
  <2>1. start + 1 \in Nat BY <1>5
  <2> QED BY <2>1, <1>1, FirstFromIs
<1>9. \A l \in PlainTables(text) : Opens(l) BY DEF PlainTables, Opens
<1> HIDE DEF end
<1>10. ~ (end \in start + 1..i) BY <1>3, <1>6, <1>8, <1>9, <1>1
<1>11. end > i BY <1>1, <1>6, <1>7, <1>8, <1>10
<1> QED BY <1>1, <1>5, <1>6, <1>7, <1>8, <1>11 DEF start, end

LEMMA LastModuleIs ==
  ASSUME NEW text
  PROVE  /\ \A i \in DOMAIN text : ~ Opens(text[i]) /\ text[i][2] = "last_module"
                /\ TableOf(text, i) = <<"[", "idle">>
              => <<TableOf(text, i), text[i]>> \in LastModule(text)
         /\ \A e \in LastModule(text) : \E i \in DOMAIN text :
              /\ ~ Opens(text[i]) /\ text[i][2] = "last_module" /\ TableOf(text, i) = <<"[", "idle">>
              /\ e = <<TableOf(text, i), text[i]>>
<1>1. ASSUME NEW i \in DOMAIN text, ~ Opens(text[i]), text[i][2] = "last_module",
             TableOf(text, i) = <<"[", "idle">>
      PROVE  <<TableOf(text, i), text[i]>> \in LastModule(text)
  <2>1. <<TableOf(text, i), text[i]>> \in FileEntries(text) BY <1>1 DEF FileEntries
  <2>2. <<TableOf(text, i), text[i]>>[1] = <<"[", "idle">> /\ <<TableOf(text, i), text[i]>>[2][2] = "last_module"
    BY <1>1
  <2> QED BY <2>1, <2>2 DEF LastModule
<1>2. ASSUME NEW e \in LastModule(text)
      PROVE  \E i \in DOMAIN text :
               /\ ~ Opens(text[i]) /\ text[i][2] = "last_module" /\ TableOf(text, i) = <<"[", "idle">>
               /\ e = <<TableOf(text, i), text[i]>>
  <2>1. e \in FileEntries(text) /\ e[1] = <<"[", "idle">> /\ e[2][2] = "last_module" BY DEF LastModule
  <2>2. PICK i \in DOMAIN text : ~ Opens(text[i]) /\ e = <<TableOf(text, i), text[i]>>
    BY <2>1 DEF FileEntries
  <2>3. e[1] = TableOf(text, i) /\ e[2] = text[i] BY <2>2
  <2> QED BY <2>1, <2>2, <2>3
<1> QED BY <1>1, <1>2

\* patch_idle_section keeps a text in order, and of what is there all but last_module,
\* which is the new one then.
LEMMA PatchGood ==
  ASSUME NEW text, Good(text), NEW m \in Modules
  PROVE  LET out == PatchIdleSection(text, m) IN
         /\ Good(out) /\ FileEntries(text) \ LastModule(text) \subseteq FileEntries(out)
         /\ RowNumbers(out, "tempo.prs", "number") \subseteq RowNumbers(text, "tempo.prs", "number")
         /\ LastModule(out) = {<<<<"[", "idle">>, Key("last_module", m)>>}
<1> DEFINE line == Key("last_module", m)
           start == FirstFrom(text, 1, {<<"[", "idle">>})
           end == FirstFrom(text, start + 1, PlainTables(text))
           old == {i \in start + 1..end - 1 : ~ Opens(text[i]) /\ text[i][2] = "last_module"}
           out == PatchIdleSection(text, m)
           idle == <<"[", "idle">>
<1>1. text \in Seq(FileLines) /\ Len(text) \in Nat /\ DOMAIN text = 1..Len(text) BY DEF Good
<1>2. line \in FileLines BY SomeLines
<1>3. ~ Opens(line) /\ line[2] = "last_module" BY KeyLine
<1>4. \A i \in DOMAIN text : ~ Opens(text[i]) /\ text[i][2] = "last_module" =>
        start \in 1..Len(text) /\ i \in old
  BY ModuleInSection
<1>5. out = IF start > Len(text) THEN text \o <<idle, line>>
            ELSE IF old # {} THEN [i \in DOMAIN text |-> IF i \in old THEN line ELSE text[i]]
            ELSE InsertAt(text, start + 1, line)
  BY DEF PatchIdleSection
<1>6. \/ start = Len(text) + 1 /\ \A i \in 1..Len(text) : text[i] \notin {idle}
      \/ start \in 1..Len(text) /\ text[start] \in {idle}
  BY <1>1, FirstFromIs
<1>7. \/ end = Len(text) + 1
      \/ end \in start + 1..Len(text)
  <2>1. start + 1 \in Nat BY <1>1, <1>6
  <2> QED BY <2>1, <1>1, FirstFromIs
<1> HIDE DEF line, start, end, out
<1>8. old \subseteq DOMAIN text BY <1>1, <1>6, <1>7
<1>9. CASE start > Len(text)
  <2>1. out = text \o <<idle, line>> BY <1>5, <1>9
  <2>2. \A i \in DOMAIN text : text[i] # idle
    <3> HIDE DEF idle
    <3>1. start \notin 1..Len(text) BY <1>1, <1>9
    <3> QED BY <1>1, <1>6, <3>1
  <2>3. /\ Good(out) /\ FileEntries(text) \subseteq FileEntries(out)
        /\ RowNumbers(out, "tempo.prs", "number") \subseteq RowNumbers(text, "tempo.prs", "number")
        /\ FileEntries(out) \subseteq FileEntries(text) \cup {<<idle, line>>}
        /\ <<idle, line>> \in FileEntries(out)
    BY <1>2, <1>3, <2>1, <2>2, TableGood
  <2>4. LastModule(text) = {}
    <3> SUFFICES ASSUME NEW e \in LastModule(text) PROVE FALSE OBVIOUS
    <3>1. \E i \in DOMAIN text : ~ Opens(text[i]) /\ text[i][2] = "last_module" BY LastModuleIs
    <3>2. start \in 1..Len(text) BY <3>1, <1>4
    <3> QED BY <3>2, <1>1, <1>9
  <2>5. LastModule(out) \subseteq {<<idle, line>>} BY <2>3, <2>4 DEF LastModule
  <2>6. <<idle, line>> \in LastModule(out)
    <3>1. <<idle, line>>[1] = idle /\ <<idle, line>>[2][2] = "last_module" BY <1>3
    <3> QED BY <2>3, <3>1 DEF LastModule
  <2>7. LastModule(out) = {<<idle, line>>} BY <2>5, <2>6
  <2> QED BY <2>3, <2>7 DEF out, line
<1>10. CASE ~ (start > Len(text)) /\ old # {}
  <2>1. out = [i \in DOMAIN text |-> IF i \in old THEN line ELSE text[i]] BY <1>5, <1>10
  <2>2. /\ \A i \in old : ~ Opens(text[i]) /\ text[i][2] = "last_module"
        /\ \A i \in DOMAIN text : i \notin old => Opens(text[i]) \/ text[i][2] # "last_module"
    BY <1>4
  <2>3. old # {} BY <1>10
  <2> HIDE DEF old
  <2>4. out \in Seq(FileLines) /\ Len(out) = Len(text) /\ DOMAIN out = DOMAIN text
    <3>1. \A i \in DOMAIN text : text[i] \in FileLines BY <1>1
    <3>2. out \in [1..Len(text) -> FileLines] BY <1>1, <1>2, <2>1, <3>1
    <3> QED BY <3>2, <1>1
  <2>5. \A i \in old : out[i] = line BY <2>1, <1>8
  <2>6. \A i \in DOMAIN text : i \notin old => out[i] = text[i] BY <2>1
  <2> HIDE DEF out
  <2>7. \A i \in DOMAIN text : TableOf(out, i) = TableOf(text, i)
    <3>1. \A h \in 1..Len(text) : /\ Opens(out[h]) <=> Opens(text[h])
                                  /\ Opens(text[h]) => out[h] = text[h]
      BY <1>1, <1>3, <2>2, <2>5, <2>6
    <3> QED BY <1>1, <2>4, <3>1, TableChanged
  <2>8. RowNumbers(out, "tempo.prs", "number") \subseteq RowNumbers(text, "tempo.prs", "number")
    <3>1. \A i \in 1..Len(text) :
            out[i] = text[i] \/ (~ Opens(out[i]) /\ ~ Opens(text[i]) /\ out[i][2] # "number")
      BY <1>1, <1>3, <2>2, <2>5, <2>6
    <3> QED BY <1>1, <2>4, <3>1, RowsChanged
  <2>9. \A i \in DOMAIN out : out[i][2] \in {"number", "pr"} => i \notin old BY <2>5, <1>3
  <2>10. RowsSingle(out)
    <3> SUFFICES ASSUME NEW i \in DOMAIN out, NEW j \in DOMAIN out, i < j,
                        TableOf(out, i) \in {<<"[[", "tempo.prs">>, <<"[[", "ci.runs">>},
                        out[i][2] \in {"number", "pr"}, out[j] = out[i]
                 PROVE  FALSE
      BY DEF RowsSingle
    <3>1. i \notin old /\ j \notin old BY <2>9
    <3>2. out[i] = text[i] /\ TableOf(out, i) = TableOf(text, i) /\ out[j] = text[j]
      BY <3>1, <2>4, <2>6, <2>7
    <3> QED BY <3>2, <2>4 DEF Good, RowsSingle
  <2>11. RowsFit(out)
    <3> SUFFICES ASSUME NEW i \in DOMAIN out, out[i][2] \in {"number", "pr"}
                 PROVE  /\ TableOf(out, i) = <<"[[", "tempo.prs">> => out[i][2] = "number"
                        /\ TableOf(out, i) = <<"[[", "ci.runs">> => out[i][2] = "pr"
      BY DEF RowsFit
    <3>1. out[i] = text[i] /\ TableOf(out, i) = TableOf(text, i) BY <2>4, <2>6, <2>7, <2>9
    <3> QED BY <3>1, <2>4 DEF Good, RowsFit
  <2>12. \A i \in old : TableOf(text, i) = idle BY <1>8, <2>2 DEF Good, ModuleAtIdle
  <2>13. \A i \in DOMAIN out : ~ Opens(out[i]) /\ out[i][2] = "last_module" => i \in old
    BY <2>2, <2>4, <2>6
  <2>14. ModuleAtIdle(out)
    <3>1. \A i \in old : TableOf(out, i) = idle BY <1>8, <2>7, <2>12
    <3> QED BY <2>13, <3>1 DEF ModuleAtIdle
  <2>15. OneIdle(out)
    <3>1. \A i \in DOMAIN out : out[i] = idle => i \notin old BY <1>3, <2>5 DEF Opens
    <3>2. \A i \in DOMAIN out : out[i] = idle => text[i] = idle /\ i \in DOMAIN text BY <3>1, <2>4, <2>6
    <3> QED BY <3>2 DEF Good, OneIdle
  <2>16. FileEntries(text) \ LastModule(text) \subseteq FileEntries(out)
    <3> SUFFICES ASSUME NEW i \in DOMAIN text, ~ Opens(text[i]),
                        <<TableOf(text, i), text[i]>> \notin LastModule(text)
                 PROVE  <<TableOf(text, i), text[i]>> \in FileEntries(out)
      BY DEF FileEntries
    <3>1. i \notin old BY <2>2, <2>12, LastModuleIs
    <3>2. out[i] = text[i] /\ TableOf(out, i) = TableOf(text, i) /\ i \in DOMAIN out
      BY <3>1, <2>4, <2>6, <2>7
    <3>3. <<TableOf(text, i), text[i]>> = <<TableOf(out, i), out[i]>> /\ ~ Opens(out[i]) BY <3>2
    <3> QED BY <3>2, <3>3 DEF FileEntries
  <2>17. LastModule(out) = {<<idle, line>>}
    <3>1. \A i \in old : out[i] = line /\ TableOf(out, i) = idle /\ i \in DOMAIN out
      BY <1>8, <2>4, <2>5, <2>7, <2>12
    <3>2. ASSUME NEW e \in LastModule(out) PROVE e = <<idle, line>>
      <4>1. PICK i \in DOMAIN out : /\ ~ Opens(out[i]) /\ out[i][2] = "last_module"
                                    /\ e = <<TableOf(out, i), out[i]>>
        BY LastModuleIs
      <4>2. i \in old BY <4>1, <2>13
      <4> QED BY <4>1, <4>2, <3>1
    <3>3. <<idle, line>> \in LastModule(out)
      <4>1. PICK i \in old : TRUE BY <2>3
      <4>2. out[i] = line /\ TableOf(out, i) = idle /\ i \in DOMAIN out BY <4>1, <3>1
      <4>3. <<TableOf(out, i), out[i]>> \in LastModule(out) BY <4>2, <1>3, LastModuleIs
      <4> QED BY <4>2, <4>3
    <3> QED BY <3>2, <3>3
  <2> QED BY <2>4, <2>8, <2>10, <2>11, <2>14, <2>15, <2>16, <2>17 DEF Good, out, line
<1>11. CASE ~ (start > Len(text)) /\ old = {}
  <2>2. start \in 1..Len(text) /\ text[start] = idle BY <1>1, <1>6, <1>11
  <2>3. PICK p \in 1..Len(text) + 1 : p = start + 1 /\ p - 1 = start BY <2>2
  <2>1. out = InsertAt(text, p, line) BY <1>5, <1>11, <2>3
  <2>4. TableOf(text, start) = idle
    <3>1. start \in Nat /\ start \in 1..start BY <2>2
    <3>2. \A g \in start + 1..start : ~ Opens(text[g]) BY <2>2
    <3>3. Opens(idle) BY DEF Opens
    <3> HIDE DEF idle
    <3>4. Under(text, start, idle) BY <2>2, <3>1, <3>2, <3>3 DEF Under
    <3> QED BY <3>1, <3>4, TableIs
  <2>5. /\ Good(out) /\ FileEntries(text) \subseteq FileEntries(out)
        /\ RowNumbers(out, "tempo.prs", "number") \subseteq RowNumbers(text, "tempo.prs", "number")
    <3>1. TableOf(text, p - 1) = idle BY <2>3, <2>4
    <3> QED BY <1>2, <1>3, <2>1, <2>3, <3>1, InsertGood
  <2>6. \A i \in DOMAIN text : Opens(text[i]) \/ text[i][2] # "last_module" BY <1>4, <1>11
  <2>7. /\ p \in DOMAIN out /\ out[p] = line /\ TableOf(out, p) = TableOf(text, p - 1)
        /\ \A i \in DOMAIN out : i # p => Was(p, i) \in DOMAIN text /\ out[i] = text[Was(p, i)]
    BY <1>1, <1>2, <1>3, <2>1, <2>3, WasThere
  <2>8. TableOf(out, p) = idle
    <3>1. TableOf(text, p - 1) = idle BY <2>3, <2>4
    <3> QED BY <3>1, <2>7
  <2>9. ASSUME NEW e \in LastModule(out) PROVE e = <<idle, line>>
    <3>1. PICK i \in DOMAIN out : /\ ~ Opens(out[i]) /\ out[i][2] = "last_module"
                                  /\ e = <<TableOf(out, i), out[i]>>
      BY LastModuleIs
    <3>2. i = p BY <3>1, <2>6, <2>7
    <3> QED BY <3>1, <3>2, <2>7, <2>8
  <2>10. <<idle, line>> \in LastModule(out)
    <3>1. <<TableOf(out, p), out[p]>> \in LastModule(out) BY <2>7, <2>8, <1>3, LastModuleIs
    <3> QED BY <3>1, <2>7, <2>8
  <2>11. LastModule(out) = {<<idle, line>>} BY <2>9, <2>10
  <2> QED BY <2>5, <2>11 DEF out, line
<1> QED BY <1>9, <1>10, <1>11

\* insert_into_cadence_section takes nothing away.
LEMMA InsertCadenceGood ==
  ASSUME FileAssumption, NEW text, Good(text), NEW skill \in Skills
  PROVE  LET out == InsertIntoCadenceSection(text, skill) IN
         /\ Good(out) /\ FileEntries(text) \subseteq FileEntries(out)
         /\ RowNumbers(out, "tempo.prs", "number") \subseteq RowNumbers(text, "tempo.prs", "number")
<1> DEFINE line == Key(skill, "*/30")
           start == FirstFrom(text, 1, {<<"[", "cadence">>})
           end == FirstFrom(text, start + 1, PlainTables(text))
           out == InsertIntoCadenceSection(text, skill)
<1>1. text \in Seq(FileLines) /\ Len(text) \in Nat BY DEF Good
<1>2. line \in FileLines /\ ~ Opens(line) /\ line[2] = skill BY SomeLines, KeyLine
<1>3. skill \notin {"number", "pr"} /\ skill # "last_module" BY DEF Skills, FileAssumption
<1>4. out = IF start > Len(text) THEN text \o <<<<"[", "cadence">>, line>> ELSE InsertAt(text, end, line)
  BY DEF InsertIntoCadenceSection
<1>5. start = Len(text) + 1 \/ start \in 1..Len(text) BY <1>1, FirstFromIs
<1>6. end = Len(text) + 1 \/ end \in start + 1..Len(text)
  <2>1. start + 1 \in Nat BY <1>1, <1>5
  <2> QED BY <2>1, <1>1, FirstFromIs
<1> HIDE DEF line, start, end, out
<1>7. CASE start > Len(text)
  <2>1. out = text \o <<<<"[", "cadence">>, line>> BY <1>4, <1>7
  <2> QED BY <2>1, <1>2, <1>3, TableGood DEF out
<1>8. CASE ~ (start > Len(text))
  <2>1. end \in 1..Len(text) + 1 BY <1>1, <1>5, <1>6, <1>8
  <2>2. out = InsertAt(text, end, line) BY <1>4, <1>8
  <2> QED BY <2>1, <2>2, <1>2, <1>3, InsertGood DEF out
<1> QED BY <1>7, <1>8

-----------------------------------------------------------------------------
(* The invariant.                                                          *)

Fin == {S \in SUBSET Prs : IsFiniteSet(S)}
Steps == {"read", "truncate", "fill"}

JobOk(j) ==
  /\ DOMAIN j = {"at", "kind", "own", "read", "out", "alone"}
  /\ j.at \in Steps /\ j.alone \in BOOLEAN /\ Good(j.read) /\ Good(j.out)
  /\ \/ j.kind = "rows" /\ j.own \in Fin \X Fin
     \/ j.kind = "idle" /\ j.own \in Modules
     \/ j.kind \in {"begin", "ensure"} /\ j.own \in Seq(Skills)

\* What a job that is about to write has made of what it has read.
Made(j) ==
  j.at \in {"truncate", "fill"} =>
    /\ j.kind = "rows" => j.out = AppendRows(j.read, j.own[1], j.own[2])
    /\ j.kind = "idle" => j.out = PatchIdleSection(j.read, j.own)
    /\ j.kind = "begin" => j.own # <<>> /\ j.out = InsertIntoCadenceSection(j.read, Head(j.own))
    /\ j.kind = "ensure" => j.read = <<>>

\* Rows are about pull requests that are closed.
Told(text, c) == RowNumbers(text, "tempo.prs", "number") \subseteq c
Knows(j, c) == Made(j) /\ Told(j.out, c) /\ (j.kind = "rows" => j.own[1] \subseteq c)

\* A job that was nowhere near another one knows every row there was.
Current(j, text) ==
  j.kind = "rows" =>
    RowNumbers(IF j.at = "read" THEN text ELSE j.read, "tempo.prs", "number") \subseteq j.own[1]

FileTypes ==
  /\ Good(lines) /\ Told(lines, closed) /\ closed \in Fin
  /\ DOMAIN fileJob = FileWriters
  /\ \A p \in FileWriters : fileJob[p] = NoJob \/ (JobOk(fileJob[p]) /\ Knows(fileJob[p], closed))

Lone ==
  \A p \in FileWriters : fileJob[p] # NoJob /\ fileJob[p].alone =>
    Current(fileJob[p], lines) /\ \A q \in FileWriters \ {p} : fileJob[q] = NoJob

FileInv == FileTypes /\ Lone

LEMMA NoneIsNoJob ==
  ASSUME FileTypes, NEW p \in FileWriters
  PROVE  /\ fileJob[p] = NoJob \/ JobOk(fileJob[p])
         /\ fileJob[p].at = "none" <=> fileJob[p] = NoJob
BY DEF FileTypes, JobOk, Steps, NoJob

LEMMA NumbersFinite ==
  ASSUME NEW X, NEW text \in Seq(X), NEW t, NEW k
  PROVE  IsFiniteSet(RowNumbers(text, t, k))
<1> DEFINE M == {j \in DOMAIN text : InRow(text, j, t, k)}
           f == [i \in M |-> text[i][3]]
           T == RowNumbers(text, t, k)
<1>1. T = {text[i][3] : i \in M} BY RowNumbersAre
<1>2. IsFiniteSet(M)
  <2>1. IsFiniteSet(1..Len(text)) BY FS_Interval
  <2>2. M \in SUBSET (1..Len(text)) OBVIOUS
  <2> HIDE DEF M
  <2> QED BY <2>1, <2>2, FS_Subset
<1> HIDE DEF M, T
<1>3. f \in Surjection(M, T) BY <1>1 DEF Surjection
<1> QED BY <1>2, <1>3, FS_Surjection DEF T

LEMMA EmptyGood == Good(<<>>) /\ RowNumbers(<<>>, "tempo.prs", "number") = {}
<1>1. <<>> \in Seq(FileLines) /\ DOMAIN <<>> = {} OBVIOUS
<1> QED BY <1>1 DEF Good, RowsSingle, RowsFit, ModuleAtIdle, OneIdle, RowNumbers

LEMMA MinimalGood == Good(Minimal) /\ RowNumbers(Minimal, "tempo.prs", "number") = {}
<1>1. Minimal \in Seq(FileLines) /\ DOMAIN Minimal = {1} BY SomeLines DEF Minimal
<1>2. Minimal[1] = Key("project_tag", "tag") BY DEF Minimal
<1>3. ~ Opens(Minimal[1]) /\ Minimal[1][2] = "project_tag" BY <1>2, KeyLine
<1> HIDE DEF Minimal
<1>4. Minimal[1] # <<"[", "idle">> BY <1>3 DEF Opens
<1>5. RowNumbers(Minimal, "tempo.prs", "number") = {} BY <1>1, <1>3 DEF RowNumbers
<1> QED BY <1>1, <1>3, <1>4, <1>5 DEF Good, RowsSingle, RowsFit, ModuleAtIdle, OneIdle

LEMMA FileInitInv ==
  ASSUME FileAssumption, FileInit
  PROVE  FileInv
<1>1. lines \in FirstFiles BY DEF FileInit
<1>2. lines \in Seq(FileLines)
  <2>1. lines \in Seq(FirstLines) BY <1>1 DEF FileAssumption, FirstLines
  <2>2. FirstLines \subseteq FileLines BY DEF FileLines
  <2> QED BY <2>1, <2>2
<1>3. Readable(lines) /\ RowsSingle(lines) /\ RowsFit(lines) /\ ModuleAtIdle(lines)
  BY <1>1 DEF FileAssumption
<1>4. OneIdle(lines)
  <2> SUFFICES ASSUME NEW i \in DOMAIN lines, NEW j \in DOMAIN lines, i < j,
                      lines[i] = <<"[", "idle">>, lines[j] = <<"[", "idle">>
               PROVE  FALSE
    <3>1. DOMAIN lines \subseteq Int BY <1>2
    <3> QED BY <3>1 DEF OneIdle
  <2>1. Opens(lines[i]) /\ lines[i][1] = "[" BY DEF Opens
  <2> QED BY <2>1, <1>3 DEF Readable
<1>5. closed = RowNumbers(lines, "tempo.prs", "number") \cup RowNumbers(lines, "ci.runs", "pr")
  BY DEF FileInit
<1>6. closed \in Fin
  <2>1. closed \subseteq Prs BY <1>1, <1>5 DEF Prs
  <2>2. IsFiniteSet(closed) BY <1>2, <1>5, NumbersFinite, FS_Union
  <2> QED BY <2>1, <2>2 DEF Fin
<1>7. Told(lines, closed) BY <1>5 DEF Told
<1>8. DOMAIN fileJob = FileWriters /\ \A p \in FileWriters : fileJob[p] = NoJob BY DEF FileInit
<1>9. Good(lines) BY <1>2, <1>3, <1>4 DEF Good
<1> QED BY <1>6, <1>7, <1>8, <1>9 DEF FileInv, FileTypes, Lone

\* One process goes on, and what it leaves behind is in order.
LEMMA ProcessStep ==
  ASSUME FileInv, NEW p \in FileWriters, fileJob[p] # NoJob, NEW j,
         fileJob' = [fileJob EXCEPT ![p] = j], closed' = closed,
         Good(lines'), Told(lines', closed),
         j # NoJob =>
           /\ JobOk(j) /\ Knows(j, closed)
           /\ j.alone => fileJob[p].alone /\ Current(j, lines')
  PROVE  FileInv'
<1>1. DOMAIN fileJob = FileWriters BY DEF FileInv, FileTypes
<1>2. fileJob'[p] = j /\ DOMAIN fileJob' = FileWriters /\ \A q \in FileWriters \ {p} : fileJob'[q] = fileJob[q]
  BY <1>1
<1>3. FileTypes'
  <2>1. \A q \in FileWriters : fileJob'[q] = NoJob \/ (JobOk(fileJob'[q]) /\ Knows(fileJob'[q], closed'))
    <3> TAKE q \in FileWriters
    <3>1. CASE q = p BY <3>1, <1>2
    <3>2. CASE q # p
      <4>1. fileJob[q] = NoJob \/ (JobOk(fileJob[q]) /\ Knows(fileJob[q], closed)) BY DEF FileInv, FileTypes
      <4> QED BY <3>2, <4>1, <1>2
    <3> QED BY <3>1, <3>2
  <2>2. closed \in Fin BY DEF FileInv, FileTypes
  <2>3. closed' \in Fin /\ Good(lines') /\ Told(lines', closed') BY <2>2 DEF Fin
  <2> QED BY <1>2, <2>1, <2>3 DEF FileTypes, Fin
<1>4. Lone'
  <2> SUFFICES ASSUME NEW q \in FileWriters, fileJob'[q] # NoJob, fileJob'[q].alone
               PROVE  Current(fileJob'[q], lines') /\ \A r \in FileWriters \ {q} : fileJob'[r] = NoJob
    BY DEF Lone, NoJob
  <2>1. CASE q # p
    <3>1. fileJob[q] # NoJob /\ fileJob[q].alone BY <2>1, <1>2
    <3>2. fileJob[p] = NoJob BY <2>1, <3>1 DEF FileInv, Lone
    <3> QED BY <3>2
  <2>2. CASE q = p
    <3>1. j # NoJob /\ j.alone /\ fileJob[p].alone /\ Current(j, lines') BY <2>2, <1>2
    <3>2. \A r \in FileWriters \ {p} : fileJob[r] = NoJob
      BY <3>1 DEF FileInv, Lone
    <3> QED BY <2>2, <3>1, <3>2, <1>2
  <2> QED BY <2>1, <2>2
<1> QED BY <1>3, <1>4 DEF FileInv

\* A job as it is in the invariant.
LEMMA JobIs ==
  ASSUME FileInv, NEW p \in FileWriters, fileJob[p].at # "none"
  PROVE  /\ fileJob[p] # NoJob /\ JobOk(fileJob[p]) /\ Knows(fileJob[p], closed)
         /\ fileJob[p].alone => Current(fileJob[p], lines)
BY DEF FileInv, FileTypes, Lone, NoJob

LEMMA StartJobStep ==
  ASSUME FileInv, NEW p \in FileWriters, NEW kind, NEW own, StartJob(p, kind, own),
         \/ kind = "rows" /\ own \in Fin \X Fin /\ own[1] = closed
         \/ kind = "idle" /\ own \in Modules
         \/ kind \in {"begin", "ensure"} /\ own \in Seq(Skills)
  PROVE  FileInv'
<1> DEFINE all == \A r \in FileWriters : fileJob[r].at = "none"
           j == [at |-> "read", kind |-> kind, own |-> own, read |-> <<>>, out |-> <<>>, alone |-> all]
<1>1. /\ fileJob[p].at = "none" /\ UNCHANGED <<lines, closed>>
      /\ fileJob' = [q \in FileWriters |->
           IF q = p THEN j ELSE IF fileJob[q].at = "none" THEN NoJob ELSE [fileJob[q] EXCEPT !.alone = FALSE]]
  BY DEF StartJob
<1>2. fileJob'[p] = j /\ DOMAIN fileJob' = FileWriters BY <1>1
<1>3. JobOk(j) /\ Knows(j, closed) /\ (j.alone => Current(j, lines))
  <2>1. all \in BOOLEAN OBVIOUS
  <2> HIDE DEF all
  <2>2. j.at = "read" /\ j.kind = kind /\ j.own = own /\ j.read = <<>> /\ j.out = <<>> /\ j.alone = all
    OBVIOUS
  <2>3. DOMAIN j = {"at", "kind", "own", "read", "out", "alone"} OBVIOUS
  <2> HIDE DEF j
  <2>4. JobOk(j) BY <2>1, <2>2, <2>3, EmptyGood DEF JobOk, Steps
  <2>5. Knows(j, closed) BY <2>2, EmptyGood DEF Knows, Made, Told
  <2>6. RowNumbers(lines, "tempo.prs", "number") \subseteq closed BY DEF FileInv, FileTypes, Told
  <2>7. Current(j, lines) BY <2>2, <2>6 DEF Current
  <2> QED BY <2>4, <2>5, <2>7
<1>4. ASSUME NEW q \in FileWriters, q # p
      PROVE  /\ fileJob'[q] = NoJob \/ (JobOk(fileJob'[q]) /\ Knows(fileJob'[q], closed) /\ ~ fileJob'[q].alone)
             /\ all => fileJob'[q] = NoJob
  <2>1. CASE fileJob[q].at = "none" BY <1>1, <1>4, <2>1
  <2>2. CASE fileJob[q].at # "none"
    <3> DEFINE i == fileJob[q]
               n == [fileJob[q] EXCEPT !.alone = FALSE]
    <3>1. JobOk(i) /\ Knows(i, closed) BY <2>2, JobIs
    <3>2. DOMAIN i = {"at", "kind", "own", "read", "out", "alone"} BY <3>1 DEF JobOk
    <3>3. n.at = i.at /\ n.kind = i.kind /\ n.own = i.own /\ n.read = i.read /\ n.out = i.out
          /\ n.alone = FALSE /\ DOMAIN n = DOMAIN i
      BY <3>2
    <3>4. fileJob'[q] = n BY <1>1, <1>4, <2>2
    <3>5. ~ all BY <2>2
    <3> HIDE DEF i, n, all
    <3>6. JobOk(n) BY <3>1, <3>3 DEF JobOk
    <3>7. Knows(n, closed) BY <3>1, <3>3 DEF Knows, Made
    <3> QED BY <3>3, <3>4, <3>5, <3>6, <3>7
  <2> QED BY <2>1, <2>2
<1> HIDE DEF j
<1>5. FileTypes'
  <2>1. \A q \in FileWriters : fileJob'[q] = NoJob \/ (JobOk(fileJob'[q]) /\ Knows(fileJob'[q], closed'))
    BY <1>1, <1>2, <1>3, <1>4
  <2>2. Good(lines') /\ Told(lines', closed') /\ closed' \in Fin BY <1>1 DEF FileInv, FileTypes
  <2> QED BY <1>2, <2>1, <2>2 DEF FileTypes
<1>6. Lone'
  <2> SUFFICES ASSUME NEW q \in FileWriters, fileJob'[q] # NoJob, fileJob'[q].alone
               PROVE  Current(fileJob'[q], lines') /\ \A r \in FileWriters \ {q} : fileJob'[r] = NoJob
    BY DEF Lone, NoJob
  <2>1. q = p BY <1>4
  <2>2. j.alone BY <2>1, <1>2
  <2>3. all BY <2>2 DEF j
  <2> QED BY <2>1, <2>2, <2>3, <1>1, <1>2, <1>3, <1>4
<1> QED BY <1>5, <1>6 DEF FileInv

LEMMA CarryStep ==
  ASSUME FileInv, NEW p \in FileWriters, fileJob[p].at = "read",
         NEW text, NEW next, Carry(p, text, next),
         Good(text), Good(next), Told(next, closed),
         fileJob[p].kind = "rows" => text = lines /\ next = AppendRows(text, fileJob[p].own[1], fileJob[p].own[2]),
         fileJob[p].kind = "idle" => next = PatchIdleSection(text, fileJob[p].own),
         fileJob[p].kind = "begin" =>
           fileJob[p].own # <<>> /\ next = InsertIntoCadenceSection(text, Head(fileJob[p].own)),
         fileJob[p].kind = "ensure" => text = <<>>
  PROVE  FileInv'
<1> DEFINE i == fileJob[p]
           j == [fileJob[p] EXCEPT !.at = "truncate", !.read = text, !.out = next]
<1>1. /\ i # NoJob /\ JobOk(i) /\ Knows(i, closed)
      /\ i.alone => Current(i, lines)
  BY JobIs
<1>2. lines' = lines /\ closed' = closed /\ Good(lines') /\ Told(lines', closed)
  BY DEF Carry, FileInv, FileTypes
<1>3. CASE next = text /\ fileJob[p].kind = "rows"
  <2>1. fileJob' = [fileJob EXCEPT ![p] = NoJob] BY <1>3 DEF Carry, EndJob
  <2> QED BY <1>1, <1>2, <2>1, ProcessStep
<1>4. CASE ~ (next = text /\ fileJob[p].kind = "rows")
  <2>1. fileJob' = [fileJob EXCEPT ![p] = j] BY <1>4 DEF Carry, FileInv, FileTypes
  <2>2. DOMAIN i = {"at", "kind", "own", "read", "out", "alone"} BY <1>1 DEF JobOk
  <2>3. /\ j.at = "truncate" /\ j.kind = i.kind /\ j.own = i.own /\ j.read = text /\ j.out = next
        /\ j.alone = i.alone /\ DOMAIN j = DOMAIN i
    BY <2>2
  <2> HIDE DEF j
  <2>4. JobOk(j) BY <1>1, <2>3 DEF JobOk, Steps
  <2>5. Knows(j, closed) BY <1>1, <2>3 DEF Knows, Made
  <2>6. i.alone => Current(j, lines') BY <1>1, <1>2, <2>3 DEF Current
  <2> QED BY <1>1, <1>2, <2>1, <2>3, <2>4, <2>5, <2>6, ProcessStep
<1> QED BY <1>3, <1>4

LEMMA ReadForRowsStep ==
  ASSUME FileInv, NEW p \in FileWriters, ReadForRows(p)
  PROVE  FileInv'
<1> DEFINE own == fileJob[p].own
           next == AppendRows(lines, own[1], own[2])
<1>1. fileJob[p].at = "read" /\ fileJob[p].kind = "rows" /\ Carry(p, lines, next) BY DEF ReadForRows
<1>2. JobOk(fileJob[p]) /\ Knows(fileJob[p], closed) BY <1>1, JobIs
<1>3. own \in Fin \X Fin /\ own[1] \subseteq closed BY <1>1, <1>2 DEF JobOk, Knows
<1>4. own[1] \in Fin /\ own[2] \in Fin BY <1>3
<1>5. Good(lines) /\ Told(lines, closed) BY DEF FileInv, FileTypes
<1> HIDE DEF own
<1>6. own[1] \in SUBSET Prs /\ own[2] \in SUBSET Prs /\ IsFiniteSet(own[1]) /\ IsFiniteSet(own[2])
  BY <1>4 DEF Fin
<1>7. /\ Good(next)
      /\ RowNumbers(next, "tempo.prs", "number") = RowNumbers(lines, "tempo.prs", "number") \cup own[1]
  BY <1>5, <1>6, AppendRowsGood
<1>8. Told(next, closed) BY <1>3, <1>5, <1>7 DEF Told
<1>9. next = AppendRows(lines, fileJob[p].own[1], fileJob[p].own[2]) BY DEF own
<1> HIDE DEF next
<1> QED BY <1>1, <1>5, <1>7, <1>8, <1>9, CarryStep

LEMMA ReadForIdleStep ==
  ASSUME FileInv, NEW p \in FileWriters, ReadForIdle(p)
  PROVE  FileInv'
<1> DEFINE next == PatchIdleSection(lines, fileJob[p].own)
<1>1. fileJob[p].at = "read" /\ fileJob[p].kind = "idle" /\ Carry(p, lines, next) BY DEF ReadForIdle
<1>2. fileJob[p].own \in Modules BY <1>1, JobIs DEF JobOk
<1>3. Good(lines) /\ Told(lines, closed) BY DEF FileInv, FileTypes
<1>4. /\ Good(next)
      /\ RowNumbers(next, "tempo.prs", "number") \subseteq RowNumbers(lines, "tempo.prs", "number")
  BY <1>2, <1>3, PatchGood
<1> HIDE DEF next
<1>5. Told(next, closed) BY <1>3, <1>4 DEF Told
<1> USE DEF next
<1> QED BY <1>1, <1>3, <1>4, <1>5, CarryStep

LEMMA EnsureStep ==
  ASSUME FileInv, NEW p \in FileWriters, EnsureDotConductr(p)
  PROVE  FileInv'
<1> DEFINE i == fileJob[p]
           j == [fileJob[p] EXCEPT !.kind = "begin"]
<1>1. i.at = "read" /\ i.kind = "ensure" BY DEF EnsureDotConductr
<1>2. i # NoJob /\ JobOk(i) /\ Knows(i, closed) BY <1>1, JobIs
<1>3. CASE ~ exists
  <2>1. Carry(p, <<>>, Minimal) BY <1>3 DEF EnsureDotConductr
  <2>2. Told(Minimal, closed) BY MinimalGood DEF Told
  <2> QED BY <1>1, <2>1, <2>2, EmptyGood, MinimalGood, CarryStep
<1>4. CASE exists
  <2>1. lines' = lines /\ closed' = closed /\ fileJob' = [fileJob EXCEPT ![p] = j]
    BY <1>4 DEF EnsureDotConductr, FileInv, FileTypes
  <2>2. Good(lines') /\ Told(lines', closed) BY <2>1 DEF FileInv, FileTypes
  <2>3. DOMAIN i = {"at", "kind", "own", "read", "out", "alone"} BY <1>2 DEF JobOk
  <2>4. /\ j.at = "read" /\ j.kind = "begin" /\ j.own = i.own /\ j.read = i.read /\ j.out = i.out
        /\ j.alone = i.alone /\ DOMAIN j = DOMAIN i
    BY <1>1, <2>3
  <2> HIDE DEF j
  <2>5. JobOk(j) BY <1>1, <1>2, <2>4 DEF JobOk, Steps
  <2>6. Knows(j, closed) BY <1>2, <2>4 DEF Knows, Made
  <2>7. Current(j, lines') BY <2>4 DEF Current
  <2> QED BY <1>2, <2>1, <2>2, <2>4, <2>5, <2>6, <2>7, ProcessStep
<1> QED BY <1>3, <1>4

LEMMA UpsertStep ==
  ASSUME FileAssumption, FileInv, NEW p \in FileWriters, UpsertCadenceEntry(p)
  PROVE  FileInv'
<1> DEFINE i == fileJob[p]
<1>1. i.at = "read" /\ i.kind = "begin" BY DEF UpsertCadenceEntry
<1>2. i # NoJob /\ JobOk(i) /\ Knows(i, closed) BY <1>1, JobIs
<1>3. i.own \in Seq(Skills) BY <1>1, <1>2 DEF JobOk
<1>4. Good(lines) /\ Told(lines, closed) BY DEF FileInv, FileTypes
<1>5. CASE fileJob[p].own = <<>> \/ ~ exists \/ ~ Readable(lines)
  <2>1. lines' = lines /\ closed' = closed /\ fileJob' = [fileJob EXCEPT ![p] = NoJob]
    BY <1>5 DEF UpsertCadenceEntry, EndJob
  <2> QED BY <1>2, <1>4, <2>1, ProcessStep
<1>6. ASSUME ~ (fileJob[p].own = <<>> \/ ~ exists \/ ~ Readable(lines)),
             Head(fileJob[p].own) \in ScheduledSkills(lines)
      PROVE  FileInv'
  <2> DEFINE j == [fileJob[p] EXCEPT !.own = Tail(i.own)]
  <2>1. lines' = lines /\ closed' = closed /\ fileJob' = [fileJob EXCEPT ![p] = j]
    BY <1>6 DEF UpsertCadenceEntry, FileInv, FileTypes
  <2>2. DOMAIN i = {"at", "kind", "own", "read", "out", "alone"} BY <1>2 DEF JobOk
  <2>3. /\ j.at = "read" /\ j.kind = "begin" /\ j.own = Tail(i.own) /\ j.read = i.read /\ j.out = i.out
        /\ j.alone = i.alone /\ DOMAIN j = DOMAIN i
    BY <1>1, <2>2
  <2>4. Tail(i.own) \in Seq(Skills) BY <1>3, <1>6
  <2> HIDE DEF j
  <2>5. JobOk(j) BY <1>1, <1>2, <2>3, <2>4 DEF JobOk, Steps
  <2>6. Knows(j, closed) BY <1>2, <2>3 DEF Knows, Made
  <2>7. Current(j, lines') BY <2>3 DEF Current
  <2> QED BY <1>2, <1>4, <2>1, <2>3, <2>5, <2>6, <2>7, ProcessStep
<1>7. ASSUME ~ (fileJob[p].own = <<>> \/ ~ exists \/ ~ Readable(lines)),
             ~ (Head(fileJob[p].own) \in ScheduledSkills(lines))
      PROVE  FileInv'
  <2> DEFINE next == InsertIntoCadenceSection(lines, Head(i.own))
  <2>1. Carry(p, lines, next) BY <1>7 DEF UpsertCadenceEntry
  <2>2. Head(i.own) \in Skills BY <1>3, <1>7
  <2>3. /\ Good(next)
        /\ RowNumbers(next, "tempo.prs", "number") \subseteq RowNumbers(lines, "tempo.prs", "number")
    BY <1>4, <2>2, InsertCadenceGood
  <2> HIDE DEF next
  <2>4. Told(next, closed) BY <1>4, <2>3 DEF Told
  <2> USE DEF next
  <2> QED BY <1>1, <1>4, <1>7, <2>1, <2>3, <2>4, CarryStep
<1> QED BY <1>5, <1>6, <1>7

LEMMA TruncateStep ==
  ASSUME FileInv, NEW p \in FileWriters, Truncate(p)
  PROVE  FileInv'
<1> DEFINE i == fileJob[p]
           j == [fileJob[p] EXCEPT !.at = "fill"]
<1>1. i.at = "truncate" /\ lines' = <<>> /\ closed' = closed BY DEF Truncate
<1>2. fileJob' = [fileJob EXCEPT ![p] = j] BY DEF Truncate, FileInv, FileTypes
<1>3. /\ i # NoJob /\ JobOk(i) /\ Knows(i, closed)
      /\ i.alone => Current(i, lines)
  BY <1>1, JobIs
<1>4. Good(lines') /\ Told(lines', closed) BY <1>1, EmptyGood DEF Told
<1>5. DOMAIN i = {"at", "kind", "own", "read", "out", "alone"} BY <1>3 DEF JobOk
<1>6. /\ j.at = "fill" /\ j.kind = i.kind /\ j.own = i.own /\ j.read = i.read /\ j.out = i.out
      /\ j.alone = i.alone /\ DOMAIN j = DOMAIN i
  BY <1>5
<1> HIDE DEF j
<1>7. JobOk(j) BY <1>3, <1>6 DEF JobOk, Steps
<1>8. Knows(j, closed) BY <1>1, <1>3, <1>6 DEF Knows, Made
<1>9. i.alone => Current(j, lines') BY <1>1, <1>3, <1>6 DEF Current
<1> QED BY <1>1, <1>2, <1>3, <1>4, <1>6, <1>7, <1>8, <1>9, ProcessStep

LEMMA FillStep ==
  ASSUME FileInv, NEW p \in FileWriters, Fill(p)
  PROVE  FileInv'
<1> DEFINE i == fileJob[p]
           back == [i EXCEPT !.at = "read", !.kind = "begin"]
           next == [i EXCEPT !.at = "read", !.own = Tail(i.own)]
<1>1. i.at = "fill" /\ lines' = i.out /\ closed' = closed BY DEF Fill
<1>2. fileJob' = [fileJob EXCEPT ![p] = CASE i.kind = "ensure" -> back [] i.kind = "begin" -> next [] OTHER -> NoJob]
  BY DEF Fill, FileInv, FileTypes
<1>3. i # NoJob /\ JobOk(i) /\ Knows(i, closed) BY <1>1, JobIs
<1>4. Good(lines') /\ Told(lines', closed) BY <1>1, <1>3 DEF JobOk, Knows
<1>5. DOMAIN i = {"at", "kind", "own", "read", "out", "alone"} BY <1>3 DEF JobOk
<1>6. CASE i.kind = "ensure"
  <2>1. fileJob' = [fileJob EXCEPT ![p] = back] BY <1>2, <1>6
  <2>2. /\ back.at = "read" /\ back.kind = "begin" /\ back.own = i.own /\ back.read = i.read
        /\ back.out = i.out /\ back.alone = i.alone /\ DOMAIN back = DOMAIN i
    BY <1>5
  <2> HIDE DEF back
  <2>3. JobOk(back) BY <1>3, <1>6, <2>2 DEF JobOk, Steps
  <2>4. Knows(back, closed) BY <1>3, <2>2 DEF Knows, Made
  <2>5. Current(back, lines') BY <2>2 DEF Current
  <2> QED BY <1>1, <1>3, <1>4, <2>1, <2>2, <2>3, <2>4, <2>5, ProcessStep
<1>7. CASE i.kind = "begin"
  <2>1. fileJob' = [fileJob EXCEPT ![p] = next] BY <1>2, <1>7
  <2>2. /\ next.at = "read" /\ next.kind = "begin" /\ next.own = Tail(i.own) /\ next.read = i.read
        /\ next.out = i.out /\ next.alone = i.alone /\ DOMAIN next = DOMAIN i
    BY <1>5, <1>7
  <2>3. i.own \in Seq(Skills) /\ i.own # <<>> BY <1>1, <1>3, <1>7 DEF JobOk, Knows, Made
  <2>4. Tail(i.own) \in Seq(Skills) BY <2>3
  <2> HIDE DEF next
  <2>5. JobOk(next) BY <1>3, <2>2, <2>4 DEF JobOk, Steps
  <2>6. Knows(next, closed) BY <1>3, <2>2 DEF Knows, Made
  <2>7. Current(next, lines') BY <2>2 DEF Current
  <2> QED BY <1>1, <1>3, <1>4, <2>1, <2>2, <2>5, <2>6, <2>7, ProcessStep
<1>8. CASE i.kind \notin {"ensure", "begin"}
  <2>1. fileJob' = [fileJob EXCEPT ![p] = NoJob] BY <1>2, <1>8
  <2> QED BY <1>1, <1>3, <1>4, <2>1, ProcessStep
<1> QED BY <1>6, <1>7, <1>8

LEMMA WriterDiesStep ==
  ASSUME FileInv, NEW p \in FileWriters, WriterDies(p)
  PROVE  FileInv'
<1>1. /\ fileJob[p].at # "none" /\ lines' = lines /\ closed' = closed
      /\ fileJob' = [fileJob EXCEPT ![p] = NoJob]
  BY DEF WriterDies, EndJob
<1>2. fileJob[p] # NoJob BY <1>1, JobIs
<1>3. Good(lines') /\ Told(lines', closed) BY <1>1 DEF FileInv, FileTypes
<1> QED BY <1>1, <1>2, <1>3, ProcessStep

LEMMA PrClosesStep ==
  ASSUME FileInv, NEW pr \in ClosedPrs, PrCloses(pr)
  PROVE  FileInv'
<1>1. closed' = closed \cup {pr} /\ lines' = lines /\ fileJob' = fileJob BY DEF PrCloses
<1>2. closed \in Fin BY DEF FileInv, FileTypes
<1>3. pr \in Prs BY DEF Prs
<1>4. closed' \in Fin BY <1>1, <1>2, <1>3, FS_AddElement DEF Fin
<1>5. \A text : Told(text, closed) => Told(text, closed') BY <1>1 DEF Told
<1>6. \A j : Knows(j, closed) => Knows(j, closed') BY <1>1, <1>5 DEF Knows
<1>7. FileTypes' BY <1>1, <1>4, <1>5, <1>6 DEF FileInv, FileTypes, Fin
<1>8. Lone' BY <1>1 DEF FileInv, Lone
<1> QED BY <1>7, <1>8 DEF FileInv

LEMMA PersonEditsStep ==
  ASSUME FileInv, PersonEdits
  PROVE  FileInv'
<1> DEFINE line == Key("human_assignee", "me")
<1>1. /\ lines' = lines \o <<<<"[", "band">>, line>> /\ closed' = closed
      /\ fileJob' = [q \in FileWriters |->
           IF fileJob[q].at = "none" THEN NoJob ELSE [fileJob[q] EXCEPT !.alone = FALSE]]
  BY DEF PersonEdits
<1>2. Good(lines) /\ Told(lines, closed) /\ closed \in Fin BY DEF FileInv, FileTypes
<1>3. line \in FileLines /\ ~ Opens(line) /\ line[2] = "human_assignee" BY SomeLines, KeyLine
<1> HIDE DEF line
<1>4. /\ Good(lines')
      /\ RowNumbers(lines', "tempo.prs", "number") \subseteq RowNumbers(lines, "tempo.prs", "number")
  BY <1>1, <1>2, <1>3, TableGood
<1>5. Told(lines', closed) BY <1>2, <1>4 DEF Told
<1>6. ASSUME NEW q \in FileWriters
      PROVE  fileJob'[q] = NoJob \/ (JobOk(fileJob'[q]) /\ Knows(fileJob'[q], closed) /\ ~ fileJob'[q].alone)
  <2>1. CASE fileJob[q].at = "none" BY <1>1, <2>1
  <2>2. CASE fileJob[q].at # "none"
    <3> DEFINE i == fileJob[q]
               n == [fileJob[q] EXCEPT !.alone = FALSE]
    <3>1. JobOk(i) /\ Knows(i, closed) BY <2>2, JobIs
    <3>2. DOMAIN i = {"at", "kind", "own", "read", "out", "alone"} BY <3>1 DEF JobOk
    <3>3. n.at = i.at /\ n.kind = i.kind /\ n.own = i.own /\ n.read = i.read /\ n.out = i.out
          /\ n.alone = FALSE /\ DOMAIN n = DOMAIN i
      BY <3>2
    <3>4. fileJob'[q] = n BY <1>1, <2>2
    <3> HIDE DEF i, n
    <3>5. JobOk(n) BY <3>1, <3>3 DEF JobOk
    <3>6. Knows(n, closed) BY <3>1, <3>3 DEF Knows, Made
    <3> QED BY <3>3, <3>4, <3>5, <3>6
  <2> QED BY <2>1, <2>2
<1>7. FileTypes' BY <1>1, <1>2, <1>4, <1>5, <1>6 DEF FileTypes
<1>8. Lone' BY <1>6 DEF Lone
<1> QED BY <1>7, <1>8 DEF FileInv

LEMMA FileNextInv ==
  ASSUME FileAssumption, FileInv, [FileNext]_fileVars
  PROVE  FileInv'
<1>1. ASSUME NEW p \in FileWriters, WriteBack(p) PROVE FileInv'
  <2>1. closed \in Fin BY DEF FileInv, FileTypes
  <2>2. {} \in Fin BY FS_EmptySet DEF Fin
  <2>3. CASE StartJob(p, "rows", <<closed, closed>>) BY <2>1, <2>3, StartJobStep
  <2>4. CASE StartJob(p, "rows", <<closed, {}>>) BY <2>1, <2>2, <2>4, StartJobStep
  <2> QED BY <1>1, <2>3, <2>4 DEF WriteBack
<1>2. ASSUME NEW p \in FileWriters, NEW m \in Modules, WriteIdleState(p, m) PROVE FileInv'
  BY <1>2, StartJobStep DEF WriteIdleState
<1>3. ASSUME NEW p \in FileWriters, NEW s \in BegunSkills, BeginSkill(p, s) PROVE FileInv'
  <2>1. <<s>> \in Seq(Skills) BY DEF Skills
  <2> QED BY <1>3, <2>1, StartJobStep DEF BeginSkill
<1>4. ASSUME NEW p \in FileWriters, BeginDefaults(p) PROVE FileInv'
  <2>1. <<"orchestrate", "idle">> \in Seq(Skills) BY DEF Skills
  <2> QED BY <1>4, <2>1, StartJobStep DEF BeginDefaults
<1>5. CASE UNCHANGED fileVars BY <1>5 DEF fileVars, FileInv, FileTypes, Lone, Fin
<1> QED BY <1>1, <1>2, <1>3, <1>4, <1>5, ReadForRowsStep, ReadForIdleStep, EnsureStep, UpsertStep,
           TruncateStep, FillStep, WriterDiesStep, PrClosesStep, PersonEditsStep DEF FileNext

-----------------------------------------------------------------------------
\* Whatever passes overlap, die half-way or read a truncated file, no pull request
\* gets a second row of a kind: each pass decides by the text that it writes back.
THEOREM RowsStayOnce == FileSpec => []RowsOnce
<1>1. FileInv => RowsOnce BY DEF FileInv, FileTypes, Good, RowsOnce
<1> QED BY <1>1, FileAssumption, FileInitInv, FileNextInv, PTL DEF FileSpec

LEMMA LoneFill ==
  ASSUME FileAssumption, FileInv, NEW p \in FileWriters, Fill(p), fileJob[p].alone
  PROVE  /\ FileEntries(fileJob[p].read) \ LastModule(fileJob[p].read) \subseteq FileEntries(lines')
         /\ fileJob[p].kind = "idle" =>
              LastModule(lines') = {<<<<"[", "idle">>, Key("last_module", fileJob[p].own)>>}
         /\ fileJob[p].kind = "rows" => fileJob[p].own[1] = RowNumbers(lines', "tempo.prs", "number")
<1> DEFINE i == fileJob[p]
<1>1. i.at = "fill" /\ lines' = i.out BY DEF Fill
<1>2. JobOk(i) /\ Knows(i, closed) /\ Current(i, lines) BY <1>1, JobIs
<1>3. Good(i.read) /\ Made(i) BY <1>2 DEF JobOk, Knows
<1> HIDE DEF i
<1>4. CASE i.kind = "rows"
  <2>1. i.own \in Fin \X Fin BY <1>2, <1>4 DEF JobOk
  <2>2. i.own[1] \in Fin /\ i.own[2] \in Fin BY <2>1
  <2>3. /\ i.own[1] \in SUBSET Prs /\ i.own[2] \in SUBSET Prs
        /\ IsFiniteSet(i.own[1]) /\ IsFiniteSet(i.own[2])
    BY <2>2 DEF Fin
  <2>4. i.out = AppendRows(i.read, i.own[1], i.own[2]) BY <1>1, <1>3, <1>4 DEF Made
  <2>5. /\ RowNumbers(i.out, "tempo.prs", "number") = RowNumbers(i.read, "tempo.prs", "number") \cup i.own[1]
        /\ FileEntries(i.read) \subseteq FileEntries(i.out)
    BY <1>3, <2>3, <2>4, AppendRowsGood
  <2>6. RowNumbers(i.read, "tempo.prs", "number") \subseteq i.own[1] BY <1>1, <1>2, <1>4 DEF Current
  <2> QED BY <1>1, <1>4, <2>5, <2>6 DEF i
<1>5. CASE i.kind = "idle"
  <2>1. i.own \in Modules BY <1>2, <1>5 DEF JobOk
  <2>2. i.out = PatchIdleSection(i.read, i.own) BY <1>1, <1>3, <1>5 DEF Made
  <2>3. /\ FileEntries(i.read) \ LastModule(i.read) \subseteq FileEntries(i.out)
        /\ LastModule(i.out) = {<<<<"[", "idle">>, Key("last_module", i.own)>>}
    BY <1>3, <2>1, <2>2, PatchGood
  <2> QED BY <1>1, <1>5, <2>3 DEF i
<1>6. CASE i.kind = "begin"
  <2>1. i.own \in Seq(Skills) /\ i.own # <<>> BY <1>1, <1>2, <1>3, <1>6 DEF JobOk, Made
  <2>2. Head(i.own) \in Skills BY <2>1
  <2>3. i.out = InsertIntoCadenceSection(i.read, Head(i.own)) BY <1>1, <1>3, <1>6 DEF Made
  <2>4. FileEntries(i.read) \subseteq FileEntries(i.out) BY <1>3, <2>2, <2>3, InsertCadenceGood
  <2> QED BY <1>1, <1>6, <2>4 DEF i
<1>7. CASE i.kind = "ensure"
  <2>1. i.read = <<>> BY <1>1, <1>3, <1>7 DEF Made
  <2>2. FileEntries(i.read) = {} BY <2>1 DEF FileEntries
  <2> QED BY <1>7, <2>2 DEF i
<1> QED BY <1>2, <1>4, <1>5, <1>6, <1>7 DEF JobOk

\* A pass that had the file for itself loses nothing that was there, and what it
\* writes is read again in its table, wherever the arrays after it stand.
THEOREM LoneWrites == FileSpec => LoneWriteLands
<1> DEFINE Lands ==
      \A p \in FileWriters : Fill(p) /\ fileJob[p].alone =>
        /\ FileEntries(fileJob[p].read) \ LastModule(fileJob[p].read) \subseteq FileEntries(lines')
        /\ fileJob[p].kind = "idle" => LastModule(lines') = {<<<<"[", "idle">>, Key("last_module", fileJob[p].own)>>}
        /\ fileJob[p].kind = "rows" => fileJob[p].own[1] = RowNumbers(lines', "tempo.prs", "number")
<1>1. FileInv => Lands BY FileAssumption, LoneFill
<1>2. LoneWriteLands <=> [][Lands]_fileVars BY DEF LoneWriteLands
<1> HIDE DEF Lands
<1>3. FileInv /\ [FileNext]_fileVars => [Lands]_fileVars BY <1>1
<1> QED BY <1>2, <1>3, FileAssumption, FileInitInv, FileNextInv, PTL DEF FileSpec
=============================================================================
