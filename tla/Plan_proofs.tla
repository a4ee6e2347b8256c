----------------------------- MODULE Plan_proofs ----------------------------
(***************************************************************************)
(* The algorithms on plans and histories, for any values of the constants: *)
(* the batches of an issue graph, a plan written as a score and read back, *)
(* and the maturity of a history.                                          *)
(***************************************************************************)
EXTENDS DepGraph, Schedule, Tempo, WellFoundedInduction, NaturalsInduction, FiniteSetTheorems,
        SequenceTheorems, TLAPS

-----------------------------------------------------------------------------
(* topo_batches: the batches are an order, and a cycle reported is one.    *)

GraphTypes ==
  /\ graphNodes \subseteq Numbers /\ graphDeps \in [Numbers -> SUBSET Numbers]
  /\ waits \subseteq graphNodes /\ ready \subseteq graphNodes \ waits
  /\ rank \in [Numbers -> Nat] /\ round \in Nat
  /\ sorted \in {"no", "sorting", "ok", "cycle"}

Ranked == {n \in graphNodes : rank[n] > 0}

\* Before the sort nothing has a batch; during it an issue waits, is in the
\* queue or has one.
Parted ==
  /\ sorted = "no" => round = 0 /\ \A n \in Numbers : rank[n] = 0
  /\ sorted # "no" => Ranked = graphNodes \ (waits \cup ready)
  /\ \A n \in Ranked : rank[n] <= round

\* An issue with a batch comes after all it depends on, as early as can be; one
\* in the queue may come next, and no sooner; one that waits has something to
\* wait for.
Ordered ==
  sorted # "no" =>
    /\ \A n \in Ranked :
         /\ \A d \in OpenDeps(n) : rank[d] \in 1..(rank[n] - 1)
         /\ rank[n] = 1 \/ \E d \in OpenDeps(n) : rank[d] = rank[n] - 1
    /\ \A n \in ready :
         /\ \A d \in OpenDeps(n) : rank[d] > 0
         /\ round = 0 \/ \E d \in OpenDeps(n) : rank[d] = round
    /\ \A n \in waits : \E d \in OpenDeps(n) : rank[d] = 0

Answered ==
  /\ sorted \in {"ok", "cycle"} => ready = {}
  /\ sorted = "ok" => Ranked = graphNodes
  /\ sorted = "cycle" => Ranked # graphNodes

GraphInv == GraphTypes /\ Parted /\ Ordered /\ Answered

-----------------------------------------------------------------------------

LEMMA GraphInitInv == GraphInit => GraphInv
BY DEF GraphInit, GraphInv, GraphTypes, Parted, Ordered, Answered, Ranked

LEMMA SortKeeps ==
  ASSUME GraphInv, NEW closed \in SUBSET Numbers, Sort(closed) PROVE GraphInv'
<1>1. /\ sorted = "no" /\ sorted' = "sorting" /\ UNCHANGED <<graphNodes, graphDeps, rank, round>>
      /\ round = 0 /\ (\A n \in Numbers : rank[n] = 0) /\ Ranked = {} /\ Ranked' = {}
  BY DEF Sort, GraphInv, GraphTypes, Parted, Ranked
<1>2. \A n \in graphNodes : n \in waits' <=> OpenDeps(n)' # {}
  BY <1>1 DEF Sort, OpenDeps, GraphInv, GraphTypes
<1>3. waits' \subseteq graphNodes /\ ready' = graphNodes \ waits' BY DEF Sort
<1>4. GraphTypes' BY <1>1, <1>3 DEF GraphInv, GraphTypes
<1>5. Parted' BY <1>1, <1>3 DEF Parted
<1>6. \A n \in graphNodes : \A d \in OpenDeps(n)' : rank[d] = 0
  BY <1>1 DEF OpenDeps, GraphInv, GraphTypes
<1>7. Ordered' BY <1>1, <1>2, <1>3, <1>6 DEF Ordered
<1>8. Answered' BY <1>1 DEF Answered
<1> QED BY <1>4, <1>5, <1>7, <1>8 DEF GraphInv

LEMMA TakeBatchKeeps ==
  ASSUME GraphInv, TakeBatch PROVE GraphInv'
<1>0. GraphTypes /\ Parted /\ Ordered /\ sorted = "sorting" /\ sorted' = "sorting"
  BY DEF GraphInv, TakeBatch
<1>1. /\ UNCHANGED <<graphNodes, graphDeps, finished>> /\ round' = round + 1 /\ round \in Nat
      /\ rank' = [n \in Numbers |-> IF n \in ready THEN round + 1 ELSE rank[n]]
      /\ rank \in [Numbers -> Nat] /\ ready \subseteq Numbers /\ ready \subseteq graphNodes
  BY <1>0 DEF TakeBatch, GraphTypes
<1>2. /\ ready' = Unblocked(ready) /\ waits' = waits \ Unblocked(ready)
      /\ Unblocked(ready) \subseteq waits
  BY DEF TakeBatch, Unblocked
<1>3. \A n \in graphNodes : OpenDeps(n)' = OpenDeps(n) /\ OpenDeps(n) \subseteq graphNodes
  BY <1>1 DEF OpenDeps
<1>4. /\ \A n \in ready : rank[n] = 0 /\ rank'[n] = round + 1
      /\ \A n \in Numbers \ ready : rank'[n] = rank[n]
  <2>1. \A n \in ready : rank[n] = 0
    BY <1>0, <1>1 DEF Parted, Ranked
  <2> QED BY <2>1, <1>1
<1>5. Ranked' = Ranked \cup ready BY <1>1, <1>4, <1>0 DEF Ranked, GraphTypes
<1>6. GraphTypes' BY <1>0, <1>1, <1>2 DEF GraphTypes
<1>7. Parted'
  <2>1. Ranked' = graphNodes \ (waits' \cup ready')
    BY <1>0, <1>2, <1>5 DEF Parted, GraphTypes
  <2>2. \A n \in Ranked' : rank'[n] <= round'
    BY <1>0, <1>1, <1>4, <1>5 DEF Parted, Ranked, GraphTypes
  <2> QED BY <2>1, <2>2, <1>0, <1>1 DEF Parted
<1>8. ASSUME NEW n \in Ranked'
      PROVE  /\ \A d \in OpenDeps(n) : rank'[d] \in 1..(rank'[n] - 1)
             /\ rank'[n] = 1 \/ \E d \in OpenDeps(n) : rank'[d] = rank'[n] - 1
  <2>1. n \in graphNodes /\ n \in Numbers BY <1>0, <1>1 DEF Ranked, GraphTypes
  <2>2. CASE n \in Ranked
    <3>1. n \notin ready BY <2>2, <1>4 DEF Ranked
    <3>2. /\ \A d \in OpenDeps(n) : rank[d] \in 1..(rank[n] - 1)
          /\ rank[n] = 1 \/ \E d \in OpenDeps(n) : rank[d] = rank[n] - 1
      BY <2>2, <1>0 DEF Ordered
    <3>3. \A d \in OpenDeps(n) : rank'[d] = rank[d]
      BY <3>2, <2>1, <1>3, <1>4, <1>0 DEF GraphTypes
    <3>4. rank'[n] = rank[n] BY <3>1, <2>1, <1>4
    <3> QED BY <3>2, <3>3, <3>4
  <2>3. CASE n \in ready
    <3>1. /\ \A d \in OpenDeps(n) : rank[d] > 0
          /\ round = 0 \/ \E d \in OpenDeps(n) : rank[d] = round
      BY <2>3, <1>0 DEF Ordered
    <3>2. \A d \in OpenDeps(n) : d \in Numbers \ ready /\ d \in Ranked
      BY <3>1, <2>1, <1>3, <1>4, <1>0 DEF Ranked, GraphTypes
    <3>3. \A d \in OpenDeps(n) : rank'[d] = rank[d] /\ rank[d] \in 1..round
      BY <3>2, <1>0, <1>1, <1>4 DEF Parted, Ranked
    <3>4. rank'[n] = round + 1 BY <2>3, <1>4
    <3> QED BY <3>1, <3>3, <3>4, <1>1
  <2> QED BY <2>2, <2>3, <1>5
<1>9. ASSUME NEW n \in ready'
      PROVE  /\ \A d \in OpenDeps(n) : rank'[d] > 0
             /\ \E d \in OpenDeps(n) : rank'[d] = round'
  <2>1. /\ n \in waits /\ n \in graphNodes /\ n \in Numbers
        /\ \A d \in OpenDeps(n) : d \in ready \/ rank[d] > 0
    BY <1>2, <1>0 DEF Unblocked, GraphTypes
  <2>2. \A d \in OpenDeps(n) : rank'[d] > 0
    BY <2>1, <1>0, <1>1, <1>3, <1>4 DEF GraphTypes
  <2>3. PICK d \in OpenDeps(n) : rank[d] = 0 BY <2>1, <1>0 DEF Ordered
  <2>4. d \in ready BY <2>1, <2>3
  <2> QED BY <2>2, <2>4, <1>1, <1>4
<1>10. ASSUME NEW n \in waits' PROVE \E d \in OpenDeps(n) : rank'[d] = 0
  <2>1. n \in waits /\ n \notin ready /\ n \in graphNodes
    BY <1>2, <1>0 DEF GraphTypes
  <2>2. n \notin Unblocked(ready) BY <1>2
  <2>3. PICK d \in OpenDeps(n) : d \notin ready /\ ~ (rank[d] > 0)
    BY <2>1, <2>2 DEF Unblocked
  <2>4. d \in Numbers /\ rank[d] \in Nat BY <2>1, <2>3, <1>0, <1>3 DEF GraphTypes
  <2> QED BY <2>3, <2>4, <1>4
<1>11. Ordered'
  <2>1. \A n \in Ranked' \cup ready' \cup waits' : OpenDeps(n)' = OpenDeps(n)
    BY <1>0, <1>1, <1>2, <1>3 DEF Ranked, GraphTypes
  <2> QED BY <2>1, <1>8, <1>9, <1>10 DEF Ordered
<1>12. Answered' BY <1>0 DEF Answered
<1> QED BY <1>6, <1>7, <1>11, <1>12 DEF GraphInv

LEMMA GraphNextInv == GraphInv /\ [GraphNext]_graphVars => GraphInv'
<1> SUFFICES ASSUME GraphInv, [GraphNext]_graphVars PROVE GraphInv' OBVIOUS
<1>1. ASSUME NEW n \in Numbers, NEW d \in Numbers, AddIssue(n) \/ AddDep(n, d) \/ EnterDep(n, d)
      PROVE  GraphInv'
  <2>1. /\ sorted = "no" /\ UNCHANGED <<finished, waits, ready, rank, round, sorted>>
        /\ graphNodes' \subseteq Numbers /\ graphNodes \subseteq graphNodes'
        /\ graphDeps' \in [Numbers -> SUBSET Numbers]
    BY <1>1 DEF AddIssue, AddDep, EnterDep, GraphInv, GraphTypes
  <2> QED BY <2>1 DEF GraphInv, GraphTypes, Parted, Ordered, Answered, Ranked
<1>2. ASSUME NEW n \in Numbers, AddIssue(n) PROVE GraphInv' BY <1>1, <1>2
<1>3. ASSUME NEW closed \in SUBSET Numbers, Sort(closed) PROVE GraphInv' BY <1>3, SortKeeps
<1>4. CASE TakeBatch BY <1>4, TakeBatchKeeps
<1>5. CASE Finish
  <2>1. /\ sorted = "sorting" /\ ready = {} /\ sorted' = IF Ranked = graphNodes THEN "ok" ELSE "cycle"
        /\ UNCHANGED <<graphNodes, graphDeps, finished, waits, ready, rank, round>>
    BY <1>5 DEF Finish, Ranked
  <2>2. Ranked' = Ranked BY <2>1 DEF Ranked
  <2>3. \A n \in Numbers : OpenDeps(n)' = OpenDeps(n) BY <2>1 DEF OpenDeps
  <2>4. GraphTypes' /\ Parted' /\ Answered'
    BY <2>1, <2>2 DEF GraphInv, GraphTypes, Parted, Answered
  <2>5. Ordered' BY <2>1, <2>2, <2>3 DEF GraphInv, GraphTypes, Ordered, Ranked
  <2> QED BY <2>4, <2>5 DEF GraphInv
<1>6. CASE UNCHANGED graphVars
  <2>1. Ranked' = Ranked /\ \A n \in Numbers : OpenDeps(n)' = OpenDeps(n)
    BY <1>6 DEF graphVars, Ranked, OpenDeps
  <2> QED BY <1>6, <2>1 DEF graphVars, GraphInv, GraphTypes, Parted, Ordered, Answered, Ranked
<1> QED BY <1>1, <1>2, <1>3, <1>4, <1>5, <1>6 DEF GraphNext

\* topo_batches (graph.rs): what it answers is right for every graph, and every
\* set of issues that are done.
THEOREM BatchesAreSound == GraphSpec => []SortSound
<1>1. GraphInv => SortSound
  <2> SUFFICES ASSUME GraphInv PROVE SortSound OBVIOUS
  <2>1. ASSUME sorted = "ok" PROVE BatchesInOrder
    <3> SUFFICES ASSUME NEW n \in graphNodes
        PROVE  /\ rank[n] \in 1..round
               /\ \A d \in OpenDeps(n) : rank[d] < rank[n]
               /\ rank[n] = 1 \/ \E d \in OpenDeps(n) : rank[d] = rank[n] - 1
               /\ CheckClosed /\ finished = {} => \A d \in graphDeps[n] : rank[d] \in 1..(rank[n] - 1)
      BY DEF BatchesInOrder
    <3>1. n \in Ranked /\ n \in Numbers BY <2>1 DEF GraphInv, Answered, GraphTypes
    <3>2. rank[n] \in 1..round BY <3>1 DEF GraphInv, GraphTypes, Parted, Ranked
    <3>3. /\ \A d \in OpenDeps(n) : rank[d] \in 1..(rank[n] - 1)
          /\ rank[n] = 1 \/ \E d \in OpenDeps(n) : rank[d] = rank[n] - 1
      BY <3>1, <2>1 DEF GraphInv, Ordered
    <3>4. ASSUME CheckClosed, finished = {} PROVE graphDeps[n] = OpenDeps(n)
      BY <3>4 DEF CheckClosed, OpenDeps
    <3> QED BY <3>2, <3>3, <3>4
  <2>2. ASSUME sorted = "cycle" PROVE CycleIsReal
    <3>1. ready = {} /\ Ranked = graphNodes \ waits /\ Ranked # graphNodes
      BY <2>2 DEF GraphInv, Parted, Answered
    <3>2. waits # {} /\ \A n \in graphNodes \ waits : rank[n] > 0 BY <3>1 DEF Ranked
    <3>3. ASSUME NEW n \in waits PROVE rank[n] = 0 /\ OpenDeps(n) \cap waits # {}
      <4>1. n \in graphNodes /\ n \in Numbers /\ n \notin Ranked
        BY <3>1 DEF GraphInv, GraphTypes
      <4>2. rank[n] = 0 BY <4>1 DEF Ranked, GraphInv, GraphTypes
      <4>3. PICK d \in OpenDeps(n) : rank[d] = 0 BY <2>2 DEF GraphInv, Ordered
      <4>4. d \in graphNodes /\ d \notin Ranked BY <4>3 DEF OpenDeps, Ranked
      <4> QED BY <4>2, <4>3, <4>4, <3>1
    <3> QED BY <3>2, <3>3 DEF CycleIsReal
  <2> QED BY <2>1, <2>2 DEF SortSound
<1> QED BY <1>1, GraphInitInv, GraphNextInv, PTL DEF GraphSpec

-----------------------------------------------------------------------------
(* Loops.                                                                  *)

LEMMA LeastOf ==
  ASSUME NEW S \in SUBSET Nat, S # {}
  PROVE  \E k \in S : \A j \in S : ~ (j < k)
<1>1. PICK k \in S : \A j \in S : <<j, k>> \notin OpToRel(<, Nat)
  BY NatLessThanWellFounded, WFMin, Zenon
<1>2. \A j \in S : ~ (j < k) BY <1>1 DEF OpToRel
<1> QED BY <1>2

\* A loop over 1..n whose body is step: its states exist, and stay in their set.
Runs(n, V, first, step, m) ==
  {g \in [0..m -> V] : g[0] = first /\ \A i \in 1..m : g[i] = step[<<i, g[i - 1]>>]}

LEMMA LoopIs ==
  ASSUME NEW n \in Nat, NEW V, NEW first \in V, NEW step \in [(1..n) \X V -> V]
  PROVE  Runs(n, V, first, step, n) # {}
<1> DEFINE None == {m \in Nat : m <= n /\ Runs(n, V, first, step, m) = {}}
<1>1. None = {}
  <2> SUFFICES ASSUME None # {} PROVE FALSE OBVIOUS
  <2>1. PICK m \in None : \A j \in None : ~ (j < m) BY LeastOf
  <2>2. m \in Nat /\ m <= n /\ Runs(n, V, first, step, m) = {} BY <2>1
  <2>3. m # 0
    <3> DEFINE g == [i \in 0..0 |-> first]
    <3>1. g \in [0..0 -> V] /\ g[0] = first /\ 1..0 = {} OBVIOUS
    <3>2. g \in Runs(n, V, first, step, 0) BY <3>1 DEF Runs
    <3> QED BY <2>2, <3>2
  <2>4. m - 1 \in Nat /\ m - 1 < m /\ m - 1 <= n /\ m \in 1..n BY <2>2, <2>3
  <2>5. PICK g : g \in Runs(n, V, first, step, m - 1) BY <2>1, <2>4
  <2>6. /\ g \in [0..m - 1 -> V] /\ g[0] = first
        /\ \A i \in 1..m - 1 : g[i] = step[<<i, g[i - 1]>>]
    BY <2>5 DEF Runs
  <2> DEFINE h == [i \in 0..m |-> IF i = m THEN step[<<m, g[m - 1]>>] ELSE g[i]]
  <2>7. g[m - 1] \in V
    <3>1. m - 1 \in 0..m - 1 BY <2>4
    <3> QED BY <2>6, <3>1
  <2>8. step[<<m, g[m - 1]>>] \in V BY <2>4, <2>7
  <2>9. \A i \in 0..m : i # m => i \in 0..m - 1 BY <2>2
  <2>10. h \in [0..m -> V] BY <2>6, <2>8, <2>9
  <2>11. h[0] = first BY <2>2, <2>3, <2>6
  <2>12. ASSUME NEW i \in 1..m PROVE h[i] = step[<<i, h[i - 1]>>]
    <3>1. i - 1 \in 0..m /\ i - 1 # m /\ i \in 0..m BY <2>2
    <3>2. h[i - 1] = g[i - 1] BY <3>1
    <3>3. CASE i = m BY <3>1, <3>2, <3>3
    <3>4. CASE i # m
      <4>1. i \in 1..m - 1 BY <2>2, <3>4
      <4>2. h[i] = g[i] BY <3>1, <3>4
      <4> QED BY <2>6, <3>2, <4>1, <4>2
    <3> QED BY <3>3, <3>4
  <2>13. h \in Runs(n, V, first, step, m) BY <2>10, <2>11, <2>12 DEF Runs
  <2> QED BY <2>2, <2>13
<1> QED BY <1>1

LEMMA LoopTyped ==
  ASSUME NEW n \in Nat, NEW V, NEW f, f = [i \in 0..n |-> f[i]], f[0] \in V,
         \A i \in 1..n : f[i - 1] \in V => f[i] \in V
  PROVE  f \in [0..n -> V]
<1> DEFINE Off == {i \in Nat : i <= n /\ f[i] \notin V}
<1>1. Off = {}
  <2> SUFFICES ASSUME Off # {} PROVE FALSE OBVIOUS
  <2>1. PICK m \in Off : \A j \in Off : ~ (j < m) BY LeastOf
  <2>2. m # 0 BY <2>1
  <2>3. m \in 1..n /\ m - 1 \in Nat /\ m - 1 < m /\ m - 1 <= n BY <2>1, <2>2
  <2>4. f[m - 1] \in V BY <2>1, <2>3
  <2> QED BY <2>1, <2>3, <2>4
<1>2. \A i \in 0..n : f[i] \in V BY <1>1
<1> HIDE DEF Off
<1> QED BY <1>2

-----------------------------------------------------------------------------
(* Sums and lists of the plan.                                             *)

LEMMA SumIs ==
  ASSUME NEW beats, Len(beats) \in Nat, \A k \in 1..Len(beats) : beats[k].len \in Nat
  PROVE  \E f \in [0..Len(beats) -> Nat] :
           /\ f[0] = 0 /\ \A k \in 1..Len(beats) : f[k] = f[k - 1] + beats[k].len
           /\ BeatsLength(beats) = f[Len(beats)]
<1> DEFINE n == Len(beats)
           F(f) == [k \in 0..n |-> IF k = 0 THEN 0 ELSE f[k - 1] + beats[k].len]
           f == CHOOSE f : f = F(f)
           step == [x \in (1..n) \X Nat |-> x[2] + beats[x[1]].len]
<1>1. n \in Nat /\ step \in [(1..n) \X Nat -> Nat] OBVIOUS
<1>2. \A i \in 1..n : \A v \in Nat : step[<<i, v>>] = v + beats[i].len OBVIOUS
<1>0. BeatsLength(beats) = f[n] BY DEF BeatsLength
<1>a. \A k \in 1..n : beats[k].len \in Nat OBVIOUS
<1>b. 0 \in Nat OBVIOUS
<1> HIDE DEF step, n
<1>e. Runs(n, Nat, 0, step, n) # {} BY <1>1, <1>b, LoopIs
<1>3. PICK g \in [0..n -> Nat] : g[0] = 0 /\ \A i \in 1..n : g[i] = step[<<i, g[i - 1]>>]
  BY <1>e DEF Runs
<1>4. \A k \in 0..n : k # 0 => k \in 1..n /\ k - 1 \in 0..n BY <1>1
<1>5. \A k \in 0..n : g[k] = IF k = 0 THEN 0 ELSE g[k - 1] + beats[k].len
  BY <1>2, <1>3, <1>4
<1>6. g = F(g) BY <1>3, <1>5
<1>7. f = F(f) BY <1>6
<1> HIDE DEF f
<1>8. f = [i \in 0..n |-> f[i]] BY <1>7
<1>9. f[0] = 0 BY <1>1, <1>7
<1>10. \A k \in 1..n : f[k] = f[k - 1] + beats[k].len
  <2>1. \A k \in 1..n : k \in 0..n /\ k # 0 BY <1>1
  <2> QED BY <1>7, <2>1
<1>c. \A i \in 1..n : f[i - 1] \in Nat => f[i] \in Nat BY <1>a, <1>10
<1>d. f[0] \in Nat BY <1>9
<1>11. f \in [0..n -> Nat] BY <1>1, <1>8, <1>c, <1>d, LoopTyped, Zenon
<1> QED BY <1>0, <1>9, <1>10, <1>11 DEF n

LEMMA UsedIs ==
  ASSUME NEW batch, NEW k, Len(batch) \in Nat, \A i \in 1..Len(batch) : Uses(batch[i], k) \in Nat
  PROVE  LET f == Used(batch, k) IN
         /\ f \in [0..Len(batch) -> Nat] /\ f[0] = 0
         /\ \A i \in 1..Len(batch) : f[i] = f[i - 1] + Uses(batch[i], k)
<1> DEFINE n == Len(batch)
           F(f) == [i \in 0..n |-> IF i = 0 THEN 0 ELSE f[i - 1] + Uses(batch[i], k)]
           f == CHOOSE f : f = F(f)
           step == [x \in (1..n) \X Nat |-> x[2] + Uses(batch[x[1]], k)]
<1>0. Used(batch, k) = f BY DEF Used
<1>1. n \in Nat /\ step \in [(1..n) \X Nat -> Nat] OBVIOUS
<1>2. \A i \in 1..n : \A v \in Nat : step[<<i, v>>] = v + Uses(batch[i], k) OBVIOUS
<1>a. \A i \in 1..n : Uses(batch[i], k) \in Nat OBVIOUS
<1>b. 0 \in Nat OBVIOUS
<1> HIDE DEF step, n
<1>e. Runs(n, Nat, 0, step, n) # {} BY <1>1, <1>b, LoopIs
<1>3. PICK g \in [0..n -> Nat] : g[0] = 0 /\ \A i \in 1..n : g[i] = step[<<i, g[i - 1]>>]
  BY <1>e DEF Runs
<1>4. \A i \in 0..n : i # 0 => i \in 1..n /\ i - 1 \in 0..n BY <1>1
<1>5. \A i \in 0..n : g[i] = IF i = 0 THEN 0 ELSE g[i - 1] + Uses(batch[i], k)
  BY <1>2, <1>3, <1>4
<1>6. g = F(g) BY <1>3, <1>5
<1>7. f = F(f) BY <1>6
<1> HIDE DEF f
<1>8. f = [i \in 0..n |-> f[i]] BY <1>7
<1>9. f[0] = 0 BY <1>1, <1>7
<1>10. \A i \in 1..n : f[i] = f[i - 1] + Uses(batch[i], k)
  <2>1. \A i \in 1..n : i \in 0..n /\ i # 0 BY <1>1
  <2> QED BY <1>7, <2>1
<1>c. \A i \in 1..n : f[i - 1] \in Nat => f[i] \in Nat BY <1>a, <1>10
<1>d. f[0] \in Nat BY <1>9
<1>11. f \in [0..n -> Nat] BY <1>1, <1>8, <1>c, <1>d, LoopTyped, Zenon
<1> QED BY <1>0, <1>9, <1>10, <1>11 DEF n

Once(s) == \A i, j \in DOMAIN s : s[i] = s[j] => i = j
Holds(s, k) == \E i \in DOMAIN s : s[i] = k

LEMMA EmptyHolds == Once(<<>>) /\ \A k : ~ Holds(<<>>, k)
<1>1. DOMAIN <<>> = {} OBVIOUS
<1> QED BY <1>1 DEF Once, Holds

LEMMA AppendHolds ==
  ASSUME NEW S, NEW s \in Seq(S), NEW x \in S
  PROVE  /\ Append(s, x) \in Seq(S)
         /\ \A k : Holds(Append(s, x), k) <=> Holds(s, k) \/ k = x
         /\ Once(s) /\ ~ Holds(s, x) => Once(Append(s, x))
<1> DEFINE n == Len(s)
           t == Append(s, x)
<1>1. n \in Nat /\ DOMAIN s = 1..n OBVIOUS
<1>2. t \in Seq(S) /\ Len(t) = n + 1 OBVIOUS
<1>3. DOMAIN t = 1..n + 1 BY <1>2
<1>4. t[n + 1] = x /\ \A i \in 1..n : t[i] = s[i] BY <1>1
<1> HIDE DEF n, t
<1>5. \A i \in 1..n + 1 : i \in 1..n \/ i = n + 1 BY <1>1
<1>6. n + 1 \in 1..n + 1 /\ \A i \in 1..n : i \in 1..n + 1 BY <1>1
<1>7. \A k : Holds(t, k) <=> Holds(s, k) \/ k = x BY <1>1, <1>3, <1>4, <1>5, <1>6 DEF Holds
<1>8. Once(s) /\ ~ Holds(s, x) => Once(t)
  <2> SUFFICES ASSUME Once(s), ~ Holds(s, x), NEW i \in DOMAIN t, NEW j \in DOMAIN t, t[i] = t[j]
               PROVE  i = j
    BY DEF Once
  <2>1. CASE i \in 1..n /\ j \in 1..n BY <1>1, <1>4, <2>1 DEF Once
  <2>2. CASE i = n + 1 /\ j \in 1..n BY <1>1, <1>4, <2>2 DEF Holds
  <2>3. CASE j = n + 1 /\ i \in 1..n BY <1>1, <1>4, <2>3 DEF Holds
  <2> QED BY <1>3, <1>5, <2>1, <2>2, <2>3
<1> QED BY <1>2, <1>7, <1>8 DEF t

LEMMA ConcatHolds ==
  ASSUME NEW S, NEW s \in Seq(S), NEW t \in Seq(S)
  PROVE  /\ s \o t \in Seq(S)
         /\ \A k : Holds(s \o t, k) <=> Holds(s, k) \/ Holds(t, k)
         /\ Once(s) /\ Once(t) /\ (\A k : ~ (Holds(s, k) /\ Holds(t, k))) => Once(s \o t)
<1> DEFINE n == Len(s)
           m == Len(t)
           u == s \o t
<1>1. n \in Nat /\ m \in Nat /\ DOMAIN s = 1..n /\ DOMAIN t = 1..m OBVIOUS
<1>2. u \in Seq(S) /\ Len(u) = n + m OBVIOUS
<1>3. DOMAIN u = 1..n + m BY <1>2
<1>4. \A i \in 1..n + m : u[i] = IF i <= n THEN s[i] ELSE t[i - n] BY <1>1
<1> HIDE DEF n, m, u
<1>5. \A i \in 1..n : i \in 1..n + m /\ u[i] = s[i] BY <1>1, <1>4
<1>6. \A i \in 1..m : n + i \in 1..n + m /\ u[n + i] = t[i]
  <2> TAKE i \in 1..m
  <2>1. n + i \in 1..n + m /\ ~ (n + i <= n) /\ (n + i) - n = i BY <1>1
  <2> QED BY <1>4, <2>1
<1>7. \A i \in 1..n + m : i \in 1..n \/ \E j \in 1..m : i = n + j
  <2> TAKE i \in 1..n + m
  <2>1. i \notin 1..n => i - n \in 1..m /\ i = n + (i - n) BY <1>1
  <2> QED BY <2>1
<1>8. ASSUME NEW k PROVE Holds(u, k) <=> Holds(s, k) \/ Holds(t, k)
  <2>1. ASSUME Holds(u, k) PROVE Holds(s, k) \/ Holds(t, k)
    <3>1. PICK i \in 1..n + m : u[i] = k BY <1>3, <2>1 DEF Holds
    <3>2. CASE i \in 1..n BY <1>1, <1>5, <3>1, <3>2 DEF Holds
    <3>3. CASE \E j \in 1..m : i = n + j BY <1>1, <1>6, <3>1, <3>3 DEF Holds
    <3> QED BY <1>7, <3>2, <3>3
  <2>2. Holds(s, k) => Holds(u, k) BY <1>1, <1>3, <1>5 DEF Holds
  <2>3. Holds(t, k) => Holds(u, k) BY <1>1, <1>3, <1>6 DEF Holds
  <2> QED BY <2>1, <2>2, <2>3
<1>9. Once(s) /\ Once(t) /\ (\A k : ~ (Holds(s, k) /\ Holds(t, k))) => Once(u)
  <2> SUFFICES ASSUME Once(s), Once(t), \A k : ~ (Holds(s, k) /\ Holds(t, k)),
                      NEW i \in DOMAIN u, NEW j \in DOMAIN u, u[i] = u[j]
               PROVE  i = j
    BY DEF Once
  <2>0. i \in 1..n + m /\ j \in 1..n + m BY <1>3
  <2>1. CASE i \in 1..n /\ j \in 1..n BY <1>1, <1>5, <2>1 DEF Once
  <2>2. CASE i \in 1..n /\ \E q \in 1..m : j = n + q
    <3>1. PICK q \in 1..m : j = n + q BY <2>2
    <3>2. u[i] = s[i] /\ u[j] = t[q] BY <1>5, <1>6, <2>2, <3>1
    <3> QED BY <1>1, <2>2, <3>2 DEF Holds
  <2>3. CASE j \in 1..n /\ \E p \in 1..m : i = n + p
    <3>1. PICK p \in 1..m : i = n + p BY <2>3
    <3>2. u[j] = s[j] /\ u[i] = t[p] BY <1>5, <1>6, <2>3, <3>1
    <3> QED BY <1>1, <2>3, <3>2 DEF Holds
  <2>4. CASE \E p \in 1..m : \E q \in 1..m : i = n + p /\ j = n + q
    <3>1. PICK p \in 1..m : \E q \in 1..m : i = n + p /\ j = n + q BY <2>4
    <3>2. PICK q \in 1..m : i = n + p /\ j = n + q BY <3>1
    <3>3. u[i] = t[p] /\ u[j] = t[q] BY <1>6, <3>2
    <3>4. p = q BY <1>1, <3>3 DEF Once
    <3> QED BY <3>2, <3>4
  <2> QED BY <1>7, <2>0, <2>1, <2>2, <2>3, <2>4
<1> QED BY <1>2, <1>8, <1>9 DEF u

\* What a plan lists: each of the items once.
LEMMA ListIs ==
  ASSUME NEW T, Len(planItems) \in Nat
  PROVE  /\ InPlanOrder(T) \in Seq(1..Len(planItems)) /\ Once(InPlanOrder(T))
         /\ \A k : Holds(InPlanOrder(T), k) <=> k \in T /\ k \in 1..Len(planItems)
<1> DEFINE n == Len(planItems)
           V == Seq(1..n)
           F(f) == [k \in 0..n |-> IF k = 0 THEN <<>> ELSE IF k \in T THEN Append(f[k - 1], k) ELSE f[k - 1]]
           f == CHOOSE f : f = F(f)
           step == [x \in (1..n) \X V |-> IF x[1] \in T THEN Append(x[2], x[1]) ELSE x[2]]
<1>0. InPlanOrder(T) = f[n] BY DEF InPlanOrder
<1>a. n \in Nat OBVIOUS
<1>b. <<>> \in V OBVIOUS
<1>d. \A i \in 1..n : \A v \in V :
        /\ Append(v, i) \in V
        /\ \A k : Holds(Append(v, i), k) <=> Holds(v, k) \/ k = i
        /\ Once(v) /\ ~ Holds(v, i) => Once(Append(v, i))
  BY AppendHolds
<1> HIDE DEF V
<1>c. \A i \in 1..n : \A v \in V : (IF i \in T THEN Append(v, i) ELSE v) \in V BY <1>d
<1>1. step \in [(1..n) \X V -> V] BY <1>c
<1>2. \A i \in 1..n : \A v \in V : step[<<i, v>>] = IF i \in T THEN Append(v, i) ELSE v OBVIOUS
<1> HIDE DEF step, n
<1>e. Runs(n, V, <<>>, step, n) # {} BY <1>1, <1>a, <1>b, LoopIs
<1>3. PICK g \in [0..n -> V] : g[0] = <<>> /\ \A i \in 1..n : g[i] = step[<<i, g[i - 1]>>]
  BY <1>e DEF Runs
<1>4. \A k \in 0..n : k # 0 => k \in 1..n /\ k - 1 \in 0..n BY <1>a
<1>z. \A k \in 0..n : k # 0 => g[k - 1] \in V BY <1>3, <1>4
<1>5. \A k \in 0..n : g[k] = IF k = 0 THEN <<>> ELSE IF k \in T THEN Append(g[k - 1], k) ELSE g[k - 1]
  BY <1>2, <1>3, <1>4, <1>z
<1>6. g = F(g) BY <1>3, <1>5
<1>7. f = F(f) BY <1>6, Zenon
<1> HIDE DEF f
<1>8. f = [i \in 0..n |-> f[i]] BY <1>7
<1>9. f[0] = <<>> BY <1>a, <1>7
<1>10. \A k \in 1..n : f[k] = IF k \in T THEN Append(f[k - 1], k) ELSE f[k - 1]
  <2>1. \A k \in 1..n : k \in 0..n /\ k # 0 BY <1>a
  <2> QED BY <1>7, <2>1
<1>11. f \in [0..n -> V]
  <2>1. \A i \in 1..n : f[i - 1] \in V => f[i] \in V BY <1>10, <1>c
  <2>2. f[0] \in V BY <1>9, <1>b
  <2> QED BY <1>a, <1>8, <2>1, <2>2, LoopTyped, Zenon
<1> DEFINE Good(m) == Once(f[m]) /\ \A k : Holds(f[m], k) <=> k \in T /\ k \in 1..m
           Off == {m \in Nat : m <= n /\ ~ Good(m)}
<1>12. Off = {}
  <2> SUFFICES ASSUME Off # {} PROVE FALSE OBVIOUS
  <2>1. PICK m \in Off : \A j \in Off : ~ (j < m) BY LeastOf
  <2>2. Good(0)
    <3>1. 1..0 = {} OBVIOUS
    <3> QED BY <1>9, <3>1, EmptyHolds
  <2>3. m \in 1..n /\ m - 1 \in Nat /\ m - 1 < m /\ m - 1 <= n
    <3>1. m \in Nat /\ m <= n /\ m # 0 BY <2>1, <2>2
    <3> QED BY <1>a, <3>1
  <2>4. Good(m - 1) BY <2>1, <2>3
  <2>5. f[m - 1] \in V
    <3>1. m - 1 \in 0..n BY <1>a, <2>3
    <3> QED BY <1>11, <3>1
  <2>6. \A k : k \in 1..m <=> k \in 1..m - 1 \/ k = m BY <1>a, <2>3
  <2>7. m \notin 1..m - 1 BY <1>a, <2>3
  <2>8. Good(m)
    <3>1. CASE m \in T
      <4>1. f[m] = Append(f[m - 1], m) BY <1>10, <2>3, <3>1
      <4>2. ~ Holds(f[m - 1], m) BY <2>4, <2>7
      <4>3. Once(f[m]) /\ \A k : Holds(f[m], k) <=> Holds(f[m - 1], k) \/ k = m
        BY <1>d, <2>3, <2>4, <2>5, <4>1, <4>2
      <4> QED BY <2>4, <2>6, <3>1, <4>3
    <3>2. CASE m \notin T
      <4>1. f[m] = f[m - 1] BY <1>10, <2>3, <3>2
      <4> QED BY <2>4, <2>6, <3>2, <4>1
    <3> QED BY <3>1, <3>2
  <2> QED BY <2>1, <2>8
<1>13. Good(n) /\ f[n] \in V
  <2>1. n \in 0..n BY <1>a
  <2> QED BY <1>a, <1>11, <1>12, <2>1
<1> QED BY <1>0, <1>13 DEF n, V

\* What a batch frees: each item once.
LEMMA FreedIs ==
  ASSUME NEW batch, Len(batch) \in Nat, Len(planItems) \in Nat,
         \A i, j \in 1..Len(batch) : i # j => FreedBy(batch, i) \cap FreedBy(batch, j) = {},
         \A i \in 1..Len(batch) : FreedBy(batch, i) \subseteq 1..Len(planItems)
  PROVE  /\ Freed(batch) \in Seq(1..Len(planItems)) /\ Once(Freed(batch))
         /\ \A k : Holds(Freed(batch), k) <=> \E i \in 1..Len(batch) : k \in FreedBy(batch, i)
<1> DEFINE n == Len(batch)
           V == Seq(1..Len(planItems))
           L(i) == InPlanOrder(FreedBy(batch, i))
           F(f) == [i \in 0..n |-> IF i = 0 THEN <<>> ELSE f[i - 1] \o L(i)]
           f == CHOOSE f : f = F(f)
           step == [x \in (1..n) \X V |-> x[2] \o L(x[1])]
<1>0. Freed(batch) = f[n] BY DEF Freed
<1>a. n \in Nat OBVIOUS
<1>b. <<>> \in V OBVIOUS
<1>c. \A i \in 1..n :
        /\ L(i) \in V /\ Once(L(i))
        /\ \A k : Holds(L(i), k) <=> k \in FreedBy(batch, i)
  BY ListIs
<1>x. \A i, j \in 1..n : i # j => FreedBy(batch, i) \cap FreedBy(batch, j) = {} OBVIOUS
<1>d. \A v, w \in V :
        /\ v \o w \in V
        /\ \A k : Holds(v \o w, k) <=> Holds(v, k) \/ Holds(w, k)
        /\ Once(v) /\ Once(w) /\ (\A k : ~ (Holds(v, k) /\ Holds(w, k))) => Once(v \o w)
  BY ConcatHolds
<1> HIDE DEF L, V
<1>1. step \in [(1..n) \X V -> V]
  <2> SUFFICES ASSUME NEW x \in (1..n) \X V PROVE x[2] \o L(x[1]) \in V OBVIOUS
  <2>1. x[1] \in 1..n /\ x[2] \in V OBVIOUS
  <2> QED BY <2>1, <1>c, <1>d
<1>2. \A i \in 1..n : \A v \in V : step[<<i, v>>] = v \o L(i) OBVIOUS
<1> HIDE DEF step, n
<1>e. Runs(n, V, <<>>, step, n) # {} BY <1>1, <1>a, <1>b, LoopIs
<1>3. PICK g \in [0..n -> V] : g[0] = <<>> /\ \A i \in 1..n : g[i] = step[<<i, g[i - 1]>>]
  BY <1>e DEF Runs
<1>4. \A k \in 0..n : k # 0 => k \in 1..n /\ k - 1 \in 0..n BY <1>a
<1>z. \A k \in 0..n : k # 0 => g[k - 1] \in V BY <1>3, <1>4
<1>5. \A i \in 0..n : g[i] = IF i = 0 THEN <<>> ELSE g[i - 1] \o L(i)
  BY <1>2, <1>3, <1>4, <1>z
<1>6. g = F(g) BY <1>3, <1>5
<1>7. f = F(f) BY <1>6, Zenon
<1> HIDE DEF f
<1>8. f = [i \in 0..n |-> f[i]] BY <1>7
<1>9. f[0] = <<>> BY <1>a, <1>7
<1>10. \A k \in 1..n : f[k] = f[k - 1] \o L(k)
  <2>1. \A k \in 1..n : k \in 0..n /\ k # 0 BY <1>a
  <2> QED BY <1>7, <2>1
<1>11. f \in [0..n -> V]
  <2>a. \A i \in 1..n : \A v \in V : v \o L(i) \in V BY <1>c, <1>d
  <2>1. \A i \in 1..n : f[i - 1] \in V => f[i] \in V BY <1>10, <2>a
  <2>2. f[0] \in V BY <1>9, <1>b
  <2> QED BY <1>a, <1>8, <2>1, <2>2, LoopTyped, Zenon
<1> DEFINE Good(m) == Once(f[m]) /\ \A k : Holds(f[m], k) <=> \E i \in 1..m : k \in FreedBy(batch, i)
           Off == {m \in Nat : m <= n /\ ~ Good(m)}
<1>12. Off = {}
  <2> SUFFICES ASSUME Off # {} PROVE FALSE OBVIOUS
  <2>1. PICK m \in Off : \A j \in Off : ~ (j < m) BY LeastOf
  <2>2. Good(0)
    <3>1. 1..0 = {} OBVIOUS
    <3> QED BY <1>9, <3>1, EmptyHolds
  <2>3. m \in 1..n /\ m - 1 \in Nat /\ m - 1 < m /\ m - 1 <= n
    <3>1. m \in Nat /\ m <= n /\ m # 0 BY <2>1, <2>2
    <3> QED BY <1>a, <3>1
  <2>4. Good(m - 1) BY <2>1, <2>3
  <2>5. f[m - 1] \in V
    <3>1. m - 1 \in 0..n BY <1>a, <2>3
    <3> QED BY <1>11, <3>1
  <2>6. \A k : k \in 1..m <=> k \in 1..m - 1 \/ k = m BY <1>a, <2>3
  <2>7. m \notin 1..m - 1 /\ \A i \in 1..m - 1 : i \in 1..n BY <1>a, <2>3
  <2>8. f[m] = f[m - 1] \o L(m) BY <1>10, <2>3
  <2>9. \A k : ~ (Holds(f[m - 1], k) /\ Holds(L(m), k))
    <3> SUFFICES ASSUME NEW k, Holds(f[m - 1], k), Holds(L(m), k) PROVE FALSE OBVIOUS
    <3>1. PICK i \in 1..m - 1 : k \in FreedBy(batch, i) BY <2>4
    <3>2. k \in FreedBy(batch, m) BY <1>c, <2>3
    <3>3. i \in 1..n /\ i # m BY <2>7
    <3> QED BY <1>x, <2>3, <3>1, <3>2, <3>3
  <2>a. L(m) \in V /\ Once(L(m)) /\ \A k : Holds(L(m), k) <=> k \in FreedBy(batch, m) BY <1>c, <2>3
  <2>10. Once(f[m]) /\ \A k : Holds(f[m], k) <=> Holds(f[m - 1], k) \/ Holds(L(m), k)
    BY <1>d, <2>4, <2>5, <2>8, <2>9, <2>a
  <2>11. Good(m) BY <2>4, <2>6, <2>10, <2>a
  <2> QED BY <2>1, <2>11
<1>13. Good(n) /\ f[n] \in V
  <2>1. n \in 0..n BY <1>a
  <2> QED BY <1>a, <1>11, <1>12, <2>1
<1> QED BY <1>0, <1>13 DEF n, V

Items == [id : Nat, deps : Seq(Nat), estimate : NoteLengths]
PlanIndex == 1..Len(planItems)

\* The dependencies of k that are not in a bar yet.
Open(k) ==
  {i \in DOMAIN planItems[k].deps :
     \A j \in PlanIndex : planItems[k].deps[i] = planItems[j].id => ~ Scheduled(j)}

Valid ==
  /\ \A k, j \in PlanIndex : planItems[k].id = planItems[j].id => k = j
  /\ \A k \in PlanIndex : \A i \in DOMAIN planItems[k].deps :
       \E j \in PlanIndex : planItems[k].deps[i] = planItems[j].id
BatchTypes ==
  planQueue \in Seq(PlanIndex) /\ batches \in Seq(Seq(PlanIndex)) /\ degrees \in [PlanIndex -> Nat]
QueuedOnce == Once(planQueue) /\ \A k \in PlanIndex : Holds(planQueue, k) => ~ Scheduled(k)
PlacedOnce ==
  \A b, c \in DOMAIN batches : \A i \in DOMAIN batches[b], m \in DOMAIN batches[c] :
    batches[b][i] = batches[c][m] => b = c /\ i = m
CountsOpen == \A k \in PlanIndex : degrees[k] = Cardinality(Open(k))
QueuesFree == \A k \in PlanIndex : Holds(planQueue, k) <=> ~ Scheduled(k) /\ Open(k) = {}
DepsFirst ==
  \A k, j \in PlanIndex :
    Uses(j, k) > 0 => \A b \in DOMAIN batches : InBar(k, b) => \E c \in 1..b - 1 : InBar(j, c)

BarsFilled == \A b \in DOMAIN batches : batches[b] # <<>>

\* What holds as soon as the plan is read, and to the end.
BatchInv ==
  /\ Valid /\ BatchTypes /\ QueuedOnce /\ PlacedOnce /\ CountsOpen /\ QueuesFree /\ DepsFirst
  /\ BarsFilled

Batched == scoreStage \notin {"reading", "duplicate id", "unknown dep"}

PlanInv ==
  /\ planItems \in Seq(Items)
  /\ Batched => BatchInv
  /\ scoreStage # "batching" => planQueue = <<>>
  /\ scoreStage \in {"reading", "typing"} => batches = <<>> /\ degrees = <<>>
  /\ planLines \in Nat
  /\ planLines = 0 \/ scoreStage = "typing" => planItems = <<>>

LEMMA CountTo == \A m \in Nat : IsFiniteSet(1..m) /\ Cardinality(1..m) = m
<1> TAKE m \in Nat
<1>1. m \in Int /\ 1 \in Int OBVIOUS
<1>2. IsFiniteSet(1..m) /\ Cardinality(1..m) = IF 1 > m THEN 0 ELSE m - 1 + 1
  BY ONLY <1>1, FS_Interval
<1>3. (IF 1 > m THEN 0 ELSE m - 1 + 1) = m OBVIOUS
<1> QED BY <1>2, <1>3

LEMMA ItemIs ==
  ASSUME planItems \in Seq(Items)
  PROVE  /\ Len(planItems) \in Nat /\ DOMAIN planItems = PlanIndex /\ PlanIndex = 1..Len(planItems)
         /\ \A k \in PlanIndex :
              /\ planItems[k].id \in Nat /\ planItems[k].deps \in Seq(Nat)
              /\ planItems[k].estimate \in NoteLengths
              /\ IsFiniteSet(DOMAIN planItems[k].deps)
<1>1. Len(planItems) \in Nat /\ DOMAIN planItems = PlanIndex BY DEF PlanIndex
<1>2. ASSUME NEW k \in PlanIndex
      PROVE  /\ planItems[k].id \in Nat /\ planItems[k].deps \in Seq(Nat)
             /\ planItems[k].estimate \in NoteLengths
             /\ IsFiniteSet(DOMAIN planItems[k].deps)
  <2>1. planItems[k] \in Items BY <1>1
  <2>2. planItems[k].id \in Nat /\ planItems[k].deps \in Seq(Nat) /\ planItems[k].estimate \in NoteLengths
    BY <2>1 DEF Items
  <2> DEFINE deps == planItems[k].deps
  <2> HIDE DEF deps
  <2>3. deps \in Seq(Nat) BY <2>2 DEF deps
  <2>4. DOMAIN deps = 1..Len(deps) /\ Len(deps) \in Nat BY <2>3
  <2>5. IsFiniteSet(DOMAIN deps) BY <2>4, CountTo
  <2> QED BY <2>2, <2>5 DEF deps
<1> QED BY <1>1, <1>2 DEF PlanIndex

LEMMA UsesIs ==
  ASSUME planItems \in Seq(Items), NEW j, NEW k \in PlanIndex
  PROVE  /\ Uses(j, k) \in Nat
         /\ Uses(j, k) > 0 <=> \E i \in DOMAIN planItems[k].deps : planItems[k].deps[i] = planItems[j].id
<1> DEFINE D == DOMAIN planItems[k].deps
           H == {i \in D : planItems[k].deps[i] = planItems[j].id}
<1>1. IsFiniteSet(D) BY ItemIs
<1>2. Uses(j, k) = Cardinality(H) BY DEF Uses
<1> HIDE DEF D
<1>3. IsFiniteSet(H) /\ Cardinality(H) \in Nat BY <1>1, FS_Subset, FS_CardinalityType
<1>4. Cardinality(H) = 0 <=> H = {} BY <1>3, FS_EmptySet
<1>5. H # {} <=> \E i \in D : planItems[k].deps[i] = planItems[j].id OBVIOUS
<1> HIDE DEF H
<1> QED BY <1>2, <1>3, <1>4, <1>5 DEF D

\* The dependencies of k that are among the first m of a batch.
Hit(batch, k, m) ==
  {i \in DOMAIN planItems[k].deps :
     \E p \in 1..m : planItems[k].deps[i] = planItems[batch[p]].id}

LEMMA UsedCounts ==
  ASSUME planItems \in Seq(Items), Valid, NEW batch \in Seq(PlanIndex), Once(batch), NEW k \in PlanIndex
  PROVE  /\ Used(batch, k) \in [0..Len(batch) -> Nat]
         /\ \A m \in 1..Len(batch) : Used(batch, k)[m] = Used(batch, k)[m - 1] + Uses(batch[m], k)
         /\ \A m \in 0..Len(batch) : Used(batch, k)[m] = Cardinality(Hit(batch, k, m))
<1> DEFINE n == Len(batch)
           f == Used(batch, k)
<1>1. n \in Nat /\ DOMAIN batch = 1..n /\ \A i \in 1..n : batch[i] \in PlanIndex OBVIOUS
<1>2. \A i \in 1..n : Uses(batch[i], k) \in Nat BY <1>1, UsesIs
<1>3. /\ f \in [0..n -> Nat] /\ f[0] = 0
      /\ \A i \in 1..n : f[i] = f[i - 1] + Uses(batch[i], k)
  BY <1>1, <1>2, UsedIs
<1>4. \A m : Hit(batch, k, m) \subseteq DOMAIN planItems[k].deps BY DEF Hit
<1>5. IsFiniteSet(DOMAIN planItems[k].deps) BY ItemIs
<1>6. \A m : IsFiniteSet(Hit(batch, k, m)) /\ Cardinality(Hit(batch, k, m)) \in Nat
  BY <1>4, <1>5, FS_Subset, FS_CardinalityType
<1> HIDE DEF f
<1> DEFINE Off == {m \in Nat : m <= n /\ f[m] # Cardinality(Hit(batch, k, m))}
<1>7. Off = {}
  <2> SUFFICES ASSUME Off # {} PROVE FALSE OBVIOUS
  <2>1. PICK m \in Off : \A j \in Off : ~ (j < m) BY LeastOf
  <2>2. f[0] = Cardinality(Hit(batch, k, 0))
    <3>1. 1..0 = {} OBVIOUS
    <3>2. Hit(batch, k, 0) = {} BY <3>1 DEF Hit
    <3> QED BY <1>3, <3>2, FS_EmptySet
  <2>3. m \in 1..n /\ m - 1 \in Nat /\ m - 1 < m /\ m - 1 <= n
    <3>1. m \in Nat /\ m <= n /\ m # 0 BY <2>1, <2>2
    <3> QED BY <1>1, <3>1
  <2>4. f[m - 1] = Cardinality(Hit(batch, k, m - 1)) BY <2>1, <2>3
  <2> DEFINE H == {i \in DOMAIN planItems[k].deps : planItems[k].deps[i] = planItems[batch[m]].id}
  <2>5. Uses(batch[m], k) = Cardinality(H) BY DEF Uses
  <2>6. IsFiniteSet(H) BY <1>5, FS_Subset
  <2>7. Hit(batch, k, m) = Hit(batch, k, m - 1) \cup H
    <3>1. \A p : p \in 1..m <=> p \in 1..m - 1 \/ p = m BY <2>3
    <3> QED BY <3>1 DEF Hit
  <2>8. Hit(batch, k, m - 1) \cap H = {}
    <3> SUFFICES ASSUME NEW i \in Hit(batch, k, m - 1), i \in H PROVE FALSE OBVIOUS
    <3>1. PICK p \in 1..m - 1 : planItems[k].deps[i] = planItems[batch[p]].id BY DEF Hit
    <3>2. p \in 1..n /\ p # m BY <1>1, <2>3
    <3>3. planItems[batch[p]].id = planItems[batch[m]].id BY <3>1
    <3>4. batch[p] = batch[m] BY <1>1, <2>3, <3>2, <3>3 DEF Valid
    <3> QED BY <1>1, <2>3, <3>2, <3>4 DEF Once
  <2> HIDE DEF H
  <2> DEFINE O == Hit(batch, k, m - 1)
  <2>a. IsFiniteSet(O) /\ Cardinality(O) \in Nat BY <1>6
  <2>b. O \cap H = {} BY <2>8
  <2>c. Hit(batch, k, m) = O \cup H BY <2>7
  <2> HIDE DEF O
  <2>d. Cardinality(O \cup H) = Cardinality(O) + Cardinality(H) - Cardinality(O \cap H) BY <2>6, <2>a, FS_Union
  <2>e. Cardinality(O \cap H) = 0 BY <2>b, FS_EmptySet
  <2>f. Cardinality(H) \in Nat BY <2>6, FS_CardinalityType
  <2>9. Cardinality(O \cup H) = Cardinality(O) + Cardinality(H) BY <2>a, <2>d, <2>e, <2>f
  <2>10. f[m] = f[m - 1] + Cardinality(H) BY <1>3, <2>3, <2>5
  <2>11. f[m] = Cardinality(Hit(batch, k, m)) BY <2>4, <2>9, <2>10, <2>c DEF O
  <2> QED BY <2>1, <2>11
<1>8. \A m \in 0..n : f[m] = Cardinality(Hit(batch, k, m))
  <2> TAKE m \in 0..n
  <2>1. m \in Nat /\ m <= n BY <1>1
  <2> QED BY <1>7, <2>1
<1> QED BY <1>3, <1>8 DEF f

\* A plan that validates has distinct ids, and knows every dependency.
LEMMA ValidIs ==
  ASSUME planItems \in Seq(Items), ValidatePlan = "batching"
  PROVE  Valid
<1> DEFINE n == Len(planItems)
           T == IdsOf(planItems)
           f == [k \in 1..n |-> planItems[k].id]
<1>1. n \in Nat /\ DOMAIN planItems = 1..n /\ PlanIndex = 1..n BY ItemIs DEF PlanIndex
<1>2. Cardinality(T) = n BY DEF ValidatePlan
<1>3. \A k \in DOMAIN planItems : ToSet(planItems[k].deps) \subseteq T BY DEF ValidatePlan
<1>4. f \in Surjection(1..n, T)
  <2>1. T = {planItems[k].id : k \in 1..n} BY <1>1 DEF IdsOf
  <2>2. f \in [1..n -> T] BY <2>1
  <2>3. \A t \in T : \E k \in 1..n : f[k] = t BY <2>1
  <2> HIDE DEF f, T
  <2> QED BY <2>2, <2>3 DEF Surjection
<1>5. IsFiniteSet(1..n) /\ Cardinality(1..n) = n BY <1>1, CountTo
<1> HIDE DEF f
<1>6. f \in Injection(1..n, T) BY <1>2, <1>4, <1>5, FS_Surjection
<1>7. \A k, j \in PlanIndex : planItems[k].id = planItems[j].id => k = j
  BY <1>1, <1>6 DEF Injection, IsInjective, f
<1>8. ASSUME NEW k \in PlanIndex, NEW i \in DOMAIN planItems[k].deps
      PROVE  \E j \in PlanIndex : planItems[k].deps[i] = planItems[j].id
  <2>1. planItems[k].deps \in Seq(Nat) BY ItemIs
  <2>2. planItems[k].deps[i] \in ToSet(planItems[k].deps) BY <2>1 DEF ToSet
  <2>3. planItems[k].deps[i] \in T BY <1>1, <1>3, <2>2
  <2> QED BY <1>1, <2>3 DEF IdsOf
<1> QED BY <1>7, <1>8 DEF Valid

LEMMA StartKeeps ==
  ASSUME PlanInv, StartBatches
  PROVE  PlanInv'
<1> USE DEF StartBatches
<1>0. planItems \in Seq(Items) /\ batches = <<>> BY DEF PlanInv
<1>1. planItems' = planItems /\ batches' = batches /\ planLines' = planLines OBVIOUS
<1>2. /\ PlanIndex' = PlanIndex /\ PlanIndex = DOMAIN planItems
      /\ Len(planItems) \in Nat /\ PlanIndex = 1..Len(planItems)
  BY <1>0, <1>1, ItemIs DEF PlanIndex
<1>3. /\ Batched' => scoreStage' = "batching"
      /\ scoreStage' # "reading" /\ scoreStage' # "typing" 
  BY Zenon DEF ValidatePlan, Batched
<1>4. scoreStage' # "batching" => planQueue' = <<>> OBVIOUS
<1>5. ASSUME scoreStage' = "batching" PROVE BatchInv'
  <2> DEFINE S == {k \in DOMAIN planItems : planItems[k].deps = <<>>}
  <2>1. Valid BY <1>0, <1>5, ValidIs
  <2>2. Valid' BY <1>1, <2>1 DEF Valid, PlanIndex
  <2>3. planQueue' = InPlanOrder(S) BY <1>5
  <2> HIDE DEF S
  <2>4. /\ InPlanOrder(S) \in Seq(PlanIndex) /\ Once(InPlanOrder(S))
        /\ \A k : Holds(InPlanOrder(S), k) <=> k \in S /\ k \in PlanIndex
    BY <1>2, ListIs
  <2>5. \A k : ~ Scheduled(k)' BY <1>0, <1>1 DEF Scheduled
  <2>6. ASSUME NEW k \in PlanIndex
        PROVE  /\ planItems[k].deps \in Seq(Nat) /\ Open(k)' = DOMAIN planItems[k].deps
               /\ degrees'[k] = Len(planItems[k].deps)
    BY <1>0, <1>1, <1>2, <2>5, ItemIs DEF Open
  <2>7. degrees' \in [PlanIndex -> Nat]
    <3>1. degrees' = [k \in PlanIndex |-> Len(planItems[k].deps)] BY <1>2
    <3>2. \A k \in PlanIndex : Len(planItems[k].deps) \in Nat BY <2>6
    <3> QED BY <3>1, <3>2
  <2>8. BatchTypes' BY <1>0, <1>1, <1>2, <2>3, <2>4, <2>7 DEF BatchTypes
  <2>9. QueuedOnce' BY <1>2, <2>3, <2>4, <2>5 DEF QueuedOnce, Once
  <2>10. PlacedOnce' /\ DepsFirst' /\ BarsFilled' BY <1>0, <1>1 DEF PlacedOnce, DepsFirst, BarsFilled
  <2>11. CountsOpen'
    <3> SUFFICES ASSUME NEW k \in PlanIndex PROVE degrees'[k] = Cardinality(Open(k)')
      BY <1>2 DEF CountsOpen
    <3>1. Len(planItems[k].deps) \in Nat /\ DOMAIN planItems[k].deps = 1..Len(planItems[k].deps)
      BY <2>6
    <3> QED BY <2>6, <3>1, CountTo
  <2>12. QueuesFree'
    <3> SUFFICES ASSUME NEW k \in PlanIndex
                 PROVE  Holds(planQueue', k) <=> ~ Scheduled(k)' /\ Open(k)' = {}
      BY <1>2 DEF QueuesFree, Holds
    <3> DEFINE d == planItems[k].deps
    <3>1. d \in Seq(Nat) /\ Open(k)' = DOMAIN d BY <2>6
    <3>2. Holds(planQueue', k) <=> d = <<>> BY <1>2, <2>3, <2>4 DEF S
    <3> HIDE DEF d
    <3>3. d = <<>> <=> DOMAIN d = {} BY <3>1
    <3> QED BY <2>5, <3>1, <3>2, <3>3
  <2> QED BY <2>2, <2>8, <2>9, <2>10, <2>11, <2>12 DEF BatchInv
<1> QED BY <1>0, <1>1, <1>3, <1>4, <1>5 DEF PlanInv

\* What a batch does to the open dependencies of an item.
LEMMA HitIs ==
  ASSUME planItems \in Seq(Items), BatchInv, NEW k \in PlanIndex
  PROVE  LET q == planQueue  n == Len(planQueue) IN
         /\ n \in Nat /\ IsFiniteSet(Open(k)) /\ Hit(q, k, 0) = {}
         /\ \A m \in 0..n : Hit(q, k, m) \subseteq Open(k) /\ IsFiniteSet(Hit(q, k, m))
         /\ \A m, p \in 0..n : m <= p => Hit(q, k, m) \subseteq Hit(q, k, p)
         /\ \A m \in 0..n : Used(q, k)[m] = degrees[k] <=> Hit(q, k, m) = Open(k)
<1> DEFINE q == planQueue
           n == Len(q)
           O == Open(k)
           H(m) == Hit(q, k, m)
<1>1. /\ Valid /\ q \in Seq(PlanIndex) /\ Once(q) /\ n \in Nat /\ DOMAIN q = 1..n
      /\ \A i \in 1..n : q[i] \in PlanIndex /\ ~ Scheduled(q[i])
  BY DEF BatchInv, BatchTypes, QueuedOnce, Holds
<1>2. IsFiniteSet(O)
  <2>1. IsFiniteSet(DOMAIN planItems[k].deps) BY ItemIs
  <2> QED BY <2>1, FS_Subset DEF Open
<1>3. H(0) = {}
  <2>1. 1..0 = {} OBVIOUS
  <2> QED BY <2>1 DEF Hit
<1>4. ASSUME NEW m \in 0..n PROVE H(m) \subseteq O
  <2> SUFFICES ASSUME NEW i \in H(m) PROVE i \in O OBVIOUS
  <2>1. /\ i \in DOMAIN planItems[k].deps
        /\ \E p \in 1..m : planItems[k].deps[i] = planItems[q[p]].id
    BY DEF Hit
  <2>2. PICK p \in 1..m : planItems[k].deps[i] = planItems[q[p]].id BY <2>1
  <2>3. p \in 1..n BY <1>1
  <2>4. \A j \in PlanIndex : planItems[k].deps[i] = planItems[j].id => j = q[p]
    BY <1>1, <2>2, <2>3 DEF Valid
  <2> QED BY <1>1, <2>1, <2>3, <2>4 DEF Open
<1>5. ASSUME NEW m \in 0..n PROVE IsFiniteSet(H(m)) BY <1>2, <1>4, FS_Subset
<1>6. ASSUME NEW m \in 0..n, NEW p \in 0..n, m <= p PROVE H(m) \subseteq H(p)
  <2>1. 1..m \subseteq 1..p BY <1>1, <1>6
  <2> QED BY <2>1 DEF Hit
<1>7. ASSUME NEW m \in 0..n PROVE Used(q, k)[m] = degrees[k] <=> H(m) = O
  <2>1. Used(q, k)[m] = Cardinality(H(m)) BY <1>1, UsedCounts
  <2>2. degrees[k] = Cardinality(O) BY DEF BatchInv, CountsOpen
  <2>3. Cardinality(H(m)) = Cardinality(O) => H(m) = O BY <1>2, <1>4, FS_Subset
  <2> QED BY <2>1, <2>2, <2>3
<1> QED BY <1>1, <1>2, <1>3, <1>4, <1>5, <1>6, <1>7

LEMMA FreedOnce ==
  ASSUME planItems \in Seq(Items), BatchInv,
         NEW i \in 1..Len(planQueue), NEW j \in 1..Len(planQueue), i < j
  PROVE  FreedBy(planQueue, i) \cap FreedBy(planQueue, j) = {}
<1> DEFINE q == planQueue
           n == Len(q)
<1> SUFFICES ASSUME NEW k \in FreedBy(q, i), k \in FreedBy(q, j) PROVE FALSE OBVIOUS
<1>1. k \in PlanIndex BY ItemIs DEF FreedBy
<1>2. n \in Nat /\ q \in Seq(PlanIndex) /\ Once(q) /\ Valid
  BY DEF BatchInv, BatchTypes, QueuedOnce
<1>3. i \in 0..n /\ j \in 0..n /\ j - 1 \in 0..n /\ i <= j - 1 /\ j \in 1..n BY <1>2
<1>4. Used(q, k)[i] = degrees[k] /\ Used(q, k)[j] = degrees[k] /\ Uses(q[j], k) > 0
  BY DEF FreedBy
<1>5. Hit(q, k, i) = Open(k) BY <1>1, <1>3, <1>4, HitIs
<1>6. Hit(q, k, j - 1) = Open(k)
  <2>1. Hit(q, k, i) \subseteq Hit(q, k, j - 1) BY <1>1, <1>3, HitIs
  <2>2. Hit(q, k, j - 1) \subseteq Open(k) BY <1>1, <1>3, HitIs
  <2> QED BY <1>5, <2>1, <2>2
<1>7. Used(q, k)[j - 1] = degrees[k] BY <1>1, <1>3, <1>6, HitIs
<1>8. Used(q, k)[j] = Used(q, k)[j - 1] + Uses(q[j], k) BY <1>1, <1>2, <1>3, UsedCounts
<1>9. degrees[k] \in Nat BY <1>1 DEF BatchInv, BatchTypes
<1>10. Uses(q[j], k) \in Nat BY <1>1, <1>2, <1>3, UsesIs
<1> QED BY <1>4, <1>7, <1>8, <1>9, <1>10

\* The items freed by a batch are those without a bar and without open
\* dependencies once it is placed.
LEMMA FreedAre ==
  ASSUME planItems \in Seq(Items), BatchInv, NEW k \in PlanIndex
  PROVE  (\E i \in 1..Len(planQueue) : k \in FreedBy(planQueue, i)) <=>
         /\ ~ Scheduled(k) /\ ~ Holds(planQueue, k)
         /\ Hit(planQueue, k, Len(planQueue)) = Open(k)
<1> DEFINE q == planQueue
           n == Len(q)
<1>1. n \in Nat /\ q \in Seq(PlanIndex) /\ Once(q) /\ Valid /\ DOMAIN q = 1..n
  BY DEF BatchInv, BatchTypes, QueuedOnce
<1>2. k \in DOMAIN planItems BY ItemIs
<1>3. QueuesFree /\ DepsFirst /\ QueuedOnce BY DEF BatchInv
<1>4. ASSUME NEW i \in 1..n, k \in FreedBy(q, i)
      PROVE  ~ Scheduled(k) /\ ~ Holds(q, k) /\ Hit(q, k, n) = Open(k)
  <2>1. i \in 0..n /\ n \in 0..n /\ i <= n /\ q[i] \in PlanIndex BY <1>1
  <2>2. Used(q, k)[i] = degrees[k] /\ Uses(q[i], k) > 0 BY <1>4 DEF FreedBy
  <2>3. Hit(q, k, i) = Open(k) BY <2>1, <2>2, HitIs
  <2>4. Hit(q, k, n) = Open(k)
    <3>1. Hit(q, k, i) \subseteq Hit(q, k, n) BY <2>1, HitIs
    <3>2. Hit(q, k, n) \subseteq Open(k) BY <2>1, HitIs
    <3> QED BY <2>3, <3>1, <3>2
  <2>5. PICK d \in DOMAIN planItems[k].deps : planItems[k].deps[d] = planItems[q[i]].id
    BY <2>2, UsesIs
  <2>6. d \in Hit(q, k, i)
    <3>1. i \in 1..i BY <1>1
    <3> QED BY <2>5, <3>1 DEF Hit
  <2>7. ~ Holds(q, k) BY <1>3, <2>3, <2>6 DEF QueuesFree
  <2>8. ~ Scheduled(k)
    <3> SUFFICES ASSUME Scheduled(k) PROVE FALSE OBVIOUS
    <3>1. PICK b \in DOMAIN batches : InBar(k, b) BY DEF Scheduled
    <3>2. PICK c \in 1..b - 1 : InBar(q[i], c) BY <1>3, <2>1, <2>2, <3>1 DEF DepsFirst
    <3>3. c \in DOMAIN batches
      <4>1. batches \in Seq(Seq(PlanIndex)) BY DEF BatchInv, BatchTypes
      <4>2. DOMAIN batches = 1..Len(batches) /\ Len(batches) \in Nat BY <4>1
      <4> QED BY <4>2
    <3>4. Scheduled(q[i]) BY <3>2, <3>3 DEF Scheduled
    <3>5. Holds(q, q[i]) BY <1>1 DEF Holds
    <3> QED BY <1>3, <2>1, <3>4, <3>5 DEF QueuedOnce
  <2> QED BY <2>4, <2>7, <2>8
<1>5. ASSUME ~ Scheduled(k), ~ Holds(q, k), Hit(q, k, n) = Open(k)
      PROVE  \E i \in 1..n : k \in FreedBy(q, i)
  <2> DEFINE All == {m \in Nat : m <= n /\ Hit(q, k, m) = Open(k)}
  <2>1. All # {} /\ All \subseteq Nat BY <1>1, <1>5
  <2> HIDE DEF All
  <2>2. PICK m \in All : \A j \in All : ~ (j < m) BY <2>1, LeastOf
  <2>3. m \in Nat /\ m <= n /\ Hit(q, k, m) = Open(k) BY <2>2 DEF All
  <2>4. Open(k) # {} BY <1>3, <1>5 DEF QueuesFree
  <2>5. Hit(q, k, 0) = {} BY HitIs
  <2>6. m # 0 BY <2>3, <2>4, <2>5
  <2>7. m \in 1..n /\ m \in 0..n /\ m - 1 \in 0..n /\ m - 1 \in Nat /\ m - 1 < m
    BY <1>1, <2>3, <2>6
  <2>8. Used(q, k)[m] = degrees[k] BY <2>3, <2>7, HitIs
  <2>9. Hit(q, k, m - 1) # Open(k) BY <1>1, <2>2, <2>7 DEF All
  <2>10. Used(q, k)[m - 1] # degrees[k] BY <2>7, <2>9, HitIs
  <2>11. Used(q, k)[m] = Used(q, k)[m - 1] + Uses(q[m], k) BY <1>1, <2>7, UsedCounts
  <2>12. Uses(q[m], k) \in Nat /\ Used(q, k)[m - 1] \in Nat
    <3>1. Used(q, k) \in [0..n -> Nat] BY <1>1, UsedCounts
    <3> QED BY <1>1, <2>7, <3>1, UsesIs
  <2>13. Uses(q[m], k) > 0 BY <2>8, <2>10, <2>11, <2>12
  <2> QED BY <1>2, <2>7, <2>8, <2>13 DEF FreedBy
<1> QED BY <1>4, <1>5

\* What PlaceBatch does to the bars and to what is open.
LEMMA PlaceIs ==
  ASSUME planItems \in Seq(Items), BatchInv, PlaceBatch
  PROVE  /\ PlanIndex' = PlanIndex
         /\ \A k : Scheduled(k)' <=> Scheduled(k) \/ Holds(planQueue, k)
         /\ \A k \in PlanIndex : Open(k)' = Open(k) \ Hit(planQueue, k, Len(planQueue))
         /\ DOMAIN batches = 1..Len(batches) /\ Len(batches) \in Nat
         /\ DOMAIN batches' = 1..Len(batches) + 1
         /\ \A b \in DOMAIN batches : batches'[b] = batches[b]
         /\ batches'[Len(batches) + 1] = planQueue
         /\ batches' \in Seq(Seq(PlanIndex))
<1> USE DEF PlaceBatch
<1> DEFINE q == planQueue
           n == Len(q)
           z == Len(batches)
<1>1. q \in Seq(PlanIndex) /\ batches \in Seq(Seq(PlanIndex)) BY DEF BatchInv, BatchTypes
<1>2. planItems' = planItems /\ PlanIndex' = PlanIndex BY DEF PlanIndex
<1>3. z \in Nat /\ DOMAIN batches = 1..z /\ n \in Nat /\ DOMAIN q = 1..n BY <1>1
<1>4. batches' = Append(batches, q) OBVIOUS
<1>5. batches' \in Seq(Seq(PlanIndex)) /\ Len(batches') = z + 1 BY <1>1, <1>4
<1>6. DOMAIN batches' = 1..z + 1 BY <1>3, <1>5
<1>7. \A b \in 1..z : batches'[b] = batches[b] BY <1>1, <1>3, <1>4
<1>8. batches'[z + 1] = q BY <1>1, <1>3, <1>4
<1>9. ASSUME NEW k PROVE Scheduled(k)' <=> Scheduled(k) \/ Holds(q, k)
  <2>1. \A b : b \in 1..z + 1 <=> b \in 1..z \/ b = z + 1 BY <1>3
  <2>2. Scheduled(k)' <=> \E b \in 1..z + 1 : \E i \in DOMAIN batches'[b] : batches'[b][i] = k
    BY <1>6 DEF Scheduled, InBar
  <2>3. Scheduled(k) <=> \E b \in 1..z : \E i \in DOMAIN batches[b] : batches[b][i] = k
    BY <1>3 DEF Scheduled, InBar
  <2>4. Holds(q, k) <=> \E i \in DOMAIN batches'[z + 1] : batches'[z + 1][i] = k
    BY <1>8 DEF Holds
  <2> QED BY <1>7, <2>1, <2>2, <2>3, <2>4
<1>10. ASSUME NEW k \in PlanIndex PROVE Open(k)' = Open(k) \ Hit(q, k, n)
  <2> DEFINE D == DOMAIN planItems[k].deps
             dep(i, j) == planItems[k].deps[i] = planItems[j].id
  <2>1. Open(k)' = {i \in D : \A j \in PlanIndex : dep(i, j) => ~ Scheduled(j)'}
    BY <1>2 DEF Open
  <2>2. Open(k) = {i \in D : \A j \in PlanIndex : dep(i, j) => ~ Scheduled(j)} BY DEF Open
  <2>3. Hit(q, k, n) = {i \in D : \E p \in 1..n : dep(i, q[p])} BY DEF Hit
  <2>4. \A j \in PlanIndex : Scheduled(j)' <=> Scheduled(j) \/ \E p \in 1..n : q[p] = j
    BY <1>3, <1>9 DEF Holds
  <2>5. \A p \in 1..n : q[p] \in PlanIndex BY <1>1, <1>3
  <2> HIDE DEF D, dep
  <2>6. \A i \in D : (\A j \in PlanIndex : dep(i, j) => ~ Scheduled(j)') <=>
                     /\ \A j \in PlanIndex : dep(i, j) => ~ Scheduled(j)
                     /\ ~ \E p \in 1..n : dep(i, q[p])
    BY <2>4, <2>5
  <2> QED BY <2>1, <2>2, <2>3, <2>6
<1> QED BY <1>2, <1>3, <1>5, <1>6, <1>7, <1>8, <1>9, <1>10

LEMMA PlaceKeeps ==
  ASSUME PlanInv, PlaceBatch
  PROVE  PlanInv'
<1> DEFINE q == planQueue
           n == Len(q)
           z == Len(batches)
<1>0. /\ planItems \in Seq(Items) /\ BatchInv /\ Batched /\ Batched'
      /\ scoreStage = "batching" /\ scoreStage' = "batching"
      /\ planLines' = planLines /\ planItems' = planItems /\ planQueue' = Freed(q)
      /\ degrees' = [k \in DOMAIN planItems |-> degrees[k] - Used(q, k)[n]]
      /\ q # <<>>
  BY Zenon DEF PlanInv, Batched, PlaceBatch, planVars
<1>1. /\ PlanIndex' = PlanIndex
      /\ \A k : Scheduled(k)' <=> Scheduled(k) \/ Holds(q, k)
      /\ \A k \in PlanIndex : Open(k)' = Open(k) \ Hit(q, k, n)
      /\ DOMAIN batches = 1..z /\ z \in Nat
      /\ DOMAIN batches' = 1..z + 1
      /\ \A b \in DOMAIN batches : batches'[b] = batches[b]
      /\ batches'[z + 1] = q
      /\ batches' \in Seq(Seq(PlanIndex))
  BY <1>0, PlaceIs
<1>2. /\ q \in Seq(PlanIndex) /\ n \in Nat /\ DOMAIN q = 1..n /\ Once(q)
      /\ n \in 0..n /\ DOMAIN planItems = PlanIndex
      /\ Len(planItems) \in Nat /\ PlanIndex = 1..Len(planItems)
      /\ Valid /\ PlacedOnce /\ QueuedOnce /\ DepsFirst /\ QueuesFree /\ CountsOpen
      /\ degrees \in [PlanIndex -> Nat]
  BY <1>0, ItemIs DEF BatchInv, BatchTypes, QueuedOnce
<1>3. /\ Freed(q) \in Seq(PlanIndex) /\ Once(Freed(q))
      /\ \A k : Holds(Freed(q), k) <=> \E i \in 1..n : k \in FreedBy(q, i)
  <2>1. \A i \in 1..n : FreedBy(q, i) \subseteq PlanIndex BY <1>2 DEF FreedBy
  <2>2. ASSUME NEW i \in 1..n, NEW j \in 1..n, i # j
        PROVE  FreedBy(q, i) \cap FreedBy(q, j) = {}
    <3>1. CASE i < j BY <1>0, <3>1, FreedOnce
    <3>2. CASE j < i BY <1>0, <3>2, FreedOnce
    <3> QED BY <1>2, <2>2, <3>1, <3>2
  <2> QED BY <1>2, <2>1, <2>2, FreedIs
<1>4. Valid' BY <1>0, <1>1, <1>2 DEF Valid
<1>5. ASSUME NEW k \in PlanIndex
      PROVE  degrees'[k] \in Nat /\ degrees'[k] = Cardinality(Open(k)')
  <2> DEFINE H == Hit(q, k, n)
             O == Open(k)
  <2>1. Used(q, k)[n] = Cardinality(H) BY <1>0, <1>2, UsedCounts
  <2>2. degrees[k] = Cardinality(O) BY <1>2 DEF CountsOpen
  <2>3. IsFiniteSet(O) /\ H \subseteq O /\ IsFiniteSet(H) BY <1>0, <1>2, HitIs
  <2> HIDE DEF H, O
  <2>4. Cardinality(O \ H) = Cardinality(O) - Cardinality(O \cap H) /\ IsFiniteSet(O \ H)
    BY <2>3, FS_Difference
  <2>5. O \cap H = H BY <2>3
  <2>6. degrees'[k] = Cardinality(O \ H) BY <1>0, <1>2, <2>1, <2>2, <2>4, <2>5
  <2>7. Cardinality(O \ H) \in Nat BY <2>4, FS_CardinalityType
  <2> QED BY <1>1, <2>6, <2>7 DEF H, O
<1>6. BatchTypes'
  <2>1. degrees' = [k \in PlanIndex |-> degrees'[k]] BY <1>0, <1>2
  <2>2. degrees' \in [PlanIndex -> Nat] BY <1>5, <2>1
  <2> QED BY <1>0, <1>1, <1>3, <2>2 DEF BatchTypes
<1>7. CountsOpen' BY <1>1, <1>5 DEF CountsOpen
<1>8. QueuesFree'
  <2> SUFFICES ASSUME NEW k \in PlanIndex
               PROVE  Holds(Freed(q), k) <=> ~ Scheduled(k)' /\ Open(k)' = {}
    BY <1>0, <1>1 DEF QueuesFree, Holds
  <2>1. Hit(q, k, n) \subseteq Open(k) BY <1>0, <1>2, HitIs
  <2>2. Open(k)' = {} <=> Hit(q, k, n) = Open(k) BY <1>1, <2>1
  <2> QED BY <1>0, <1>1, <1>3, <2>2, FreedAre
<1>9. QueuedOnce'
  <2>1. \A k \in PlanIndex : Holds(Freed(q), k) => ~ Scheduled(k)' BY <1>0, <1>1, <1>8 DEF QueuesFree, Holds
  <2>2. \A k \in PlanIndex : Holds(planQueue, k)' <=> Holds(Freed(q), k) BY <1>0 DEF Holds
  <2>3. Once(planQueue)' BY <1>0, <1>3 DEF Once
  <2> QED BY <1>1, <2>1, <2>2, <2>3 DEF QueuedOnce
<1>10. PlacedOnce'
  <2> SUFFICES ASSUME NEW b \in 1..z + 1, NEW c \in 1..z + 1,
                      NEW i \in DOMAIN batches'[b], NEW m \in DOMAIN batches'[c],
                      batches'[b][i] = batches'[c][m]
               PROVE  b = c /\ i = m
    BY <1>1 DEF PlacedOnce
  <2>1. (b \in 1..z \/ b = z + 1) /\ (c \in 1..z \/ c = z + 1) BY <1>1
  <2>2. \A a \in 1..z : \A p \in DOMAIN batches[a], r \in 1..n : batches[a][p] # q[r]
    <3> SUFFICES ASSUME NEW a \in 1..z, NEW p \in DOMAIN batches[a], NEW r \in 1..n,
                        batches[a][p] = q[r]
                 PROVE  FALSE
      OBVIOUS
    <3>1. Scheduled(q[r]) BY <1>1 DEF Scheduled, InBar
    <3>2. q[r] \in PlanIndex BY <1>2
    <3>3. Holds(q, q[r])
      <4>1. r \in DOMAIN q BY <1>2
      <4> QED BY <4>1 DEF Holds
    <3>4. QueuedOnce BY <1>2
    <3> QED BY <3>1, <3>2, <3>3, <3>4 DEF QueuedOnce
  <2>a. \A a \in 1..z : batches'[a] = batches[a] BY <1>1
  <2>3. CASE b \in 1..z /\ c \in 1..z
    <3>1. /\ i \in DOMAIN batches[b] /\ m \in DOMAIN batches[c]
          /\ batches[b][i] = batches[c][m] /\ b \in DOMAIN batches /\ c \in DOMAIN batches
      BY <1>1, <2>a, <2>3
    <3>2. PlacedOnce BY <1>2
    <3> QED BY <3>1, <3>2 DEF PlacedOnce
  <2>4. CASE b = z + 1 /\ c = z + 1 BY <1>1, <1>2, <2>4 DEF Once
  <2>5. CASE b \in 1..z /\ c = z + 1
    <3>1. i \in DOMAIN batches[b] /\ batches[b][i] = batches'[c][m] BY <2>a, <2>5
    <3>2. m \in 1..n /\ batches[b][i] = q[m]
      <4>1. batches'[c] = q BY <1>1, <2>5
      <4> QED BY <1>2, <3>1, <4>1
    <3> QED BY <2>2, <2>5, <3>1, <3>2
  <2>6. CASE b = z + 1 /\ c \in 1..z
    <3>1. m \in DOMAIN batches[c] /\ batches'[b][i] = batches[c][m] BY <2>a, <2>6
    <3>2. i \in 1..n /\ batches[c][m] = q[i]
      <4>1. batches'[b] = q BY <1>1, <2>6
      <4> QED BY <1>2, <3>1, <4>1
    <3> QED BY <2>2, <2>6, <3>1, <3>2
  <2> QED BY <2>1, <2>3, <2>4, <2>5, <2>6
<1>11. DepsFirst'
  <2> SUFFICES ASSUME NEW k \in PlanIndex, NEW j \in PlanIndex, Uses(j, k) > 0,
                      NEW b \in 1..z + 1, InBar(k, b)'
               PROVE  \E c \in 1..b - 1 : InBar(j, c)'
    BY <1>0, <1>1 DEF DepsFirst, Uses
  <2>1. b \in 1..z \/ b = z + 1 BY <1>1
  <2>2. \A c \in 1..z : InBar(k, c)' <=> InBar(k, c) BY <1>1 DEF InBar
  <2>3. \A c \in 1..z : InBar(j, c)' <=> InBar(j, c) BY <1>1 DEF InBar
  <2>4. CASE b \in 1..z
    <3>1. PICK c \in 1..b - 1 : InBar(j, c) BY <1>1, <1>2, <2>2, <2>4 DEF DepsFirst
    <3>2. c \in 1..z BY <1>1, <2>4
    <3> QED BY <2>3, <3>1, <3>2
  <2>5. CASE b = z + 1
    <3>1. Holds(q, k) BY <1>1, <2>5 DEF Holds, InBar
    <3>2. Open(k) = {} BY <1>2, <3>1 DEF QueuesFree
    <3>3. PICK i \in DOMAIN planItems[k].deps : planItems[k].deps[i] = planItems[j].id
      BY <1>0, UsesIs
    <3>4. PICK x \in PlanIndex : planItems[k].deps[i] = planItems[x].id /\ Scheduled(x)
      BY <3>2, <3>3 DEF Open
    <3>5. x = j BY <1>2, <3>3, <3>4 DEF Valid
    <3>6. PICK c \in 1..z : InBar(j, c) BY <1>1, <3>4, <3>5 DEF Scheduled
    <3>7. c \in 1..b - 1 BY <1>1, <2>5
    <3> QED BY <2>3, <3>6, <3>7
  <2> QED BY <2>1, <2>4, <2>5
<1>12. BarsFilled'
  <2>1. q # <<>> BY <1>0
  <2>2. BarsFilled BY <1>0 DEF BatchInv
  <2>3. \A b \in 1..z + 1 : b \in 1..z \/ b = z + 1 BY <1>1
  <2>4. \A b \in 1..z + 1 : batches'[b] # <<>> BY <1>1, <2>1, <2>2, <2>3 DEF BarsFilled
  <2> QED BY <1>1, <2>4 DEF BarsFilled
<1>13. BatchInv' BY <1>12, <1>4, <1>6, <1>7, <1>8, <1>9, <1>10, <1>11 DEF BatchInv
<1> QED BY <1>0, <1>13 DEF PlanInv

LEMMA BatchStays ==
  ASSUME BatchInv, UNCHANGED <<planItems, degrees, planQueue, batches>>
  PROVE  BatchInv'
<1>1. /\ planItems' = planItems /\ degrees' = degrees
      /\ planQueue' = planQueue /\ batches' = batches
  OBVIOUS
<1>3. PlanIndex' = PlanIndex BY <1>1 DEF PlanIndex
<1>4. \A k : Scheduled(k)' <=> Scheduled(k) BY <1>1 DEF Scheduled, InBar
<1>5. \A k : Open(k)' = Open(k) BY <1>1, <1>3, <1>4 DEF Open
<1>6. Valid' /\ BatchTypes' BY <1>1, <1>3 DEF BatchInv, Valid, BatchTypes
<1>7. QueuedOnce' /\ PlacedOnce'
  BY <1>1, <1>3, <1>4 DEF BatchInv, QueuedOnce, PlacedOnce, Once, Holds
<1>8. CountsOpen' /\ QueuesFree'
  BY <1>1, <1>3, <1>4, <1>5 DEF BatchInv, CountsOpen, QueuesFree, Holds
<1>9. DepsFirst' /\ BarsFilled' BY <1>1, <1>3 DEF BatchInv, DepsFirst, BarsFilled, InBar, Uses
<1> QED BY <1>6, <1>7, <1>8, <1>9 DEF BatchInv

LEMMA PlanStays ==
  ASSUME PlanInv, UNCHANGED <<planItems, planLines, degrees, planQueue, batches>>,
         scoreStage \notin {"reading", "typing"}, Batched,
         scoreStage' \notin {"reading", "typing"}, Batched',
         scoreStage' # "batching" => planQueue = <<>>
  PROVE  PlanInv'
<1>1. /\ planItems' = planItems /\ planLines' = planLines /\ degrees' = degrees
      /\ planQueue' = planQueue /\ batches' = batches
  OBVIOUS
<1>2. BatchInv' BY <1>1, BatchStays DEF PlanInv
<1> QED BY <1>1, <1>2 DEF PlanInv

LEMMA NoPlan ==
  ASSUME planItems' = <<>>, batches' = <<>>, planQueue' = <<>>, degrees' = <<>>
  PROVE  BatchInv'
<1>1. PlanIndex' = {} BY DEF PlanIndex
<1>2. \A k : ~ Holds(planQueue', k) BY DEF Holds
<1>3. Valid' /\ CountsOpen' /\ QueuesFree' /\ DepsFirst'
  BY <1>1 DEF Valid, CountsOpen, QueuesFree, DepsFirst
<1>4. degrees' \in [{} -> Nat]
  <2>1. degrees' = [k \in {} |-> 0] BY SMT
  <2> QED BY <2>1
<1>5. BatchTypes' BY <1>1, <1>4 DEF BatchTypes
<1>6. QueuedOnce' /\ PlacedOnce' /\ BarsFilled' BY <1>1 DEF QueuedOnce, Once, PlacedOnce, BarsFilled
<1> QED BY <1>3, <1>5, <1>6 DEF BatchInv

LEMMA ItemRead ==
  ASSUME planItems \in Seq(Items), NEW id \in Nat, NEW e \in NoteLengths
  PROVE  Append(planItems, [id |-> id, deps |-> <<>>, estimate |-> e]) \in Seq(Items)
<1>1. [id |-> id, deps |-> <<>>, estimate |-> e] \in Items BY DEF Items
<1> QED BY <1>1

LEMMA FieldsSet ==
  ASSUME NEW i \in Items, NEW x \in Seq(Nat), NEW y \in NoteLengths
  PROVE  [[i EXCEPT !.deps = x] EXCEPT !.estimate = y] \in Items
<1> DEFINE m == [i EXCEPT !.deps = x]
<1>1. m \in Items BY DEF Items
<1> HIDE DEF m
<1>2. [m EXCEPT !.estimate = y] \in Items BY <1>1 DEF Items
<1> QED BY <1>2 DEF m

LEMMA AttributeRead ==
  ASSUME planItems \in Seq(Items), planItems # <<>>, NEW deps \in Seq(Nat),
         NEW note \in NoteLengths \cup {0}, ReadAttribute(deps, note)
  PROVE  planItems' \in Seq(Items)
<1> DEFINE n == Len(planItems)
           old == planItems[n]
           new == [[old EXCEPT !.deps = old.deps \o deps]
                       EXCEPT !.estimate = IF note = 0 THEN old.estimate ELSE note]
<1>1. n \in Nat /\ n \in 1..n /\ old \in Items /\ DOMAIN planItems = 1..n
  <2>1. n \in Nat /\ n # 0 OBVIOUS
  <2> QED BY <2>1
<1>2. /\ old.id \in Nat /\ old.deps \in Seq(Nat) /\ old.estimate \in NoteLengths
  BY <1>1 DEF Items
<1>3. old.deps \o deps \in Seq(Nat) BY <1>2
<1> HIDE DEF old
<1>4. new \in Items
  <2>1. (IF note = 0 THEN old.estimate ELSE note) \in NoteLengths BY <1>2
  <2> HIDE DEF Items
  <2> QED BY <1>1, <1>3, <2>1, FieldsSet
<1>5. planItems' = [planItems EXCEPT ![n] = new]
  BY <1>1 DEF ReadAttribute, old
<1> HIDE DEF new
<1>6. \A i \in 1..n : planItems'[i] \in Items
  <2>1. \A i \in 1..n : planItems[i] \in Items BY <1>1
  <2> QED BY <1>1, <1>4, <1>5, <2>1
<1>7. DOMAIN planItems' = 1..n /\ planItems' = [i \in 1..n |-> planItems'[i]] BY <1>1, <1>5
<1>8. planItems' \in [1..n -> Items] BY <1>6, <1>7
<1> HIDE DEF n
<1>9. \E m \in Nat : planItems' \in [1..m -> Items] BY <1>1, <1>8
<1>10. Seq(Items) = UNION {[1..m -> Items] : m \in Nat} BY SeqDef
<1> QED BY <1>9, <1>10, Zenon

LEMMA TypingKeeps ==
  ASSUME PlanInv, UNCHANGED <<planItems, planLines, degrees, planQueue, batches>>,
         scoreStage = "typing" \/ (scoreStage = "reading" /\ planLines = 0),
         scoreStage' \in {"typing", "text"}
  PROVE  PlanInv'
<1>1. /\ planItems = <<>> /\ batches = <<>> /\ degrees = <<>> /\ planQueue = <<>>
      /\ planLines \in Nat
  BY DEF PlanInv
<1>2. BatchInv' BY <1>1, NoPlan
<1>3. planItems' \in Seq(Items) BY <1>1
<1> QED BY <1>1, <1>2, <1>3 DEF PlanInv

LEMMA ReadingKeeps ==
  ASSUME PlanInv, UNCHANGED <<degrees, planQueue, batches, scoreStage>>, scoreStage = "reading",
         planLines' = planLines + 1, planItems' \in Seq(Items)
  PROVE  PlanInv'
<1>1. ~ Batched' BY Zenon DEF Batched
<1>2. /\ batches = <<>> /\ degrees = <<>> /\ planQueue = <<>> /\ planLines \in Nat
      /\ scoreStage' = "reading"
  BY DEF PlanInv
<1>3. planLines' \in Nat /\ planLines' # 0 BY <1>2
<1> QED BY <1>1, <1>2, <1>3 DEF PlanInv

LEMMA PlanInitially ==
  ASSUME ScoreInit
  PROVE  PlanInv
<1>1. ~ Batched BY Zenon DEF Batched, ScoreInit
<1>2. /\ planItems = <<>> /\ planLines = 0 /\ degrees = <<>> /\ planQueue = <<>>
      /\ batches = <<>> /\ scoreStage = "reading"
  BY DEF ScoreInit
<1> QED BY <1>1, <1>2 DEF PlanInv

LEMMA ParseEnds == ParseOutcome(dslText.bars) \in ParseResults
BY Zenon DEF ParseOutcome, ParseResults

LEMMA PlanStep ==
  ASSUME PlanInv, [ScoreNext]_scoreVars
  PROVE  PlanInv'
<1>1. ASSUME NEW id \in Tickets, ReadTicket(id) PROVE PlanInv'
  <2>1. id \in Nat BY ScoreAssumption
  <2>2. Quarter \in NoteLengths BY DEF Quarter, NoteLengths
  <2>3. planItems \in Seq(Items) BY DEF PlanInv
  <2>4. planItems' \in Seq(Items) BY <1>1, <2>1, <2>2, <2>3, ItemRead DEF ReadTicket
  <2> QED BY <1>1, <2>4, ReadingKeeps DEF ReadTicket
<1>2. ASSUME NEW deps \in Seq(Nat), NEW note \in NoteLengths \cup {0}, ReadAttribute(deps, note)
      PROVE  PlanInv'
  <2>1. planItems \in Seq(Items) BY DEF PlanInv
  <2>2. planItems # <<>> BY <1>2 DEF ReadAttribute
  <2>3. planItems' \in Seq(Items) BY <1>2, <2>1, <2>2, AttributeRead
  <2> QED BY <1>2, <2>3, ReadingKeeps DEF ReadAttribute
<1>3. CASE StartBatches BY <1>3, StartKeeps
<1>4. CASE PlaceBatch BY <1>4, PlaceKeeps
<1>5. CASE PlanToPattern
  <2>1. /\ UNCHANGED <<planItems, planLines, degrees, planQueue, batches>>
        /\ scoreStage = "batching" /\ scoreStage' = "pattern" /\ planQueue = <<>>
    BY <1>5 DEF PlanToPattern, planVars
  <2>2. Batched /\ Batched' BY <2>1, Zenon DEF Batched
  <2> QED BY <2>1, <2>2, PlanStays
<1>6. CASE PatternToDsl
  <2>1. /\ UNCHANGED <<planItems, planLines, degrees, planQueue, batches>>
        /\ scoreStage = "pattern" /\ scoreStage' = "text"
    BY <1>6, Zenon DEF PatternToDsl, planVars
  <2>2. Batched /\ Batched' BY <2>1, Zenon DEF Batched
  <2>3. planQueue = <<>> BY <2>1 DEF PlanInv
  <2> QED BY <2>1, <2>2, <2>3, PlanStays
<1>7. ASSUME NEW beats \in HandBars, TypeBar(beats) PROVE PlanInv'
  <2>1. /\ UNCHANGED <<planItems, planLines, degrees, planQueue, batches>>
        /\ scoreStage = "typing" \/ (scoreStage = "reading" /\ planLines = 0)
        /\ scoreStage' = "typing"
    BY <1>7 DEF TypeBar, planVars
  <2> QED BY <2>1, TypingKeeps
<1>8. ASSUME NEW secs \in Seconds, TypeDuration(secs) PROVE PlanInv'
  <2>1. /\ UNCHANGED <<planItems, planLines, degrees, planQueue, batches>>
        /\ scoreStage = "typing" /\ scoreStage' = "text"
    BY <1>8, Zenon DEF TypeDuration, planVars
  <2> QED BY <2>1, TypingKeeps
<1>9. CASE Parse
  <2>1. /\ UNCHANGED <<planItems, planLines, degrees, planQueue, batches>>
        /\ scoreStage = "text" /\ scoreStage' = ParseOutcome(dslText.bars)
    BY <1>9, Zenon DEF Parse, planVars
  <2>2. scoreStage' \in ParseResults BY <2>1, ParseEnds
  <2>3. /\ Batched /\ Batched' /\ scoreStage' # "batching"
        /\ scoreStage' # "reading" /\ scoreStage' # "typing"
    BY <2>1, <2>2, Zenon DEF Batched, ParseResults
  <2>4. planQueue = <<>> BY <2>1 DEF PlanInv
  <2> QED BY <2>1, <2>3, <2>4, PlanStays
<1>10. CASE UNCHANGED scoreVars
  <2>1. UNCHANGED <<planItems, planLines, degrees, planQueue, batches, scoreStage>>
    BY <1>10 DEF scoreVars, planVars
  <2>2. Batched' <=> Batched BY <2>1, Zenon DEF Batched
  <2>3. BatchInv => BatchInv' BY <2>1, BatchStays
  <2> QED BY <2>1, <2>2, <2>3 DEF PlanInv
<1>11. ASSUME NEW d \in Tickets \cup {0} PROVE <<d>> \in Seq(Nat) /\ <<d, d>> \in Seq(Nat)
  <2>1. d \in Nat BY ScoreAssumption
  <2> QED BY <2>1
<1>12. ASSUME NEW n \in PlanNotes PROVE n \in NoteLengths \cup {0} /\ <<>> \in Seq(Nat)
  BY ScoreAssumption
<1> QED BY <1>1, <1>2, <1>3, <1>4, <1>5, <1>6, <1>7, <1>8, <1>9, <1>10, <1>11, <1>12 DEF ScoreNext

LEMMA PlanAlways == ScoreSpec => []PlanInv
<1>1. ScoreInit => PlanInv BY PlanInitially
<1>2. PlanInv /\ [ScoreNext]_scoreVars => PlanInv' BY PlanStep
<1> QED BY <1>1, <1>2, PTL DEF ScoreSpec

\* topo_batches: the bars of a plan hold its items in the order of their dependencies.
THEOREM PlanOrdered == ScoreSpec => []PlanIsOrdered
<1>1. ASSUME PlanInv PROVE PlanIsOrdered
  <2> SUFFICES ASSUME scoreStage \in {"pattern", "text", "done"} PROVE PlanIsOrdered
    BY DEF PlanIsOrdered
  <2>1. Batched BY Zenon DEF Batched
  <2>2. BatchInv /\ planQueue = <<>> /\ planItems \in Seq(Items)
    BY <1>1, <2>1 DEF PlanInv
  <2>3. PlacedOnce /\ DepsFirst /\ QueuesFree BY <2>2 DEF BatchInv
  <2>4. DOMAIN planItems = PlanIndex BY <2>2, ItemIs
  <2>5. ASSUME NEW k \in PlanIndex
        PROVE  Scheduled(k) \/ \E m \in PlanIndex : Uses(m, k) > 0 /\ ~ Scheduled(m)
    <3> SUFFICES ASSUME ~ Scheduled(k) PROVE \E m \in PlanIndex : Uses(m, k) > 0 /\ ~ Scheduled(m)
      OBVIOUS
    <3>1. Open(k) # {} BY <2>2, <2>3 DEF QueuesFree, Holds
    <3>2. PICK i \in DOMAIN planItems[k].deps :
            \A j \in PlanIndex : planItems[k].deps[i] = planItems[j].id => ~ Scheduled(j)
      BY <3>1 DEF Open
    <3>3. PICK j \in PlanIndex : planItems[k].deps[i] = planItems[j].id
      BY <2>2 DEF BatchInv, Valid
    <3> QED BY <2>2, <3>2, <3>3, UsesIs
  <2> QED BY <2>3, <2>4, <2>5 DEF PlanIsOrdered, PlacedOnce, DepsFirst
<1> QED BY <1>1, PlanAlways, PTL

Leaves == [len : NoteLengths, tag : Nat, parts : {<<>>}]

SumsTo(f, beats) ==
  /\ f \in [0..Len(beats) -> Nat] /\ f[0] = 0
  /\ \A k \in 1..Len(beats) : f[k] = f[k - 1] + beats[k].len

LEMMA LeafIs ==
  /\ NoteLengths \subseteq Nat \ {0}
  /\ \A x \in Leaves : x.len \in NoteLengths /\ x.len \in Nat /\ x.len > 0 /\ x.parts = <<>>
  /\ \A len \in NoteLengths, tag \in Nat : Note(len, tag) \in Leaves /\ Note(len, tag).len = len
<1>1. NoteLengths \subseteq Nat \ {0} BY DEF NoteLengths
<1>2. \A x \in Leaves : x.len \in NoteLengths /\ x.parts = <<>> BY DEF Leaves
<1>3. \A len \in NoteLengths, tag \in Nat : Note(len, tag) \in Leaves /\ Note(len, tag).len = len
  <2> TAKE len \in NoteLengths, tag \in Nat
  <2>1. Note(len, tag).len = len BY DEF Note
  <2>2. Note(len, tag) \in Leaves
    <3> HIDE DEF NoteLengths
    <3> QED BY DEF Note, Leaves
  <2> QED BY <2>1, <2>2
<1>4. \A x \in Leaves : x.len \in Nat /\ x.len > 0
  <2>1. \A n \in NoteLengths : n \in Nat /\ n > 0 BY DEF NoteLengths
  <2> QED BY <1>2, <2>1
<1> QED BY <1>1, <1>2, <1>3, <1>4

LEMMA LengthSums ==
  ASSUME NEW s \in Seq(Leaves)
  PROVE  \E f : SumsTo(f, s) /\ BeatsLength(s) = f[Len(s)]
<1>1. Len(s) \in Nat /\ \A k \in 1..Len(s) : s[k] \in Leaves OBVIOUS
<1>2. \A k \in 1..Len(s) : s[k].len \in Nat BY <1>1, LeafIs
<1> QED BY <1>1, <1>2, SumIs DEF SumsTo

LEMMA SumSplits ==
  ASSUME NEW s \in Seq(Leaves), NEW t \in Seq(Leaves), NEW f, NEW h, NEW g,
         SumsTo(f, s), SumsTo(h, t), SumsTo(g, s \o t)
  PROVE  g[Len(s \o t)] = f[Len(s)] + h[Len(t)]
<1> DEFINE n == Len(s)
           m == Len(t)
           u == s \o t
<1>1. /\ n \in Nat /\ m \in Nat /\ Len(u) = n + m
      /\ \A k \in 1..n : u[k] = s[k]
      /\ \A k \in 1..m : u[n + k] = t[k]
  OBVIOUS
<1>2. /\ f \in [0..n -> Nat] /\ f[0] = 0 /\ \A k \in 1..n : f[k] = f[k - 1] + s[k].len
      /\ h \in [0..m -> Nat] /\ h[0] = 0 /\ \A k \in 1..m : h[k] = h[k - 1] + t[k].len
      /\ g \in [0..n + m -> Nat] /\ g[0] = 0
      /\ \A k \in 1..n + m : g[k] = g[k - 1] + u[k].len
  BY <1>1 DEF SumsTo
<1>3. \A k \in 1..n : s[k] \in Leaves OBVIOUS
<1>4. \A k \in 1..m : t[k] \in Leaves OBVIOUS
<1>5. (\A k \in 1..n : s[k].len \in Nat) /\ (\A k \in 1..m : t[k].len \in Nat)
  BY <1>3, <1>4, LeafIs
<1> HIDE DEF n, m, u
<1> DEFINE Off == {k \in Nat : k <= n /\ g[k] # f[k]}
<1>6. Off = {}
  <2> SUFFICES ASSUME Off # {} PROVE FALSE OBVIOUS
  <2>1. PICK k \in Off : \A j \in Off : ~ (j < k) BY LeastOf
  <2>2. k \in Nat /\ k <= n /\ k # 0 /\ g[k] # f[k] BY <1>2, <2>1
  <2>3. k \in 1..n /\ k \in 1..n + m /\ k - 1 \in Nat /\ k - 1 < k /\ k - 1 <= n BY <1>1, <2>2
  <2>4. g[k - 1] = f[k - 1] BY <2>1, <2>3
  <2>5. g[k] = g[k - 1] + u[k].len /\ f[k] = f[k - 1] + s[k].len BY <1>2, <2>3
  <2>6. u[k] = s[k] BY <1>1, <2>3
  <2> QED BY <2>2, <2>4, <2>5, <2>6
<1>7. g[n] = f[n] BY <1>1, <1>6
<1> DEFINE Bad == {k \in Nat : k <= m /\ g[n + k] # f[n] + h[k]}
<1>8. Bad = {}
  <2> SUFFICES ASSUME Bad # {} PROVE FALSE OBVIOUS
  <2>1. PICK k \in Bad : \A j \in Bad : ~ (j < k) BY LeastOf
  <2>2. k \in Nat /\ k <= m /\ g[n + k] # f[n] + h[k] BY <2>1
  <2>a. f[n] \in Nat BY <1>1, <1>2
  <2>b. n + 0 = n /\ f[n] + 0 = f[n] BY <1>1, <2>a
  <2>3. k # 0 BY <1>2, <1>7, <2>2, <2>b
  <2>4. k \in 1..m /\ n + k \in 1..n + m /\ k - 1 \in Nat /\ k - 1 < k /\ k - 1 <= m
    BY <1>1, <2>2, <2>3
  <2>5. g[n + (k - 1)] = f[n] + h[k - 1] BY <2>1, <2>4
  <2>c. n + (k - 1) = (n + k) - 1 BY <1>1, <2>4
  <2>6. g[n + k] = g[(n + k) - 1] + u[n + k].len /\ h[k] = h[k - 1] + t[k].len BY <1>2, <2>4
  <2>7. u[n + k] = t[k] /\ t[k].len \in Nat BY <1>1, <1>5, <2>4
  <2>8. h[k - 1] \in Nat
    <3>1. k - 1 \in 0..m BY <1>1, <2>4
    <3> QED BY <1>2, <3>1
  <2>9. g[n + k] = (f[n] + h[k - 1]) + t[k].len BY <2>5, <2>c, <2>6, <2>7
  <2> QED BY <2>2, <2>6, <2>7, <2>8, <2>9, <2>a
<1>9. g[n + m] = f[n] + h[m] BY <1>1, <1>8
<1> QED BY <1>1, <1>9 DEF n, m, u

LEMMA LengthOfConcat ==
  ASSUME NEW s \in Seq(Leaves), NEW t \in Seq(Leaves)
  PROVE  /\ BeatsLength(s) \in Nat
         /\ BeatsLength(s \o t) = BeatsLength(s) + BeatsLength(t)
<1>1. PICK f : SumsTo(f, s) /\ BeatsLength(s) = f[Len(s)] BY LengthSums
<1>2. PICK h : SumsTo(h, t) /\ BeatsLength(t) = h[Len(t)] BY LengthSums
<1>3. s \o t \in Seq(Leaves) OBVIOUS
<1>4. PICK g : SumsTo(g, s \o t) /\ BeatsLength(s \o t) = g[Len(s \o t)] BY <1>3, LengthSums
<1>5. f[Len(s)] \in Nat
  <2>1. Len(s) \in Nat OBVIOUS
  <2>2. f \in [0..Len(s) -> Nat] BY <1>1 DEF SumsTo
  <2> QED BY <2>1, <2>2
<1>6. g[Len(s \o t)] = f[Len(s)] + h[Len(t)] BY <1>1, <1>2, <1>4, SumSplits
<1> QED BY <1>1, <1>2, <1>4, <1>5, <1>6

LEMMA LengthOfOne ==
  ASSUME NEW x \in Leaves
  PROVE  BeatsLength(<<>>) = 0 /\ BeatsLength(<<x>>) = x.len
<1>1. <<>> \in Seq(Leaves) /\ <<x>> \in Seq(Leaves) /\ Len(<<>>) = 0 /\ Len(<<x>>) = 1 /\ <<x>>[1] = x
  OBVIOUS
<1>2. PICK f : SumsTo(f, <<>>) /\ BeatsLength(<<>>) = f[Len(<<>>)] BY <1>1, LengthSums
<1>3. PICK h : SumsTo(h, <<x>>) /\ BeatsLength(<<x>>) = h[Len(<<x>>)] BY <1>1, LengthSums
<1>4. BeatsLength(<<>>) = 0 BY <1>1, <1>2 DEF SumsTo
<1>5. BeatsLength(<<x>>) = h[1] /\ h[0] = 0 /\ h[1] = h[0] + x.len BY <1>1, <1>3 DEF SumsTo
<1>6. x.len \in Nat BY LeafIs
<1> QED BY <1>4, <1>5, <1>6

LEMMA FittingIs ==
  ASSUME NEW room \in Nat, room > 0
  PROVE  LargestFitting(room) \in NoteLengths /\ LargestFitting(room) \in 1..room
<1>1. \E n \in NoteLengths : n <= room /\ \A m \in NoteLengths : m <= room => m <= n
  <2>1. CASE room >= 64 BY <2>1 DEF NoteLengths
  <2>2. CASE room >= 32 /\ room < 64 BY <2>2 DEF NoteLengths
  <2>3. CASE room >= 16 /\ room < 32 BY <2>3 DEF NoteLengths
  <2>4. CASE room >= 8 /\ room < 16 BY <2>4 DEF NoteLengths
  <2>5. CASE room >= 4 /\ room < 8 BY <2>5 DEF NoteLengths
  <2>6. CASE room >= 2 /\ room < 4 BY <2>6 DEF NoteLengths
  <2>7. CASE room = 1 BY <2>7 DEF NoteLengths
  <2>8. room = 1 \/ (room >= 2 /\ room < 4) \/ (room >= 4 /\ room < 8) \/ (room >= 8 /\ room < 16)
        \/ (room >= 16 /\ room < 32) \/ (room >= 32 /\ room < 64) \/ room >= 64
    OBVIOUS
  <2> QED BY <2>1, <2>2, <2>3, <2>4, <2>5, <2>6, <2>7, <2>8
<1>2. LargestFitting(room) \in NoteLengths /\ LargestFitting(room) <= room
  BY <1>1, Zenon DEF LargestFitting
<1>3. \A n \in NoteLengths : n \in Nat /\ n > 0 BY LeafIs
<1> QED BY <1>2, <1>3

\* The rests of a bar take its room, whatever it is.
LEMMA RestsIs ==
  ASSUME NEW room \in Nat
  PROVE  Rests(room) \in Seq(Leaves) /\ BeatsLength(Rests(room)) = room
<1> DEFINE V == {x \in (0..room) \X Seq(Leaves) : BeatsLength(x[2]) + x[1] = room}
           Turn(last) == IF last[1] = 0 THEN last
                         ELSE <<last[1] - LargestFitting(last[1]),
                                Append(last[2], Note(LargestFitting(last[1]), RestTag))>>
           F(f) == [i \in 0..room |->
                     IF i = 0 THEN <<room, <<>>>>
                     ELSE LET last == f[i - 1]
                              n == LargestFitting(last[1])
                          IN  IF last[1] = 0 THEN last
                              ELSE <<last[1] - n, Append(last[2], Note(n, RestTag))>>]
           f == CHOOSE f : f = F(f)
           step == [x \in (1..room) \X V |-> Turn(x[2])]
           first == <<room, <<>>>>
<1>1. Rests(room) = f[room][2] BY DEF Rests
<1>2. RestTag \in Nat BY DEF RestTag
<1>3. first \in V
  <2>1. <<>> \in Seq(Leaves) OBVIOUS
  <2>2. BeatsLength(<<>>) = 0
    <3>1. Note(1, 0) \in Leaves BY LeafIs DEF NoteLengths
    <3> QED BY <3>1, LengthOfOne
  <2>3. room \in 0..room /\ 0 + room = room OBVIOUS
  <2> QED BY <2>1, <2>2, <2>3
<1>4. ASSUME NEW x \in V
      PROVE  /\ Turn(x) \in V
             /\ x[1] > 0 => Turn(x)[1] < x[1]
             /\ x[1] = 0 => Turn(x) = x
  <2>1. x[1] \in 0..room /\ x[2] \in Seq(Leaves) /\ BeatsLength(x[2]) + x[1] = room OBVIOUS
  <2>2. CASE x[1] = 0 BY <2>1, <2>2
  <2>3. CASE x[1] > 0
    <3> DEFINE n == LargestFitting(x[1])
               y == Note(n, RestTag)
               s == x[2]
               l == x[1]
    <3> HIDE DEF V
    <3>1. n \in NoteLengths /\ n \in 1..l /\ l \in Nat BY <2>1, <2>3, FittingIs
    <3> HIDE DEF n
    <3>2. y \in Leaves /\ y.len = n BY <1>2, <3>1, LeafIs
    <3> HIDE DEF y
    <3>3. Turn(x) = <<l - n, Append(s, y)>> BY <2>3 DEF n, y
    <3>4. Append(s, y) = s \o <<y>> /\ Append(s, y) \in Seq(Leaves) /\ <<y>> \in Seq(Leaves)
      BY <2>1, <3>2
    <3> HIDE DEF s, l
    <3>5. BeatsLength(Append(s, y)) = BeatsLength(s) + n /\ BeatsLength(s) \in Nat
      BY <2>1, <3>2, <3>4, LengthOfConcat, LengthOfOne DEF s
    <3>6. l - n \in 0..room /\ l - n < l /\ BeatsLength(Append(s, y)) + (l - n) = room
      BY <2>1, <3>1, <3>5 DEF s, l
    <3> HIDE DEF Turn
    <3>7. Turn(x)[1] = l - n /\ Turn(x)[2] = Append(s, y) BY <3>3
    <3>8. Turn(x) \in (0..room) \X Seq(Leaves) BY <3>3, <3>4, <3>6
    <3>9. BeatsLength(Turn(x)[2]) + Turn(x)[1] = room BY <3>6, <3>7
    <3>10. Turn(x) \in V BY <3>8, <3>9 DEF V
    <3>11. Turn(x)[1] < x[1] BY <3>6, <3>7 DEF l
    <3> QED BY <2>3, <3>10, <3>11
  <2>4. x[1] = 0 \/ x[1] > 0 BY <2>1
  <2> QED BY <2>2, <2>3, <2>4
<1> HIDE DEF V, Turn, first
<1>5. step \in [(1..room) \X V -> V] BY <1>4
<1> HIDE DEF step
<1>6. PICK g : g \in Runs(room, V, first, step, room) BY <1>3, <1>5, LoopIs, Zenon
<1>7. /\ g \in [0..room -> V] /\ g[0] = first
      /\ \A i \in 1..room : g[i] = step[<<i, g[i - 1]>>]
  BY <1>6 DEF Runs
<1>8. \A i \in 1..room : i - 1 \in 0..room OBVIOUS
<1>9. \A i \in 1..room : g[i] = Turn(g[i - 1])
  <2> TAKE i \in 1..room
  <2>1. g[i - 1] \in V BY <1>7, <1>8
  <2>2. <<i, g[i - 1]>> \in (1..room) \X V BY <2>1
  <2> QED BY <1>7, <2>2 DEF step
<1>10. g = F(g)
  <2>1. ASSUME NEW i \in 0..room PROVE g[i] = F(g)[i]
    <3>1. CASE i = 0 BY <1>7, <3>1 DEF first
    <3>2. CASE i # 0
      <4>1. i \in 1..room BY <3>2
      <4> QED BY <1>9, <3>2, <4>1 DEF Turn
    <3> QED BY <3>1, <3>2
  <2>2. g = [i \in 0..room |-> g[i]] BY <1>7
  <2>3. F(g) = [i \in 0..room |-> F(g)[i]] OBVIOUS
  <2> HIDE DEF F
  <2> QED BY <2>1, <2>2, <2>3
<1>11. f = F(f) BY <1>10, Zenon
<1> HIDE DEF f
<1>12. f[0] = first BY <1>11 DEF first
<1>13. \A i \in 1..room : f[i] = Turn(f[i - 1])
  <2> TAKE i \in 1..room
  <2>1. i \in 0..room /\ i # 0 OBVIOUS
  <2> QED BY <1>11, <2>1 DEF Turn
<1>14. f = [i \in 0..room |-> f[i]] BY <1>11
<1> HIDE DEF F
<1>15. f \in [0..room -> V]
  <2>1. f[0] \in V BY <1>3, <1>12
  <2>2. \A i \in 1..room : f[i - 1] \in V => f[i] \in V BY <1>4, <1>13
  <2> QED BY <1>14, <2>1, <2>2, LoopTyped, Zenon
<1> DEFINE Off == {i \in Nat : i <= room /\ f[i][1] > room - i}
<1>16. Off = {}
  <2> SUFFICES ASSUME Off # {} PROVE FALSE OBVIOUS
  <2>1. PICK i \in Off : \A j \in Off : ~ (j < i) BY LeastOf
  <2>2. i \in Nat /\ i <= room /\ f[i][1] > room - i BY <2>1
  <2>3. f[0][1] = room BY <1>12 DEF first
  <2>4. i # 0 BY <2>2, <2>3
  <2>5. i \in 1..room /\ i - 1 \in Nat /\ i - 1 < i /\ i - 1 <= room /\ i - 1 \in 0..room /\ i \in 0..room
    BY <2>2, <2>4
  <2>6. ~ (f[i - 1][1] > room - (i - 1)) BY <2>1, <2>5
  <2>7. f[i] = Turn(f[i - 1]) /\ f[i - 1] \in V /\ f[i] \in V BY <1>13, <1>15, <2>5
  <2>8. f[i][1] \in Nat /\ f[i - 1][1] \in Nat BY <2>7 DEF V
  <2>9. CASE f[i - 1][1] = 0
    <3>1. f[i][1] = 0 BY <1>4, <2>7, <2>9
    <3> QED BY <2>2, <3>1
  <2>10. CASE f[i - 1][1] > 0
    <3>1. f[i][1] < f[i - 1][1] BY <1>4, <2>7, <2>10
    <3> QED BY <2>2, <2>6, <2>8, <3>1
  <2> QED BY <2>8, <2>9, <2>10
<1>17. f[room][1] = 0 /\ f[room] \in V
  <2>1. room \in 0..room OBVIOUS
  <2>2. f[room] \in V BY <1>15, <2>1
  <2>3. f[room][1] \in Nat BY <2>2 DEF V
  <2>4. ~ (f[room][1] > room - room) BY <1>16
  <2> QED BY <2>2, <2>3, <2>4
<1>18. f[room][2] \in Seq(Leaves) /\ BeatsLength(f[room][2]) + 0 = room BY <1>17 DEF V
<1>19. BeatsLength(f[room][2]) \in Nat BY <1>18, LengthOfConcat
<1> QED BY <1>1, <1>18, <1>19

LEMMA DivOf == \A m \in Nat \ {0} : (7200 * m) \div m = 7200
<1> TAKE m \in Nat \ {0}
<1> DEFINE d == (7200 * m) \div m
           r == (7200 * m) % m
<1>1. d \in Int /\ r \in Int /\ 7200 * m = m * d + r /\ 0 <= r /\ r < m OBVIOUS
<1> HIDE DEF d, r
<1>2. d > 7200 => m * d >= m * 7201 BY <1>1
<1>3. d < 7200 => m * d <= m * 7199 BY <1>1
<1>4. d = 7200 BY <1>1, <1>2, <1>3
<1> QED BY <1>4 DEF d

\* A line of beats without brackets is read, and is valid.
LEMMA LeavesParse ==
  ASSUME NEW beats \in Seq(Leaves)
  PROVE  LineParses(beats) /\ LineValid(beats)
<1> DEFINE B == ToSet(beats)
           V == SUBSET B
           F(f) == [d \in 0..MaxNesting |->
                     IF d = 0 THEN ToSet(beats) ELSE UNION {ToSet(b.parts) : b \in f[d - 1]}]
           f == CHOOSE f : f = F(f)
           step == [x \in (1..MaxNesting) \X V |-> UNION {ToSet(b.parts) : b \in x[2]}]
<1>1. Levels(beats) = f BY DEF Levels
<1>2. MaxNesting \in Nat BY ScoreAssumption
<1>3. \A b \in B : b \in Leaves
  <2>1. \A i \in DOMAIN beats : beats[i] \in Leaves OBVIOUS
  <2> QED BY <2>1 DEF ToSet
<1>4. ToSet(<<>>) = {} BY DEF ToSet
<1> HIDE DEF B
<1>5. \A b \in B : b.parts = <<>> BY <1>3, LeafIs
<1>6. \A X \in V : UNION {ToSet(b.parts) : b \in X} = {} BY <1>4, <1>5
<1>7. step \in [(1..MaxNesting) \X V -> V] BY <1>6
<1>8. B \in V OBVIOUS
<1> HIDE DEF step, V
<1>9. PICK g : g \in Runs(MaxNesting, V, B, step, MaxNesting)
  BY <1>2, <1>7, <1>8, LoopIs, Zenon
<1>10. /\ g \in [0..MaxNesting -> V] /\ g[0] = B
       /\ \A i \in 1..MaxNesting : g[i] = step[<<i, g[i - 1]>>]
  BY <1>9 DEF Runs
<1>11. \A i \in 0..MaxNesting : i # 0 => i \in 1..MaxNesting /\ i - 1 \in 0..MaxNesting
  BY <1>2
<1>12. g = F(g)
  <2>1. ASSUME NEW i \in 0..MaxNesting PROVE g[i] = F(g)[i]
    <3>1. CASE i = 0 BY <1>10, <3>1 DEF B
    <3>2. CASE i # 0
      <4>1. i \in 1..MaxNesting /\ g[i - 1] \in V BY <1>10, <1>11, <3>2
      <4>2. <<i, g[i - 1]>> \in (1..MaxNesting) \X V BY <4>1
      <4>3. step[<<i, g[i - 1]>>] = UNION {ToSet(b.parts) : b \in g[i - 1]}
        BY <4>2 DEF step
      <4> QED BY <1>10, <3>2, <4>1, <4>3
    <3> QED BY <3>1, <3>2
  <2>2. g = [i \in 0..MaxNesting |-> g[i]] BY <1>10
  <2>3. F(g) = [i \in 0..MaxNesting |-> F(g)[i]] OBVIOUS
  <2> HIDE DEF F
  <2> QED BY <2>1, <2>2, <2>3
<1>13. f = F(f) BY <1>12, Zenon
<1> HIDE DEF f
<1>14. f[0] = B BY <1>2, <1>13 DEF B
<1>15. \A i \in 1..MaxNesting : f[i] = UNION {ToSet(b.parts) : b \in f[i - 1]}
  <2>1. \A i \in 1..MaxNesting : i \in 0..MaxNesting /\ i # 0 BY <1>2
  <2> QED BY <1>13, <2>1
<1>16. f = [i \in 0..MaxNesting |-> f[i]] BY <1>13
<1>17. \A i \in 1..MaxNesting : f[i - 1] \in V => f[i] \in V BY <1>6, <1>15 DEF V
<1>18. f[0] \in V BY <1>8, <1>14
<1> HIDE DEF F
<1>19. f \in [0..MaxNesting -> V] BY <1>2, <1>16, <1>17, <1>18, LoopTyped, Zenon
<1>20. Nested(beats) \subseteq B
  <2>1. \A d \in 0..MaxNesting : Levels(beats)[d] \subseteq B BY <1>1, <1>19 DEF V
  <2> QED BY <2>1 DEF Nested
<1>21. \A b \in Nested(beats) : b \in Leaves BY <1>3, <1>20
<1> QED BY <1>21, LeafIs DEF LineParses, LineValid, BeatParses, BeatValid

\* A sequence of numbers has a greatest one.
LEMMA GreatestOf ==
  ASSUME NEW z \in Nat, z # 0, NEW f \in [1..z -> Nat]
  PROVE  \E i \in 1..z : \A j \in 1..z : f[j] <= f[i]
<1> DEFINE Off == {m \in Nat : m \in 1..z /\ ~ \E i \in 1..m : \A j \in 1..m : f[j] <= f[i]}
<1>1. Off = {}
  <2> SUFFICES ASSUME Off # {} PROVE FALSE OBVIOUS
  <2>1. PICK m \in Off : \A j \in Off : ~ (j < m) BY LeastOf
  <2>2. m \in Nat /\ m \in 1..z /\ ~ \E i \in 1..m : \A j \in 1..m : f[j] <= f[i] BY <2>1
  <2>3. CASE m = 1
    <3>1. f[1] \in Nat BY <2>2, <2>3
    <3>2. \A j \in 1..1 : j = 1 OBVIOUS
    <3> QED BY <2>2, <2>3, <3>1, <3>2
  <2>4. CASE m > 1
    <3>1. m - 1 \in Nat /\ m - 1 \in 1..z /\ m - 1 < m BY <2>2, <2>4
    <3>2. m - 1 \notin Off BY <2>1, <3>1
    <3>3. PICK i \in 1..m - 1 : \A j \in 1..m - 1 : f[j] <= f[i] BY <3>1, <3>2
    <3>4. \A j \in 1..m : j \in 1..m - 1 \/ j = m BY <2>2
    <3>5. i \in 1..m /\ m \in 1..m /\ i \in 1..z BY <2>2, <3>1, <3>3
    <3>6. f[m] \in Nat /\ f[i] \in Nat /\ \A j \in 1..m - 1 : f[j] \in Nat BY <2>2, <3>1, <3>5
    <3>7. CASE f[m] <= f[i] BY <2>2, <3>3, <3>4, <3>5, <3>7
    <3>8. CASE f[i] <= f[m]
      <4>1. \A j \in 1..m - 1 : f[j] <= f[m] BY <3>3, <3>6, <3>8
      <4>2. \A j \in 1..m : f[j] <= f[m] BY <3>4, <3>6, <4>1
      <4> QED BY <2>2, <3>5, <4>2
    <3> QED BY <3>6, <3>7, <3>8
  <2> QED BY <2>2, <2>3, <2>4
<1>2. z \in 1..z OBVIOUS
<1> QED BY <1>1, <1>2

\* The beats of a batch, and their length.
LEMMA BeatsOf ==
  ASSUME planItems \in Seq(Items), NEW batch \in Seq(PlanIndex)
  PROVE  /\ ItemBeats(batch) \in Seq(Leaves) /\ BeatsLength(ItemBeats(batch)) \in Nat
         /\ batch # <<>> => BeatsLength(ItemBeats(batch)) > 0
<1> DEFINE n == Len(batch)
           s == ItemBeats(batch)
<1>1. n \in Nat /\ DOMAIN batch = 1..n /\ \A i \in 1..n : batch[i] \in PlanIndex OBVIOUS
<1>2. \A k \in PlanIndex : Note(planItems[k].estimate, planItems[k].id) \in Leaves
  BY ItemIs, LeafIs
<1>3. s = [i \in 1..n |-> Note(planItems[batch[i]].estimate, planItems[batch[i]].id)]
  BY <1>1 DEF ItemBeats
<1>4. \A i \in 1..n : Note(planItems[batch[i]].estimate, planItems[batch[i]].id) \in Leaves
  BY <1>1, <1>2
<1>5. s \in [1..n -> Leaves] BY <1>3, <1>4
<1> HIDE DEF s
<1>6. s \in Seq(Leaves)
  <2>1. \E m \in Nat : s \in [1..m -> Leaves] BY <1>1, <1>5
  <2>2. Seq(Leaves) = UNION {[1..m -> Leaves] : m \in Nat} BY SeqDef
  <2> QED BY <2>1, <2>2, Zenon
<1>7. Len(s) = n BY <1>1, <1>5, <1>6
<1>8. BeatsLength(s) \in Nat BY <1>6, LengthOfConcat
<1>9. ASSUME batch # <<>> PROVE BeatsLength(s) > 0
  <2>1. n # 0 BY <1>9
  <2>2. PICK f : SumsTo(f, s) /\ BeatsLength(s) = f[Len(s)] BY <1>6, LengthSums
  <2>3. n \in 1..n /\ n - 1 \in 0..n BY <1>1, <2>1
  <2>4. f[n] = f[n - 1] + s[n].len /\ f[n - 1] \in Nat BY <1>7, <2>2, <2>3 DEF SumsTo
  <2>5. s[n] \in Leaves BY <1>5, <2>3
  <2>6. s[n].len \in Nat /\ s[n].len > 0 BY <2>5, LeafIs
  <2> QED BY <1>7, <2>2, <2>4, <2>6
<1> QED BY <1>6, <1>8, <1>9 DEF s

LEMMA LongestIs ==
  ASSUME planItems \in Seq(Items), batches \in Seq(Seq(PlanIndex)), BarsFilled, batches # <<>>
  PROVE  /\ LongestBatch \in Nat /\ LongestBatch > 0
         /\ \A b \in DOMAIN batches : BeatsLength(ItemBeats(batches[b])) <= LongestBatch
<1> DEFINE z == Len(batches)
           f == [b \in 1..z |-> BeatsLength(ItemBeats(batches[b]))]
           L == {BeatsLength(ItemBeats(batches[b])) : b \in DOMAIN batches}
<1>1. z \in Nat /\ z # 0 /\ DOMAIN batches = 1..z OBVIOUS
<1>2. \A b \in 1..z : batches[b] \in Seq(PlanIndex) OBVIOUS
<1>3. \A b \in 1..z : /\ BeatsLength(ItemBeats(batches[b])) \in Nat
                      /\ BeatsLength(ItemBeats(batches[b])) > 0
  BY <1>1, <1>2, BeatsOf DEF BarsFilled
<1>4. f \in [1..z -> Nat] BY <1>3
<1>5. L = {f[b] : b \in 1..z} BY <1>1
<1>6. LongestBatch = CHOOSE n \in L : \A m \in L : m <= n BY DEF LongestBatch
<1>7. \A n \in L : n \in Nat /\ n > 0 BY <1>1, <1>3
<1> HIDE DEF f, L, z
<1>8. PICK i \in 1..z : \A j \in 1..z : f[j] <= f[i] BY <1>1, <1>4, GreatestOf
<1>9. \E n \in L : \A m \in L : m <= n BY <1>5, <1>8
<1>10. LongestBatch \in L /\ \A m \in L : m <= LongestBatch BY <1>6, <1>9, Zenon
<1> QED BY <1>7, <1>10 DEF L

LEMMA BarIs ==
  ASSUME planItems \in Seq(Items), batches \in Seq(Seq(PlanIndex)), BarsFilled,
         NEW b \in DOMAIN batches
  PROVE  BarOf(batches[b]) \in Seq(Leaves) /\ BeatsLength(BarOf(batches[b])) = LongestBatch
<1> DEFINE s == ItemBeats(batches[b])
           room == LongestBatch - BeatsLength(s)
<1>1. batches # <<>> /\ batches[b] \in Seq(PlanIndex) OBVIOUS
<1>2. s \in Seq(Leaves) /\ BeatsLength(s) \in Nat BY <1>1, BeatsOf
<1>3. LongestBatch \in Nat /\ BeatsLength(s) <= LongestBatch BY <1>1, LongestIs
<1>4. BarOf(batches[b]) = s \o Rests(room) BY DEF BarOf
<1> HIDE DEF s
<1>5. room \in Nat /\ BeatsLength(s) + room = LongestBatch BY <1>2, <1>3
<1> HIDE DEF room
<1>6. Rests(room) \in Seq(Leaves) /\ BeatsLength(Rests(room)) = room BY <1>5, RestsIs
<1>7. s \o Rests(room) \in Seq(Leaves) BY <1>2, <1>6
<1> QED BY <1>2, <1>4, <1>5, <1>6, <1>7, LengthOfConcat

-----------------------------------------------------------------------------
(* What each stage has written.                                            *)

Patterned == scoreStage \in {"pattern", "text"} \cup ParseResults
Texted == scoreStage \in {"text"} \cup ParseResults
Ended == scoreStage \in ParseResults

PatternIs ==
  pattern = IF batches = <<>> THEN None64 ELSE
    [beatsPerBar |-> (LongestBatch + Quarter - 1) \div Quarter, quarter |-> DefaultTempo,
     bars |-> [b \in DOMAIN batches |-> BarOf(batches[b])]]
TextIs ==
  dslText = [seconds |-> (((pattern.quarter * pattern.beatsPerBar * Quarter) \div Quarter) \div 60) * 60,
             bars |-> pattern.bars]
ParsedIs ==
  LET first == IF dslText.bars = <<>> THEN 64 ELSE BeatsLength(dslText.bars[1])
  IN  /\ scoreStage = ParseOutcome(dslText.bars)
      /\ scoreStage = "done" =>
           parsed = [beatsPerBar |-> first \div Quarter,
                     quarter |-> (dslText.seconds * Quarter) \div first,
                     bars |-> dslText.bars]

TextInv ==
  planItems # <<>> =>
    (Patterned => PatternIs) /\ (Texted => TextIs) /\ (Ended => ParsedIs)

\* parse accepts bars of one length, a whole number of quarters.
LEMMA OutcomeIs ==
  ASSUME NEW bars, NEW z \in Nat, z # 0, DOMAIN bars = 1..z, NEW L \in Nat, L > 0,
         \A b \in 1..z : bars[b] \in Seq(Leaves) /\ BeatsLength(bars[b]) = L
  PROVE  ParseOutcome(bars) = IF L % Quarter = 0 THEN "done" ELSE "bar mismatch"
<1>1. {b \in DOMAIN bars : ~ (LineParses(bars[b]) /\ LineValid(bars[b]))} = {} BY LeavesParse
<1>2. bars # <<>>
  <2>1. 1 \in DOMAIN bars OBVIOUS
  <2> QED BY <2>1
<1>3. BeatsLength(bars[1]) = L OBVIOUS
<1>4. ~ \E b \in DOMAIN bars : BeatsLength(bars[b]) # L OBVIOUS
<1>5. L # 0 OBVIOUS
<1>6. (L \div Quarter) * Quarter = L <=> L % Quarter = 0 BY DEF Quarter
<1> QED BY <1>1, <1>2, <1>3, <1>4, <1>5, <1>6, Zenon DEF ParseOutcome

LEMMA TripIs ==
  ASSUME planItems \in Seq(Items), batches \in Seq(Seq(PlanIndex)), BarsFilled,
         PatternIs, TextIs, ParsedIs
  PROVE  IF batches = <<>> \/ LongestBatch % Quarter = 0
         THEN scoreStage = "done" /\ parsed = pattern
         ELSE scoreStage = "bar mismatch"
<1>1. CASE batches = <<>>
  <2>1. pattern = [beatsPerBar |-> 4, quarter |-> 7200, bars |-> <<>>]
    BY <1>1 DEF PatternIs, None64, DefaultTempo
  <2>2. pattern.bars = <<>> /\ pattern.beatsPerBar = 4 /\ pattern.quarter = 7200 BY <2>1
  <2>3. dslText = [seconds |-> 28800, bars |-> <<>>] BY <2>2 DEF TextIs, Quarter
  <2>4. dslText.bars = <<>> /\ dslText.seconds = 28800 BY <2>3
  <2>5. ParseOutcome(<<>>) = "done"
    <3>1. {b \in DOMAIN <<>> : ~ (LineParses(<<>>[b]) /\ LineValid(<<>>[b]))} = {} OBVIOUS
    <3> QED BY <3>1, Zenon DEF ParseOutcome
  <2>6. scoreStage = "done" BY <2>4, <2>5 DEF ParsedIs
  <2>7. parsed = [beatsPerBar |-> 64 \div Quarter, quarter |-> (28800 * Quarter) \div 64, bars |-> <<>>]
    BY <2>4, <2>6 DEF ParsedIs
  <2>8. 64 \div Quarter = 4 /\ (28800 * Quarter) \div 64 = 7200 BY DEF Quarter
  <2> QED BY <1>1, <2>1, <2>6, <2>7, <2>8
<1>2. CASE batches # <<>>
  <2> DEFINE L == LongestBatch
             z == Len(batches)
             bars == [b \in DOMAIN batches |-> BarOf(batches[b])]
             bpb == (L + Quarter - 1) \div Quarter
  <2>1. z \in Nat /\ z # 0 /\ DOMAIN batches = 1..z BY <1>2
  <2>2. L \in Nat /\ L > 0 BY <1>2, LongestIs
  <2>3. DOMAIN bars = 1..z BY <2>1
  <2>4. \A b \in 1..z : bars[b] \in Seq(Leaves) /\ BeatsLength(bars[b]) = L BY <2>1, BarIs
  <2>5. pattern = [beatsPerBar |-> bpb, quarter |-> 7200, bars |-> bars]
    BY <1>2 DEF PatternIs, DefaultTempo
  <2> HIDE DEF bars, L, z
  <2>6. ParseOutcome(bars) = IF L % Quarter = 0 THEN "done" ELSE "bar mismatch"
    BY <2>1, <2>2, <2>3, <2>4, OutcomeIs
  <2>7. bpb \in Nat BY <2>2 DEF Quarter
  <2>8. L % Quarter = 0 => L = Quarter * bpb /\ bpb = L \div Quarter BY <2>2 DEF Quarter
  <2> HIDE DEF bpb
  <2>9. pattern.bars = bars /\ pattern.beatsPerBar = bpb /\ pattern.quarter = 7200 BY <2>5
  <2>10. dslText = [seconds |-> (((7200 * bpb * Quarter) \div Quarter) \div 60) * 60, bars |-> bars]
    BY <2>9 DEF TextIs
  <2>11. (((7200 * bpb * Quarter) \div Quarter) \div 60) * 60 = 7200 * bpb BY <2>7 DEF Quarter
  <2>12. dslText.bars = bars /\ dslText.seconds = 7200 * bpb BY <2>10, <2>11
  <2>13. scoreStage = ParseOutcome(bars) BY <2>12 DEF ParsedIs
  <2>14. bars # <<>> /\ BeatsLength(bars[1]) = L
    <3>1. 1 \in 1..z BY <2>1
    <3>2. DOMAIN bars # {} BY <2>3, <3>1
    <3>3. bars # <<>> BY <3>2
    <3> QED BY <2>4, <3>1, <3>3
  <2>15. ASSUME L % Quarter = 0 PROVE scoreStage = "done" /\ parsed = pattern
    <3>1. scoreStage = "done" BY <2>6, <2>13, <2>15
    <3>2. parsed = [beatsPerBar |-> L \div Quarter, quarter |-> (7200 * bpb * Quarter) \div L, bars |-> bars]
      BY <2>12, <2>14, <3>1 DEF ParsedIs
    <3>3. L \div Quarter = bpb /\ L \in Nat \ {0} /\ 7200 * bpb * Quarter = 7200 * L
      BY <2>2, <2>7, <2>8, <2>15 DEF Quarter
    <3>4. (7200 * bpb * Quarter) \div L = 7200 BY <3>3, DivOf
    <3> QED BY <2>5, <3>1, <3>2, <3>3, <3>4
  <2>16. L % Quarter # 0 => scoreStage = "bar mismatch" BY <2>6, <2>13, Zenon
  <2> QED BY <1>2, <2>15, <2>16, Zenon DEF L
<1> QED BY <1>1, <1>2

LEMMA PatternStays ==
  ASSUME PatternIs, UNCHANGED <<planItems, batches, pattern>>
  PROVE  PatternIs'
<1>1. planItems' = planItems /\ batches' = batches /\ pattern' = pattern OBVIOUS
<1>2. \A batch : ItemBeats(batch)' = ItemBeats(batch) BY <1>1 DEF ItemBeats
<1>3. LongestBatch' = LongestBatch BY <1>1, <1>2 DEF LongestBatch
<1>4. \A batch : BarOf(batch)' = BarOf(batch) BY <1>2, <1>3 DEF BarOf
<1>5. [b \in DOMAIN batches |-> BarOf(batches[b])]' = [b \in DOMAIN batches |-> BarOf(batches[b])]
  BY <1>1, <1>4
<1> QED BY <1>1, <1>3, <1>5 DEF PatternIs

LEMMA TextStep ==
  ASSUME PlanInv, TextInv, [ScoreNext]_scoreVars
  PROVE  TextInv'
<1>1. CASE scoreStage' \in {"reading", "batching", "typing"}
           \/ scoreStage' = "duplicate id" \/ scoreStage' = "unknown dep"
  <2>1. ~ Patterned' /\ ~ Texted' /\ ~ Ended'
    BY <1>1, Zenon DEF Patterned, Texted, Ended, ParseResults
  <2> QED BY <2>1, Zenon DEF TextInv
<1>2. CASE StartBatches
  <2>1. scoreStage' \in {"reading", "batching", "typing"}
        \/ scoreStage' = "duplicate id" \/ scoreStage' = "unknown dep"
    BY <1>2, Zenon DEF StartBatches, ValidatePlan
  <2> QED BY <1>1, <2>1
<1>3. ASSUME NEW id, ReadTicket(id) PROVE TextInv'
  <2>1. scoreStage' \in {"reading", "batching", "typing"} BY <1>3, Zenon DEF ReadTicket
  <2> QED BY <1>1, <2>1
<1>4. ASSUME NEW deps, NEW note, ReadAttribute(deps, note) PROVE TextInv'
  <2>1. scoreStage' \in {"reading", "batching", "typing"} BY <1>4, Zenon DEF ReadAttribute
  <2> QED BY <1>1, <2>1
<1>5. CASE PlaceBatch
  <2>1. scoreStage' \in {"reading", "batching", "typing"} BY <1>5, Zenon DEF PlaceBatch
  <2> QED BY <1>1, <2>1
<1>6. CASE PlanToPattern
  <2>1. scoreStage' = "pattern" BY <1>6 DEF PlanToPattern
  <2>2. ~ Texted' /\ ~ Ended' BY <2>1, Zenon DEF Texted, Ended, ParseResults
  <2>3. planItems' = planItems /\ batches' = batches BY <1>6 DEF PlanToPattern, planVars
  <2>4. \A batch : ItemBeats(batch)' = ItemBeats(batch) BY <2>3 DEF ItemBeats
  <2>5. LongestBatch' = LongestBatch BY <2>3, <2>4 DEF LongestBatch
  <2>6. \A batch : BarOf(batch)' = BarOf(batch) BY <2>4, <2>5 DEF BarOf
  <2>7. [b \in DOMAIN batches |-> BarOf(batches[b])]' = [b \in DOMAIN batches |-> BarOf(batches[b])]
    BY <2>3, <2>6
  <2>8. PatternIs' BY <1>6, <2>3, <2>5, <2>7 DEF PatternIs, PlanToPattern
  <2> QED BY <2>2, <2>8, Zenon DEF TextInv
<1>7. CASE PatternToDsl
  <2>1. scoreStage = "pattern" /\ scoreStage' = "text" BY <1>7 DEF PatternToDsl
  <2>2. Patterned /\ ~ Ended' BY <2>1, Zenon DEF Patterned, Ended, ParseResults
  <2>3. UNCHANGED <<planItems, batches, pattern>> BY <1>7 DEF PatternToDsl, planVars
  <2>4. planItems' # <<>> => PatternIs' BY <2>2, <2>3, PatternStays DEF TextInv
  <2>5. TextIs' BY <1>7, <2>3 DEF PatternToDsl, TextIs
  <2> QED BY <2>2, <2>4, <2>5, Zenon DEF TextInv
<1>8. ASSUME NEW beats, TypeBar(beats) PROVE TextInv'
  <2>1. scoreStage' \in {"reading", "batching", "typing"} BY <1>8, Zenon DEF TypeBar
  <2> QED BY <1>1, <2>1
<1>9. ASSUME NEW secs, TypeDuration(secs) PROVE TextInv'
  <2>1. scoreStage = "typing" /\ planItems' = planItems BY <1>9 DEF TypeDuration, planVars
  <2>2. planItems' = <<>> BY <2>1 DEF PlanInv
  <2> QED BY <2>2 DEF TextInv
<1>10. CASE Parse
  <2>1. scoreStage = "text" BY <1>10 DEF Parse
  <2>2. Patterned /\ Texted BY <2>1, Zenon DEF Patterned, Texted
  <2>3. UNCHANGED <<planItems, batches, pattern, dslText>> BY <1>10 DEF Parse, planVars
  <2>4. planItems' # <<>> => PatternIs' BY <2>2, <2>3, PatternStays DEF TextInv
  <2>5. planItems' # <<>> => TextIs' BY <2>2, <2>3 DEF TextInv, TextIs
  <2>6. ParsedIs'
    <3>1. dslText' = dslText /\ scoreStage' = ParseOutcome(dslText.bars) BY <1>10 DEF Parse
    <3>2. ParseOutcome(dslText.bars)' = ParseOutcome(dslText.bars) BY <3>1
    <3> QED BY <1>10, <3>1, <3>2 DEF Parse, ParsedIs
  <2> QED BY <2>4, <2>5, <2>6 DEF TextInv
<1>11. CASE UNCHANGED scoreVars
  <2>1. UNCHANGED <<planItems, batches, pattern, dslText, parsed, scoreStage>>
    BY <1>11 DEF scoreVars, planVars
  <2>2. (Patterned' <=> Patterned) /\ (Texted' <=> Texted) /\ (Ended' <=> Ended)
    BY <2>1, Zenon DEF Patterned, Texted, Ended
  <2>3. PatternIs => PatternIs' BY <2>1, PatternStays
  <2>4. TextIs => TextIs' BY <2>1 DEF TextIs
  <2>5. ParsedIs => ParsedIs' BY <2>1 DEF ParsedIs
  <2>6. planItems' = planItems BY <2>1
  <2> QED BY <2>2, <2>3, <2>4, <2>5, <2>6 DEF TextInv
<1> QED BY <1>2, <1>3, <1>4, <1>5, <1>6, <1>7, <1>8, <1>9, <1>10, <1>11 DEF ScoreNext

\* pattern_to_dsl and parse: a plan whose longest bar is a whole number of quarters
\* comes back from its text, and no plan comes back changed.
THEOREM PlanComesBack == ScoreSpec => []RoundTrip
<1>1. ScoreInit => PlanInv BY PlanInitially
<1>2. ScoreInit => TextInv BY DEF ScoreInit, TextInv
<1>3. PlanInv /\ TextInv /\ [ScoreNext]_scoreVars => PlanInv' /\ TextInv' BY PlanStep, TextStep
<1>4. ASSUME PlanInv, TextInv PROVE RoundTrip
  <2> SUFFICES ASSUME planItems # <<>>, scoreStage \in ParseResults
               PROVE  /\ scoreStage = "done" => parsed = pattern
                      /\ batches = <<>> \/ LongestBatch % Quarter = 0 => scoreStage = "done"
    BY Zenon DEF RoundTrip
  <2>1. Patterned /\ Texted /\ Ended /\ Batched
    BY Zenon DEF Patterned, Texted, Ended, Batched, ParseResults
  <2>2. PatternIs /\ TextIs /\ ParsedIs BY <1>4, <2>1 DEF TextInv
  <2>3. planItems \in Seq(Items) /\ BatchInv BY <1>4, <2>1 DEF PlanInv
  <2>4. batches \in Seq(Seq(PlanIndex)) /\ BarsFilled BY <2>3 DEF BatchInv, BatchTypes
  <2>5. IF batches = <<>> \/ LongestBatch % Quarter = 0
        THEN scoreStage = "done" /\ parsed = pattern
        ELSE scoreStage = "bar mismatch"
    BY <2>2, <2>3, <2>4, TripIs, Zenon
  <2> QED BY <2>5
<1> QED BY <1>1, <1>2, <1>3, <1>4, PTL DEF ScoreSpec

-----------------------------------------------------------------------------
(* Tempo: the rows of a bucket add up.                                     *)

Stats == [weight : Nat, duration : Nat, count : Nat]

LEMMA AddIs ==
  ASSUME NEW acc \in Stats, NEW pr \in TempoPrs, Counted(pr)
  PROVE  Add(acc, pr) \in Stats
<1>1. pr.age \in Int /\ pr.duration \in Int /\ pr.age >= 0 /\ pr.age <= 2 /\ pr.duration > 0
  <2>1. pr \in [complexity : {Complexities[b] : b \in Buckets}, age : Int, duration : Int, merged : BOOLEAN]
    BY TempoAssumption
  <2> QED BY <2>1 DEF Counted, WindowAge
<1>2. pr.age = 0 \/ pr.age = 1 \/ pr.age = 2 BY <1>1
<1>3. Weight(pr.age) \in Nat BY <1>2 DEF Weight, Weights
<1>4. pr.duration \in Nat BY <1>1
<1> DEFINE w == Weight(pr.age)
           d == pr.duration
<1> HIDE DEF w, d
<1>5. w \in Nat /\ d \in Nat BY <1>3, <1>4 DEF w, d
<1>6. w * d \in Nat BY <1>5
<1>7. acc.weight + w \in Nat /\ acc.duration + w * d \in Nat /\ acc.count + 1 \in Nat
  BY <1>5, <1>6 DEF Stats
<1> QED BY <1>7 DEF Add, Stats, w, d

LEMMA AccumulatedIs ==
  ASSUME rows \in Seq(TempoPrs), NEW b
  PROVE  Accumulated(b) \in Stats
<1> DEFINE n == Len(rows)
           zero == [weight |-> 0, duration |-> 0, count |-> 0]
           Take(k, last) == IF Counted(rows[k]) /\ rows[k].complexity = Complexities[b]
                            THEN Add(last, rows[k]) ELSE last
           F(f) == [k \in 0..n |->
                     IF k = 0 THEN [weight |-> 0, duration |-> 0, count |-> 0]
                     ELSE LET last == f[k - 1]
                          IN  IF Counted(rows[k]) /\ rows[k].complexity = Complexities[b]
                              THEN Add(last, rows[k]) ELSE last]
           f == CHOOSE f : f = F(f)
           step == [x \in (1..n) \X Stats |-> Take(x[1], x[2])]
<1>1. Accumulated(b) = f[n] BY DEF Accumulated
<1>2. n \in Nat /\ \A k \in 1..n : rows[k] \in TempoPrs OBVIOUS
<1>3. zero \in Stats BY DEF Stats
<1>4. \A k \in 1..n : \A last \in Stats : Take(k, last) \in Stats BY <1>2, AddIs
<1> HIDE DEF Take, zero, n
<1>5. step \in [(1..n) \X Stats -> Stats] BY <1>4
<1>6. \A k \in 1..n : \A last \in Stats : step[<<k, last>>] = Take(k, last) OBVIOUS
<1> HIDE DEF step
<1>7. PICK g : g \in Runs(n, Stats, zero, step, n) BY <1>2, <1>3, <1>5, LoopIs, Zenon
<1>8. /\ g \in [0..n -> Stats] /\ g[0] = zero
      /\ \A i \in 1..n : g[i] = step[<<i, g[i - 1]>>]
  BY <1>7 DEF Runs
<1>9. \A k \in 0..n : k # 0 => k \in 1..n /\ k - 1 \in 0..n BY <1>2
<1>10. g = F(g)
  <2>1. ASSUME NEW i \in 0..n PROVE g[i] = F(g)[i]
    <3>1. CASE i = 0 BY <1>8, <3>1 DEF zero
    <3>2. CASE i # 0
      <4>1. i \in 1..n /\ g[i - 1] \in Stats BY <1>8, <1>9, <3>2
      <4>2. g[i] = Take(i, g[i - 1]) BY <1>6, <1>8, <4>1
      <4> QED BY <3>2, <4>2 DEF Take
    <3> QED BY <3>1, <3>2
  <2>2. g = [i \in 0..n |-> g[i]] BY <1>8
  <2>3. F(g) = [i \in 0..n |-> F(g)[i]] OBVIOUS
  <2> HIDE DEF F
  <2> QED BY <2>1, <2>2, <2>3
<1>11. f = F(f) BY <1>10, Zenon
<1> HIDE DEF f
<1>12. f[0] = zero BY <1>2, <1>11 DEF zero
<1>13. \A i \in 1..n : f[i] = Take(i, f[i - 1])
  <2> TAKE i \in 1..n
  <2>1. i \in 0..n /\ i # 0 BY <1>2
  <2> QED BY <1>11, <2>1 DEF Take
<1>14. f = [i \in 0..n |-> f[i]] BY <1>11
<1> HIDE DEF F
<1>15. f \in [0..n -> Stats]
  <2>1. f[0] \in Stats BY <1>3, <1>12
  <2>2. \A i \in 1..n : f[i - 1] \in Stats => f[i] \in Stats BY <1>4, <1>13
  <2> QED BY <1>2, <1>14, <2>1, <2>2, LoopTyped, Zenon
<1> QED BY <1>1, <1>2, <1>15

LEMMA CountIs ==
  ASSUME rows \in Seq(TempoPrs), NEW S
  PROVE  LET N(b) == IF b \in S THEN Accumulated(b).count ELSE 0
         IN  /\ CountOf(S) = N(1) + N(2) + N(3) + N(4)
             /\ \A b \in Buckets : N(b) \in Nat
<1> DEFINE N(b) == IF b \in S THEN Accumulated(b).count ELSE 0
           F(f) == [b \in 0..4 |-> IF b = 0 THEN 0
                                   ELSE f[b - 1] + (IF b \in S THEN Accumulated(b).count ELSE 0)]
           f == CHOOSE f : f = F(f)
           step == [x \in (1..4) \X Nat |-> x[2] + N(x[1])]
<1>1. CountOf(S) = f[4] BY DEF CountOf
<1>2. \A b : N(b) \in Nat BY AccumulatedIs DEF Stats
<1> HIDE DEF N
<1>3. step \in [(1..4) \X Nat -> Nat] BY <1>2
<1>4. \A b \in 1..4 : \A v \in Nat : step[<<b, v>>] = v + N(b) OBVIOUS
<1> HIDE DEF step
<1>5. 4 \in Nat /\ 0 \in Nat OBVIOUS
<1>6. PICK g : g \in Runs(4, Nat, 0, step, 4) BY <1>3, <1>5, LoopIs, Zenon
<1>7. /\ g \in [0..4 -> Nat] /\ g[0] = 0
      /\ \A i \in 1..4 : g[i] = step[<<i, g[i - 1]>>]
  BY <1>6 DEF Runs
<1>8. g = F(g)
  <2>1. ASSUME NEW i \in 0..4 PROVE g[i] = F(g)[i]
    <3>1. CASE i = 0 BY <1>7, <3>1
    <3>2. CASE i # 0
      <4>1. i \in 1..4 /\ g[i - 1] \in Nat BY <1>7, <3>2
      <4>2. g[i] = g[i - 1] + N(i) BY <1>4, <1>7, <4>1
      <4> QED BY <3>2, <4>2 DEF N
    <3> QED BY <3>1, <3>2
  <2>2. g = [i \in 0..4 |-> g[i]] BY <1>7
  <2>3. F(g) = [i \in 0..4 |-> F(g)[i]] OBVIOUS
  <2> HIDE DEF F
  <2> QED BY <2>1, <2>2, <2>3
<1>9. f = F(f) BY <1>8, Zenon
<1> HIDE DEF f
<1>10. f[0] = 0 /\ f[1] = f[0] + N(1) /\ f[2] = f[1] + N(2) /\ f[3] = f[2] + N(3) /\ f[4] = f[3] + N(4)
  <2>1. f[0] = 0 BY <1>9
  <2>2. ASSUME NEW b \in 1..4 PROVE f[b] = f[b - 1] + N(b) BY <1>9 DEF N
  <2>3. f[1] = f[0] + N(1) /\ f[2] = f[1] + N(2) BY <2>2
  <2>4. f[3] = f[2] + N(3) /\ f[4] = f[3] + N(4) BY <2>2
  <2> QED BY <2>1, <2>3, <2>4
<1>11. f[4] = N(1) + N(2) + N(3) + N(4) BY <1>2, <1>10
<1> QED BY <1>1, <1>2, <1>11 DEF N

LEMMA FourGrow ==
  ASSUME NEW f, NEW g, \A b \in 1..4 : f[b] \in Nat /\ g[b] \in Nat /\ f[b] <= g[b]
  PROVE  f[1] + f[2] + f[3] + f[4] \in Nat /\ f[1] + f[2] + f[3] + f[4] <= g[1] + g[2] + g[3] + g[4]
<1>1. /\ f[1] \in Nat /\ g[1] \in Nat /\ f[1] <= g[1] /\ f[2] \in Nat /\ g[2] \in Nat /\ f[2] <= g[2]
      /\ f[3] \in Nat /\ g[3] \in Nat /\ f[3] <= g[3] /\ f[4] \in Nat /\ g[4] \in Nat /\ f[4] <= g[4]
  OBVIOUS
<1> QED BY ONLY <1>1

LEMMA FourFit ==
  ASSUME NEW f, NEW g, NEW h,
         \A b \in 1..4 : f[b] \in Nat /\ g[b] \in Nat /\ h[b] \in Nat /\ f[b] + g[b] <= h[b]
  PROVE  (f[1] + f[2] + f[3] + f[4]) + (g[1] + g[2] + g[3] + g[4]) <= h[1] + h[2] + h[3] + h[4]
<1>1. /\ f[1] \in Nat /\ g[1] \in Nat /\ h[1] \in Nat /\ f[1] + g[1] <= h[1]
      /\ f[2] \in Nat /\ g[2] \in Nat /\ h[2] \in Nat /\ f[2] + g[2] <= h[2]
      /\ f[3] \in Nat /\ g[3] \in Nat /\ h[3] \in Nat /\ f[3] + g[3] <= h[3]
      /\ f[4] \in Nat /\ g[4] \in Nat /\ h[4] \in Nat /\ f[4] + g[4] <= h[4]
  OBVIOUS
<1> QED BY ONLY <1>1

LEMMA CountGrows ==
  ASSUME rows \in Seq(TempoPrs), NEW S, NEW T, NEW U, S \subseteq U, T \subseteq U
  PROVE  /\ CountOf(S) \in Nat /\ CountOf(S) <= CountOf(U)
         /\ S \cap T = {} => CountOf(S) + CountOf(T) <= CountOf(U)
<1> DEFINE C(b) == Accumulated(b).count
           N(X, b) == IF b \in X THEN C(b) ELSE 0
<1>1. ASSUME NEW X PROVE CountOf(X) = N(X, 1) + N(X, 2) + N(X, 3) + N(X, 4) BY CountIs
<1>2. \A b : C(b) \in Nat BY AccumulatedIs DEF Stats
<1> HIDE DEF C
<1>3. \A b : /\ N(S, b) \in Nat /\ N(T, b) \in Nat /\ N(U, b) \in Nat /\ N(S, b) <= N(U, b)
             /\ S \cap T = {} => N(S, b) + N(T, b) <= N(U, b)
  BY <1>2
<1> DEFINE s == [b \in 1..4 |-> N(S, b)]
           t == [b \in 1..4 |-> N(T, b)]
           u == [b \in 1..4 |-> N(U, b)]
<1>4. /\ CountOf(S) = s[1] + s[2] + s[3] + s[4]
      /\ CountOf(T) = t[1] + t[2] + t[3] + t[4]
      /\ CountOf(U) = u[1] + u[2] + u[3] + u[4]
  BY <1>1
<1>5. /\ \A b \in 1..4 : s[b] \in Nat /\ t[b] \in Nat /\ u[b] \in Nat /\ s[b] <= u[b]
      /\ S \cap T = {} => \A b \in 1..4 : s[b] + t[b] <= u[b]
  BY <1>3
<1> HIDE DEF s, t, u
<1>6. s[1] + s[2] + s[3] + s[4] \in Nat /\ s[1] + s[2] + s[3] + s[4] <= u[1] + u[2] + u[3] + u[4]
  <2>1. \A b \in 1..4 : s[b] \in Nat /\ u[b] \in Nat /\ s[b] <= u[b] BY <1>5
  <2> QED BY <2>1, FourGrow, Zenon
<1>7. S \cap T = {} =>
        (s[1] + s[2] + s[3] + s[4]) + (t[1] + t[2] + t[3] + t[4]) <= u[1] + u[2] + u[3] + u[4]
  <2> SUFFICES ASSUME S \cap T = {}
               PROVE  (s[1] + s[2] + s[3] + s[4]) + (t[1] + t[2] + t[3] + t[4]) <= u[1] + u[2] + u[3] + u[4]
    OBVIOUS
  <2>1. \A b \in 1..4 : s[b] \in Nat /\ t[b] \in Nat /\ u[b] \in Nat /\ s[b] + t[b] <= u[b]
    BY <1>5
  <2> QED BY <2>1, FourFit, Zenon
<1> QED BY <1>4, <1>6, <1>7, Zenon

-----------------------------------------------------------------------------
(* The order of the buckets.                                               *)

LEMMA Scaled == \A p, q \in Nat, r \in Nat \ {0} : p * r <= q * r <=> p <= q
<1> TAKE p, q \in Nat, r \in Nat \ {0}
<1>1. p <= q => p * r <= q * r
  <2> SUFFICES ASSUME p <= q PROVE p * r <= q * r OBVIOUS
  <2>1. q * r = p * r + (q - p) * r /\ (q - p) * r >= 0 OBVIOUS
  <2> QED BY <2>1
<1>2. p > q => p * r > q * r
  <2> SUFFICES ASSUME p > q PROVE p * r > q * r OBVIOUS
  <2>1. p * r = q * r + (p - q) * r /\ (p - q) * r > 0 OBVIOUS
  <2> QED BY <2>1
<1> QED BY <1>1, <1>2

\* Fractions are ordered by their cross products.
LEMMA Crossed ==
  ASSUME NEW a \in Nat, NEW b \in Nat \ {0}, NEW c \in Nat, NEW d \in Nat \ {0},
         NEW e \in Nat, NEW f \in Nat \ {0}, a * d <= c * b, c * f <= e * d
  PROVE  a * f <= e * b
<1>1. (a * d) * f <= (c * b) * f
  <2>1. a * d \in Nat /\ c * b \in Nat OBVIOUS
  <2> QED BY <2>1, Scaled
<1>2. (c * f) * b <= (e * d) * b
  <2>1. c * f \in Nat /\ e * d \in Nat OBVIOUS
  <2> QED BY <2>1, Scaled
<1>3. (a * d) * f = (a * f) * d /\ (c * b) * f = (c * f) * b /\ (e * d) * b = (e * b) * d OBVIOUS
<1>4. (a * f) * d <= (e * b) * d
  <2> DEFINE x == (a * f) * d
             y == (c * f) * b
             z == (e * b) * d
  <2>1. x \in Nat /\ y \in Nat /\ z \in Nat OBVIOUS
  <2>2. x <= y /\ y <= z BY <1>1, <1>2, <1>3
  <2> HIDE DEF x, y, z
  <2>3. x <= z BY <2>1, <2>2
  <2> QED BY <2>3 DEF x, z
<1>5. a * f \in Nat /\ e * b \in Nat OBVIOUS
<1> QED BY <1>4, <1>5, Scaled

LEMMA BelowIs ==
  ASSUME rows \in Seq(TempoPrs)
  PROVE  /\ \A b, c \in Filled : Below(Avg(b), Avg(c)) => ~ Below(Avg(c), Avg(b))
         /\ \A a, b, c \in Filled : ~ Below(Avg(b), Avg(a)) /\ ~ Below(Avg(c), Avg(b)) =>
              ~ Below(Avg(c), Avg(a))
<1> DEFINE D(b) == Accumulated(b).duration
           W(b) == Accumulated(b).weight
<1>1. \A b \in Filled : D(b) \in Nat /\ W(b) \in Nat \ {0}
  <2> TAKE b \in Filled
  <2>1. Accumulated(b) \in Stats BY AccumulatedIs
  <2>2. D(b) \in Nat /\ W(b) \in Nat BY <2>1 DEF Stats
  <2>3. W(b) > 0 BY DEF Filled
  <2> QED BY <2>2, <2>3
<1>2. \A b, c : Below(Avg(b), Avg(c)) <=> D(b) * W(c) < D(c) * W(b) BY DEF Below, Avg
<1> HIDE DEF D, W
<1>3. \A b, c \in Filled : D(b) * W(c) \in Nat BY <1>1
<1>4. \A b, c \in Filled : ~ Below(Avg(c), Avg(b)) <=> D(b) * W(c) <= D(c) * W(b)
  BY <1>2, <1>3
<1>5. \A b, c \in Filled : Below(Avg(b), Avg(c)) => ~ Below(Avg(c), Avg(b)) BY <1>2, <1>3
<1>6. ASSUME NEW a \in Filled, NEW b \in Filled, NEW c \in Filled,
             ~ Below(Avg(b), Avg(a)), ~ Below(Avg(c), Avg(b))
      PROVE  ~ Below(Avg(c), Avg(a))
  <2>1. D(a) * W(b) <= D(b) * W(a) /\ D(b) * W(c) <= D(c) * W(b) BY <1>4, <1>6
  <2>2. D(a) * W(c) <= D(c) * W(a) BY <1>1, <2>1, Crossed
  <2> QED BY <1>4, <2>2
<1> QED BY <1>5, <1>6

\* A sorted list of the buckets is a strict total order of them.
LEMMA BeforeIs ==
  ASSUME rows \in Seq(TempoPrs)
  PROVE  /\ \A a \in Filled : ~ Before(a, a)
         /\ \A a, b \in Filled : a = b \/ Before(a, b) \/ Before(b, a)
         /\ \A a, b \in Filled : Before(a, b) => ~ Before(b, a)
         /\ \A a, b, c \in Filled : Before(a, b) /\ Before(b, c) => Before(a, c)
<1> DEFINE L(a, b) == Below(Avg(a), Avg(b))
<1>1. \A b \in Filled : b \in Int BY DEF Filled, Buckets
<1>2. \A b, c \in Filled : L(b, c) => ~ L(c, b) BY BelowIs
<1>3. \A a, b, c \in Filled : ~ L(b, a) /\ ~ L(c, b) => ~ L(c, a) BY BelowIs
<1>4. \A a, b : Before(a, b) <=> L(a, b) \/ (~ L(b, a) /\ a < b) BY DEF Before
<1> HIDE DEF L
<1>5. \A a \in Filled : ~ Before(a, a) BY <1>1, <1>2, <1>4
<1>6. \A a, b \in Filled : a = b \/ Before(a, b) \/ Before(b, a) BY <1>1, <1>4
<1>7. \A a, b \in Filled : Before(a, b) => ~ Before(b, a) BY <1>1, <1>2, <1>4
<1>8. ASSUME NEW a \in Filled, NEW b \in Filled, NEW c \in Filled, Before(a, b), Before(b, c)
      PROVE  Before(a, c)
  <2>1. ~ L(b, a) /\ ~ L(c, b) BY <1>2, <1>4, <1>8
  <2>2. ~ L(c, a) BY <1>3, <2>1
  <2>3. CASE L(a, c) BY <1>4, <2>3
  <2>4. CASE ~ L(a, c)
    <3>1. ~ L(a, b) BY <1>3, <2>1, <2>4
    <3>2. ~ L(b, c) BY <1>3, <2>1, <2>4
    <3>3. a < b /\ b < c BY <1>4, <1>8, <3>1, <3>2
    <3>4. a < c BY <1>1, <3>3
    <3> QED BY <1>4, <2>2, <3>4
  <2> QED BY <2>3, <2>4
<1> QED BY <1>5, <1>6, <1>7, <1>8

\* A set of buckets has a last one in any such order.
LEMMA LastOf ==
  ASSUME NEW n \in Nat, NEW S \in SUBSET (1..n), S # {}, NEW r,
         \A a \in S : <<a, a>> \notin r,
         \A a, b, c \in S : <<a, b>> \in r /\ <<b, c>> \in r => <<a, c>> \in r
  PROVE  \E m \in S : \A c \in S : <<m, c>> \notin r
<1> DEFINE Up(k) == {x \in S : x <= k}
           Good(k) == Up(k) # {} => \E m \in Up(k) : \A c \in Up(k) : <<m, c>> \notin r
           Off == {k \in Nat : ~ Good(k)}
<1>1. Off = {}
  <2> SUFFICES ASSUME Off # {} PROVE FALSE OBVIOUS
  <2>1. PICK k \in Off : \A j \in Off : ~ (j < k) BY LeastOf
  <2>2. k \in Nat /\ ~ Good(k) BY <2>1
  <2>3. \A x \in S : x \in Nat /\ x >= 1 OBVIOUS
  <2>4. k # 0
    <3>1. \A x \in S : ~ (x <= 0) BY <2>3
    <3>2. Up(0) = {} BY <3>1
    <3> QED BY <2>2, <3>2
  <2>5. k - 1 \in Nat /\ k - 1 < k BY <2>2, <2>4
  <2>6. Good(k - 1) BY <2>1, <2>5
  <2>7. Up(k) = Up(k - 1) \cup ({k} \cap S)
    <3>1. \A x \in S : x <= k <=> x <= k - 1 \/ x = k BY <2>2, <2>3
    <3> QED BY <2>2, <3>1
  <2>8. Up(k - 1) \subseteq S BY DEF Up
  <2>9. k \in S
    <3> SUFFICES ASSUME k \notin S PROVE FALSE OBVIOUS
    <3>1. Up(k) = Up(k - 1) BY <2>7
    <3> HIDE DEF Up
    <3> QED BY <2>2, <2>6, <3>1
  <2>10. CASE Up(k - 1) = {} 
    <3>1. Up(k) = {k} BY <2>7, <2>9, <2>10
    <3> QED BY <2>2, <2>9, <3>1
  <2>11. CASE Up(k - 1) # {}
    <3>1. PICK m \in Up(k - 1) : \A c \in Up(k - 1) : <<m, c>> \notin r BY <2>6, <2>11
    <3> HIDE DEF Up
    <3>2. m \in S BY <2>8, <3>1
    <3>3. CASE <<m, k>> \in r
      <4>1. \A c \in Up(k) : <<k, c>> \notin r BY <2>7, <2>8, <2>9, <3>1, <3>2, <3>3
      <4> QED BY <2>2, <2>7, <2>9, <4>1
    <3>4. CASE <<m, k>> \notin r
      <4>1. \A c \in Up(k) : <<m, c>> \notin r BY <2>7, <3>1, <3>4
      <4> QED BY <2>2, <2>7, <3>1, <4>1
    <3> QED BY <3>3, <3>4
  <2> QED BY <2>10, <2>11
<1>2. Good(n) BY <1>1
<1>3. Up(n) = S
  <2>1. \A x \in S : x <= n OBVIOUS
  <2> QED BY <2>1
<1> HIDE DEF Up
<1> QED BY <1>2, <1>3

-----------------------------------------------------------------------------
(* The median.                                                             *)

\* Buckets with data have a last one and a first one in the sorted list.
LEMMA Ends ==
  ASSUME rows \in Seq(TempoPrs), NEW S \in SUBSET Filled, S # {}
  PROVE  /\ \E p \in S : \A c \in S : c = p \/ Before(c, p)
         /\ \E p \in S : \A c \in S : ~ Before(c, p)
<1> DEFINE after == {x \in Buckets \X Buckets : Before(x[1], x[2])}
           first == {x \in Buckets \X Buckets : Before(x[2], x[1])}
<1>1. S \in SUBSET (1..4) /\ 4 \in Nat /\ \A a \in S : a \in Buckets /\ a \in Filled
  BY DEF Filled, Buckets
<1>2. \A a, b \in S : /\ (<<a, b>> \in after <=> Before(a, b))
                       /\ (<<a, b>> \in first <=> Before(b, a))
  BY <1>1
<1> HIDE DEF after, first
<1>3. \A a \in S : <<a, a>> \notin after /\ <<a, a>> \notin first BY <1>1, <1>2, BeforeIs
<1>4. /\ \A a, b, c \in S : <<a, b>> \in after /\ <<b, c>> \in after => <<a, c>> \in after
      /\ \A a, b, c \in S : <<a, b>> \in first /\ <<b, c>> \in first => <<a, c>> \in first
  BY <1>1, <1>2, BeforeIs
<1>5. \E p \in S : \A c \in S : <<p, c>> \notin after BY <1>1, <1>3, <1>4, LastOf
<1>6. \E p \in S : \A c \in S : <<p, c>> \notin first BY <1>1, <1>3, <1>4, LastOf
<1>7. \E p \in S : \A c \in S : ~ Before(p, c) BY <1>2, <1>5
<1>8. \E p \in S : \A c \in S : ~ Before(c, p) BY <1>2, <1>6
<1>9. \A p, c \in S : ~ Before(p, c) => c = p \/ Before(c, p) BY <1>1, BeforeIs
<1> QED BY <1>7, <1>8, <1>9

LEMMA ReachedIs ==
  ASSUME rows \in Seq(TempoPrs), Filled # {}
  PROVE  \E b \in Reached : /\ Maturity = Avg(b)
                            /\ \A c \in Filled : Before(c, b) => c \notin Reached
<1>1. PICK m \in Filled : \A c \in Filled : c = m \/ Before(c, m) BY Ends
<1>2. m \in Reached
  <2>1. {c \in Filled : c = m \/ Before(c, m)} = Filled BY <1>1
  <2>2. CountOf(Filled) \in Nat BY CountGrows
  <2>3. 2 * CountOf(Filled) >= CountOf(Filled) BY <2>2
  <2> QED BY <1>1, <2>1, <2>3 DEF Reached, UpTo
<1>3. Reached \in SUBSET Filled BY DEF Reached
<1>4. \E b \in Reached : \A c \in Reached : ~ Before(c, b) BY <1>2, <1>3, Ends
<1> DEFINE b == CHOOSE b \in Reached : \A c \in Reached : ~ Before(c, b)
<1>5. b \in Reached /\ \A c \in Reached : ~ Before(c, b) BY <1>4, Zenon
<1>6. Maturity = Avg(b) BY DEF Maturity
<1> HIDE DEF b
<1> QED BY <1>5, <1>6

LEMMA MedianIs ==
  ASSUME rows \in Seq(TempoPrs)
  PROVE  MaturityIsMedian
<1> SUFFICES ASSUME Filled # {}
             PROVE  /\ \E b \in Filled : Maturity = Avg(b)
                    /\ 2 * CountOf({b \in Filled : Below(Avg(b), Maturity)}) <= CountOf(Filled)
                    /\ 2 * CountOf({b \in Filled : Below(Maturity, Avg(b))}) <= CountOf(Filled)
  BY DEF MaturityIsMedian
<1>1. PICK b \in Reached : /\ Maturity = Avg(b)
                           /\ \A c \in Filled : Before(c, b) => c \notin Reached
  BY ReachedIs
<1>2. b \in Filled /\ 2 * UpTo(b) >= CountOf(Filled) BY DEF Reached
<1> DEFINE Less == {c \in Filled : Below(Avg(c), Avg(b))}
           More == {c \in Filled : Below(Avg(b), Avg(c))}
           Upper(p) == {c \in Filled : c = p \/ Before(c, p)}
<1>3. \A p : UpTo(p) = CountOf(Upper(p)) BY DEF UpTo
<1>4. Less \subseteq Filled /\ More \subseteq Filled /\ \A p : Upper(p) \subseteq Filled OBVIOUS
<1>5. CountOf(Filled) \in Nat BY CountGrows
<1>6. 2 * CountOf(More) <= CountOf(Filled)
  <2>1. More \cap Upper(b) = {}
    <3> SUFFICES ASSUME NEW c \in Filled, Below(Avg(b), Avg(c)), c = b \/ Before(c, b) PROVE FALSE
      OBVIOUS
    <3>1. ~ Below(Avg(c), Avg(b)) BY <1>2, BelowIs
    <3>2. ~ Below(Avg(b), Avg(b)) BY <1>2, BelowIs
    <3> QED BY <3>1, <3>2 DEF Before
  <2>2. CountOf(More) + CountOf(Upper(b)) <= CountOf(Filled) BY <1>4, <2>1, CountGrows
  <2>3. CountOf(More) \in Nat /\ CountOf(Upper(b)) \in Nat BY <1>4, CountGrows
  <2>4. 2 * CountOf(Upper(b)) >= CountOf(Filled) BY <1>2, <1>3
  <2> HIDE DEF More, Upper
  <2> QED BY <1>5, <2>2, <2>3, <2>4
<1>7. 2 * CountOf(Less) <= CountOf(Filled)
  <2>1. CASE Less = {}
    <3>1. CountOf({}) + CountOf(Filled) <= CountOf(Filled) /\ CountOf({}) \in Nat BY CountGrows
    <3>2. 2 * CountOf({}) <= CountOf(Filled) BY <1>5, <3>1
    <3> QED BY <2>1, <3>2
  <2>2. CASE Less # {}
    <3>1. Less \in SUBSET Filled BY <1>4
    <3>2. PICK p \in Less : \A c \in Less : c = p \/ Before(c, p) BY <2>2, <3>1, Ends
    <3>3. p \in Filled /\ \A c \in Less : c \in Filled /\ (c = p \/ Before(c, p))
      BY <1>4, <3>2
    <3>4. Less \subseteq Upper(p) BY <3>3
    <3>5. p \notin Reached
      <4>1. Before(p, b) BY <3>2 DEF Before
      <4> QED BY <1>1, <3>3, <4>1
    <3>6. ~ (2 * CountOf(Upper(p)) >= CountOf(Filled)) BY <1>3, <3>3, <3>5 DEF Reached
    <3>7. CountOf(Less) \in Nat /\ CountOf(Less) <= CountOf(Upper(p)) BY <3>4, CountGrows
    <3>8. CountOf(Upper(p)) \in Nat BY <1>4, CountGrows
    <3> HIDE DEF Upper
    <3> QED BY <1>5, <3>6, <3>7, <3>8
  <2> QED BY <2>1, <2>2
<1> QED BY <1>1, <1>2, <1>6, <1>7

\* weighted_median: the maturity of a project is the median of its pull requests.
THEOREM MaturityMedian == TempoSpec => []MaturityIsMedian
<1> DEFINE Typed == rows \in Seq(TempoPrs)
<1>1. TempoInit => Typed BY DEF TempoInit
<1>2. Typed /\ [TempoNext]_rows => Typed' BY DEF TempoNext, Record
<1>3. Typed => MaturityIsMedian BY MedianIs
<1> HIDE DEF Typed
<1> QED BY <1>1, <1>2, <1>3, PTL DEF TempoSpec
=============================================================================
