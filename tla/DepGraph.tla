------------------------------ MODULE DepGraph ------------------------------
(***************************************************************************)
(* DepGraph and topo_batches: a graph of issues is filled in, then sorted  *)
(* into batches that can be worked on in parallel.  A batch is the set of  *)
(* issues of one rank; rank 0 is no batch yet.                             *)
(***************************************************************************)
EXTENDS Naturals, FiniteSets

CONSTANT Numbers  \* issue numbers

VARIABLES
  graphNodes, \* keys of edges
  graphDeps,  \* edges of a key, {} where there is none
  finished,   \* closed: issues that are done
  waits,      \* issues of indegree > 0
  ready,      \* the queue
  rank,       \* the batch of an issue
  round,      \* batches so far
  sorted      \* "no", "sorting", "ok", "cycle"

graphVars == <<graphNodes, graphDeps, finished, waits, ready, rank, round, sorted>>

GraphInit ==
  /\ graphNodes = {} /\ graphDeps = [n \in Numbers |-> {}]
  /\ finished = {} /\ waits = {} /\ ready = {}
  /\ rank = [n \in Numbers |-> 0] /\ round = 0 /\ sorted = "no"

\* The dependencies of n that can hold it back.
OpenDeps(n) == {d \in graphDeps[n] : d \in graphNodes /\ d \notin finished}

CheckClosed == \A n \in graphNodes : graphDeps[n] \subseteq graphNodes

-----------------------------------------------------------------------------

AddIssue(n) ==
  /\ sorted = "no" /\ graphNodes' = graphNodes \cup {n}
  /\ UNCHANGED <<graphDeps, finished, waits, ready, rank, round, sorted>>

AddDep(n, d) ==
  /\ sorted = "no"
  /\ graphNodes' = graphNodes \cup {n, d}
  /\ graphDeps' = [graphDeps EXCEPT ![n] = @ \cup {d}]
  /\ UNCHANGED <<finished, waits, ready, rank, round, sorted>>

\* edges is public: a dependency may be entered without its issue.
EnterDep(n, d) ==
  /\ sorted = "no"
  /\ graphNodes' = graphNodes \cup {n}
  /\ graphDeps' = [graphDeps EXCEPT ![n] = @ \cup {d}]
  /\ UNCHANGED <<finished, waits, ready, rank, round, sorted>>

\* topo_batches is called, and computes the indegrees.
Sort(closed) ==
  /\ sorted = "no" /\ sorted' = "sorting" /\ finished' = closed
  /\ waits' = {n \in graphNodes : \E d \in graphDeps[n] : d \in graphNodes /\ d \notin closed}
  /\ ready' = graphNodes \ waits'
  /\ UNCHANGED <<graphNodes, graphDeps, rank, round>>

\* Mutant: one dependency that is done is enough.
UnblockedAny(batch) == {n \in waits \ batch : \E d \in OpenDeps(n) : d \in batch \/ rank[d] > 0}

\* What batch leaves without a dependency to wait for.
Unblocked(batch) ==
  {n \in waits \ batch : \A d \in OpenDeps(n) : d \in batch \/ rank[d] > 0}

TakeBatch ==
  /\ sorted = "sorting" /\ ready # {}
  /\ round' = round + 1
  /\ rank' = [n \in Numbers |-> IF n \in ready THEN round + 1 ELSE rank[n]]
  /\ ready' = Unblocked(ready) /\ waits' = waits \ Unblocked(ready)
  /\ UNCHANGED <<graphNodes, graphDeps, finished, sorted>>

\* Fewer issues visited than there are: the others are the cycle reported.
Finish ==
  /\ sorted = "sorting" /\ ready = {}
  /\ sorted' = IF {n \in graphNodes : rank[n] > 0} = graphNodes THEN "ok" ELSE "cycle"
  /\ UNCHANGED <<graphNodes, graphDeps, finished, waits, ready, rank, round>>

GraphNext ==
  \/ \E n \in Numbers : AddIssue(n)
  \/ \E n, d \in Numbers : AddDep(n, d) \/ EnterDep(n, d)
  \/ \E closed \in SUBSET Numbers : Sort(closed)
  \/ TakeBatch \/ Finish

GraphSpec == GraphInit /\ [][GraphNext]_graphVars

-----------------------------------------------------------------------------
(* Properties.                                                             *)

\* On success every issue is in a batch, after each dependency that is open and in the
\* graph (each one at all, when check_closed holds and nothing is done), and in the first
\* batch that this allows.
BatchesInOrder ==
  \A n \in graphNodes :
    /\ rank[n] \in 1..round
    /\ \A d \in OpenDeps(n) : rank[d] < rank[n]
    /\ rank[n] = 1 \/ \E d \in OpenDeps(n) : rank[d] = rank[n] - 1
    /\ CheckClosed /\ finished = {} => \A d \in graphDeps[n] : rank[d] \in 1..(rank[n] - 1)

\* GraphError::Cycle: the issues reported are some, none of them is in a batch, and each
\* waits for another one of them, so that there is a cycle; all others are in batches.
CycleIsReal ==
  /\ waits # {}
  /\ \A n \in waits : rank[n] = 0 /\ OpenDeps(n) \cap waits # {}
  /\ \A n \in graphNodes \ waits : rank[n] > 0

\* What topo_batches answers is right, whether it is batches or a cycle.
SortSound == (sorted = "ok" => BatchesInOrder) /\ (sorted = "cycle" => CycleIsReal)
=============================================================================
