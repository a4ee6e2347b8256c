---------------------------- MODULE MCOrchestrate ---------------------------
(***************************************************************************)
(* Small repositories for the runs of Orchestrate.                         *)
(***************************************************************************)
EXTENDS Orchestrate, TLC

\* The processes run the same program.
OrchSymmetry == Permutations(Orchs)

\* Pull requests 11 and 12 link to issue 1, 13 to issue 2, 14 to issue 3.
LinkByNumber == [p \in PRs |-> CASE p \in {11, 12} -> 1 [] p = 13 -> 2
                                 [] p = 14 -> 3 [] OTHER -> NoIssue]

Independent == [i \in Issues |-> {}]
Chain == [i \in Issues |-> {j \in Issues : j = i - 1}]

HumanFirst == [i \in Issues |-> IF i = 2 THEN {3} ELSE {}]

Unlabelled == [i \in Issues |-> NoPreset]
MixedLabels == [i \in Issues |-> IF i = 1 THEN "Feral" ELSE "Fast"]
OneStrict == [i \in Issues |-> IF i = 1 THEN "Strict" ELSE NoPreset]
=============================================================================
