------------------------------ MODULE MergeGate ------------------------------
(***************************************************************************)
(* What the checks of a branch amount to: the merge predicate of each      *)
(* safety preset on the checks of a branch, and the one CI status that     *)
(* gh's roll-up of a pull request is taken for.  The state is a branch     *)
(* whose checks come in and whose approvals are given, and a roll-up.      *)
(***************************************************************************)
EXTENDS Naturals, Sequences

CONSTANTS
  MaxChecks,    \* bound on the checks
  Conclusions   \* conclusions that GitHub reports, besides "none"

VARIABLES
  branch,  \* [checks, reviewApproved, linkedIssueClosed, adrPresent]
  rollup   \* statusCheckRollup: [conclusion, completed] each

gateVars == <<branch, rollup>>

\* SafetyPreset, from most permissive to most restrictive.
Detents == <<"Unhinged", "Feral", "Fast", "Strict", "Bureaucratic">>

CheckStatuses == {"Green", "Amber", "Red", "Pending", "Transient"}

Good == {"SUCCESS", "NEUTRAL", "SKIPPED"}
Bad == {"FAILURE", "CANCELLED", "TIMED_OUT", "ACTION_REQUIRED"}

Allowed == <<"Allowed">>
BlockedBy(reason) == <<"BlockedBy", reason>>
CheckFailed(c) == BlockedBy(IF c.required THEN "RequiredCheckFailed" ELSE "AdvisoryCheckFailed")

\* The places of the checks with a status, and of the required ones.
With(b, status) == {i \in DOMAIN b.checks : b.checks[i].status = status}
Required(b) == {i \in DOMAIN b.checks : b.checks[i].required}
NotGreen(b) == DOMAIN b.checks \ With(b, "Green")

FirstCheck(b, places) == b.checks[CHOOSE i \in places : \A j \in places : i <= j]

\* A hard failure anywhere takes priority over a transient one.
StrictPredicate(b) ==
  LET hard == NotGreen(b) \ With(b, "Transient")
  IN  IF hard # {} THEN CheckFailed(FirstCheck(b, hard))
      ELSE IF With(b, "Transient") # {} THEN <<"RetryOnce">> ELSE Allowed

FeralPredicate(b) ==
  IF Required(b) = {} \/ Required(b) \cap With(b, "Green") # {}
  THEN Allowed ELSE BlockedBy("NoRequiredCheckGreen")

FastPredicate(b) ==
  LET failed == Required(b) \cap NotGreen(b)
  IN  IF failed = {} THEN Allowed ELSE CheckFailed(FirstCheck(b, failed))

\* Checks come before the procedural gates.
BureaucraticPredicate(b) ==
  IF NotGreen(b) # {} THEN CheckFailed(FirstCheck(b, NotGreen(b)))
  ELSE IF ~ b.reviewApproved THEN BlockedBy("ReviewNotApproved")
  ELSE IF ~ b.linkedIssueClosed THEN BlockedBy("LinkedIssueNotClosed")
  ELSE IF ~ b.adrPresent THEN BlockedBy("AdrNotPresent") ELSE Allowed

\* Mutant: under FERAL one green check will do, and none will not.
CanMergeFeralStrictly(b, preset) ==
  CASE preset = "Unhinged" -> Allowed
    [] preset = "Feral" -> IF Required(b) \cap With(b, "Green") # {}
                           THEN Allowed ELSE BlockedBy("NoRequiredCheckGreen")
    [] preset = "Fast" -> FastPredicate(b)
    [] preset = "Strict" -> StrictPredicate(b)
    [] preset = "Bureaucratic" -> BureaucraticPredicate(b)

CanMerge(b, preset) ==
  CASE preset = "Unhinged" -> Allowed
    [] preset = "Feral" -> FeralPredicate(b)
    [] preset = "Fast" -> FastPredicate(b)
    [] preset = "Strict" -> StrictPredicate(b)
    [] preset = "Bureaucratic" -> BureaucraticPredicate(b)

\* Mutant: pending outweighs failing.
RollupToCiPendingFirst(checks) ==
  LET some(S) == \E i \in DOMAIN checks : checks[i].conclusion \in S
  IN  IF checks = <<>> THEN "Unknown"
      ELSE IF \E i \in DOMAIN checks : checks[i].conclusion \notin Good \cup Bad /\ ~ checks[i].completed
      THEN "Pending" ELSE IF some(Bad) THEN "Failing" ELSE "Passing"

\* A conclusion the code does not know counts as good once the check is completed.
RollupToCi(checks) ==
  LET some(S) == \E i \in DOMAIN checks : checks[i].conclusion \in S
  IN  IF checks = <<>> THEN "Unknown" ELSE IF some(Bad) THEN "Failing"
      ELSE IF \E i \in DOMAIN checks : checks[i].conclusion \notin Good \cup Bad /\ ~ checks[i].completed
      THEN "Pending" ELSE "Passing"

-----------------------------------------------------------------------------

GateInit ==
  /\ branch = [checks |-> <<>>, reviewApproved |-> FALSE, linkedIssueClosed |-> FALSE, adrPresent |-> FALSE]
  /\ rollup = <<>>

Room == Len(branch.checks) + Len(rollup) < MaxChecks

AddCheck(status, required) ==
  /\ Room /\ UNCHANGED rollup
  /\ branch' = [branch EXCEPT !.checks = Append(@, [status |-> status, required |-> required])]

\* GitHub: a check that has a conclusion is completed.
Report(conclusion) ==
  /\ Room /\ UNCHANGED branch
  /\ rollup' = Append(rollup, [conclusion |-> conclusion, completed |-> conclusion # "none"])

Approve == ~ branch.reviewApproved /\ branch' = [branch EXCEPT !.reviewApproved = TRUE] /\ UNCHANGED rollup
CloseLinked == ~ branch.linkedIssueClosed /\ branch' = [branch EXCEPT !.linkedIssueClosed = TRUE] /\ UNCHANGED rollup
AddAdr == ~ branch.adrPresent /\ branch' = [branch EXCEPT !.adrPresent = TRUE] /\ UNCHANGED rollup

GateNext ==
  \/ \E st \in CheckStatuses, req \in BOOLEAN : AddCheck(st, req)
  \/ \E c \in Conclusions \cup {"none"} : Report(c)
  \/ Approve \/ CloseLinked \/ AddAdr

GateSpec == GateInit /\ [][GateNext]_gateVars

-----------------------------------------------------------------------------
(* Properties.                                                             *)

\* The detents stand in order: what a stricter preset lets through, every more
\* permissive one lets through.
StricterAllowsLess ==
  \A i, j \in DOMAIN Detents : i < j /\ CanMerge(branch, Detents[j]) = Allowed
                                 => CanMerge(branch, Detents[i]) = Allowed

\* While GitHub sticks to the conclusions the code lists, a status of Passing stands
\* on checks that all have a good one, and a failed check shows at once.
RollupTells ==
  (\A i \in DOMAIN rollup : rollup[i].conclusion \in Good \cup Bad \cup {"none"}) =>
    LET all(S) == \A i \in DOMAIN rollup : rollup[i].conclusion \in S
    IN  /\ RollupToCi(rollup) = "Passing" => rollup # <<>> /\ all(Good)
        /\ ~ all(Good \cup {"none"}) => RollupToCi(rollup) = "Failing"
=============================================================================
