------------------------------- MODULE IdlePass -------------------------------
(***************************************************************************)
(* Idle passes over a workspace: each checks the rules of the architecture *)
(* everywhere and looks with clippy and llvm-cov at one use-case crate,    *)
(* the next in turn, files what it finds under a fingerprint and, last,    *)
(* writes down which crate it was.  The order of the phases and the filing *)
(* are the idle skill's.  A pass may die, and then nothing is written.     *)
(***************************************************************************)
EXTENDS Naturals, Sequences, FiniteSets

CONSTANTS
  UseCaseCrates,  \* USE_CASE_CRATES, in order
  HasLlvmCov,     \* whether cargo llvm-cov is installed
  CorrectDeps,    \* edges <<crate, dependency>> that no rule forbids
  Defects         \* what may turn up: <<"dep", crate, dependency>>,
                  \* <<"clippy", crate, site>>, <<"cover", crate, file>>

VARIABLES
  defects,     \* what is wrong at present
  lastModule,  \* [idle].last_module, or ""
  idlePass,    \* [at, module, found] of the pass that is under way
  issues,      \* fingerprints of the open issues
  turns        \* history: passes that have ended since a defect slipped in

idleVars == <<defects, lastModule, idlePass, issues, turns>>

CrateSet == {UseCaseCrates[i] : i \in DOMAIN UseCaseCrates}
NoIdlePass == [at |-> "none"]

\* has_dep_with_feature: tokio's process is a dependency of its own here.
IoDenyDeps == {"reqwest", "hyper", "tokio/process"}

\* What the rules forbid.
RuleDefects ==
  {<<"dep", c, "conductr-adapters">> : c \in CrateSet}
    \cup {<<"dep", "conductr-adapters", c>> : c \in CrateSet}
    \cup {<<"dep", "conductr-core", d>> : d \in IoDenyDeps}

ASSUME IdleAssumption ==
  /\ Len(UseCaseCrates) \in Nat \ {0} /\ DOMAIN UseCaseCrates = 1..Len(UseCaseCrates)
  /\ \A i, j \in DOMAIN UseCaseCrates : UseCaseCrates[i] = UseCaseCrates[j] => i = j
  /\ \A d \in Defects : d \in RuleDefects \/ (d[1] \in {"clippy", "cover"} /\ d[2] \in CrateSet)

\* Mutant: the last crate is followed by itself.
PickModuleToEnd(last) ==
  IF last \notin CrateSet THEN UseCaseCrates[1]
  ELSE LET pos == CHOOSE i \in DOMAIN UseCaseCrates : UseCaseCrates[i] = last
       IN  UseCaseCrates[IF pos < Len(UseCaseCrates) THEN pos + 1 ELSE pos]

PickModule(last) ==
  IF last \notin CrateSet THEN UseCaseCrates[1]
  ELSE LET pos == CHOOSE i \in DOMAIN UseCaseCrates : UseCaseCrates[i] = last
       IN  UseCaseCrates[(pos % Len(UseCaseCrates)) + 1]

\* has_dep: a dependency of any of the three kinds.
HasDep(crate, dep) == <<crate, dep>> \in CorrectDeps \/ <<"dep", crate, dep>> \in defects

CheckRule1 == {<<"dep", c, "conductr-adapters">> : c \in {d \in CrateSet : HasDep(d, "conductr-adapters")}}
CheckRule3 == {<<"dep", "conductr-adapters", c>> : c \in {d \in CrateSet : HasDep("conductr-adapters", d)}}
CheckRule4 == {<<"dep", "conductr-core", d>> : d \in {e \in IoDenyDeps : HasDep("conductr-core", e)}}

\* One finding for each lint and place.
ParseClippyOutput(crate) == {d \in defects : d[1] = "clippy" /\ d[2] = crate}

\* Files of the crate that no pattern excludes and that are below the threshold.
ParseCoverageOutput(crate) == {d \in defects : d[1] = "cover" /\ d[2] = crate}

IdleInit ==
  /\ defects = {} /\ lastModule \in CrateSet \cup {"", "gone"}
  /\ idlePass = NoIdlePass /\ issues = {}
  /\ turns = [d \in Defects |-> 0]

BeginPass ==
  /\ idlePass.at = "none"
  /\ idlePass' = [at |-> "rules", module |-> PickModule(lastModule), found |-> {}]
  /\ UNCHANGED <<defects, lastModule, issues, turns>>

Phase(at, next, findings) ==
  /\ idlePass.at = at
  /\ idlePass' = [idlePass EXCEPT !.at = next, !.found = @ \cup findings]
  /\ UNCHANGED <<defects, lastModule, issues, turns>>

ScanRules == Phase("rules", "clippy", CheckRule1 \cup CheckRule3 \cup CheckRule4)
RunClippy == Phase("clippy", "coverage", ParseClippyOutput(idlePass.module))

\* Where cargo llvm-cov is not installed the phase is skipped.
RunCoverageScan ==
  Phase("coverage", "file", IF HasLlvmCov THEN ParseCoverageOutput(idlePass.module) ELSE {})

\* The skill files what has no open issue with its fingerprint.
FileFindings ==
  /\ idlePass.at = "file" /\ issues' = issues \cup idlePass.found
  /\ idlePass' = [idlePass EXCEPT !.at = "write"]
  /\ UNCHANGED <<defects, lastModule, turns>>

\* (The count of the history stops where the property would be lost.)
EndIdlePass ==
  /\ idlePass.at = "write" /\ lastModule' = idlePass.module /\ idlePass' = NoIdlePass
  /\ turns' = [d \in Defects |-> IF d \in defects \ issues /\ turns[d] <= Len(UseCaseCrates)
                                THEN turns[d] + 1 ELSE turns[d]]
  /\ UNCHANGED <<defects, issues>>

IdlePassDies ==
  /\ idlePass.at # "none" /\ idlePass' = NoIdlePass
  /\ UNCHANGED <<defects, lastModule, issues, turns>>

\* External: code changes, and issues are worked off.
Slip(d) ==
  /\ d \notin defects /\ d \notin issues /\ defects' = defects \cup {d}
  /\ turns' = [turns EXCEPT ![d] = 0] /\ UNCHANGED <<lastModule, idlePass, issues>>

Mend(d) ==
  /\ d \in defects /\ defects' = defects \ {d} /\ issues' = issues \ {d}
  /\ turns' = [turns EXCEPT ![d] = 0] /\ UNCHANGED <<lastModule, idlePass>>

IdleNext ==
  \/ BeginPass \/ ScanRules \/ RunClippy \/ RunCoverageScan
  \/ FileFindings \/ EndIdlePass \/ IdlePassDies
  \/ \E d \in Defects : Slip(d) \/ Mend(d)

IdleSpec == IdleInit /\ [][IdleNext]_idleVars

-----------------------------------------------------------------------------
\* What stays wrong has an issue when every crate has had its turn, whatever
\* crate it is in: the turn goes on from the crate on file, although passes die
\* and the crate on file may be one that is gone.  A defect may slip in behind
\* the phase that would see it, so the pass it slipped into does not count.
EveryDefectFiled ==
  \A d \in {e \in Defects : e[1] # "cover" \/ HasLlvmCov} :
    d \in defects \ issues => turns[d] <= Len(UseCaseCrates)
=============================================================================
