------------------------------- MODULE Policy -------------------------------
(***************************************************************************)
(* The pure decisions the orchestrator takes on a snapshot of the          *)
(* repository: which safety preset governs an issue, what the sibling pull *)
(* requests say, whether an issue is dispatched, deferred or dispatched    *)
(* with a notice, and which CI status a pull request is given when local   *)
(* and GitHub results disagree.                                            *)
(***************************************************************************)

\* SafetyPreset (None stands for Option::None).
Presets == {"Unhinged", "Feral", "Fast", "Strict", "Bureaucratic"}
NoPreset == "NoPreset"

\* CiStatus and CiMode.
CiStatuses == {"Passing", "Failing", "Pending", "Unknown"}
CiModes == {"Local", "PreferLocal", "PreferGithub", "Github"}

\* MaturityLevel, lowest first.
MaturityLevels == {"L0", "L1", "L2", "L3", "L4", "L5"}

-----------------------------------------------------------------------------

\* The per-issue label wins, then the configured preset, then the default of
\* the maturity level; no maturity level defaults to Strict or Bureaucratic.
ResolvePreset(maturity, cfg, routine) ==
  CASE routine # NoPreset -> routine
    [] routine = NoPreset /\ cfg # NoPreset -> cfg
    [] OTHER -> CASE maturity \in {"L0", "L1"} -> "Unhinged"
                  [] maturity = "L2" -> "Feral"
                  [] OTHER -> "Fast"

\* Mutant: in Local mode an inconclusive local run stays inconclusive.
ResolveCiLenient(mode, local, github) ==
  CASE mode = "Local" -> local
    [] mode = "PreferLocal" -> IF local = "Unknown" THEN github ELSE local
    [] mode = "PreferGithub" ->
         IF github \in {"Passing", "Failing"} THEN github ELSE local
    [] OTHER -> github

\* The CI status a pull request is given when a local run reported `local'
\* and GitHub reports `github'.
ResolveCi(mode, local, github) ==
  CASE mode = "Local" -> IF local = "Unknown" THEN "Failing" ELSE local
    [] mode = "PreferLocal" -> IF local = "Unknown" THEN github ELSE local
    [] mode = "PreferGithub" ->
         IF github \in {"Passing", "Failing"} THEN github ELSE local
    [] OTHER -> github

\* The sibling pull requests taken together: red beats amber beats green.
\* `statuses' is the set of their CI statuses.
SiblingStatus(statuses) ==
  CASE "Failing" \in statuses -> "Red"
    [] "Failing" \notin statuses
         /\ statuses \cap {"Pending", "Unknown"} # {} -> "Amber"
    [] OTHER -> "Green"

\* What to do with a Ready issue under `preset'; `expired' says that the
\* soft chord has already held it back for soft_chord_timeout.
Decide(preset, statuses, expired) ==
  CASE preset = "Feral" /\ statuses # {} -> "DispatchWithYell"
    [] preset = "Fast" /\ statuses # {} -> "DispatchWithAdvisory"
    [] preset = "Strict" /\ SiblingStatus(statuses) = "Amber" /\ ~expired
         -> "Defer"
    [] OTHER -> "Dispatch"
=============================================================================
