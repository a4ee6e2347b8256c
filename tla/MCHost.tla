------------------------------- MODULE MCHost -------------------------------
(***************************************************************************)
(* What conductr keeps on a host and in a checkout, for one run: a dry run *)
(* of the loop, the schedule, the calendar, the skills' sessions,          *)
(* .conductr, the binary and the dashboard.  They share no state, so a     *)
(* behaviour is one of a single part, and the others stay as they began.   *)
(***************************************************************************)
EXTENDS MCOrchestrate, MCCadence, MCCalendar, Skills, ProjectFile, SelfUpdate,
        Dashboard

VARIABLE part

HostVars == <<part, vars, cadVars, barMech, calVars, skillVars, fileVars, updVars, dashVars>>

-----------------------------------------------------------------------------
(* Values of the constants.                                                *)

\* The commands share one session here (each has its own, the architect's three
\* share theirs): commands on different sessions do not meet.
OneSession ==
  [c \in {"idle", "change-overview", "human-ticket-draft", "human-ticket-close",
          "review", "security-review", "plan"} |-> "architect"]

\* One more than the cap.
ThreeQa == <<"qa1", "qa2", "qa3">>

OneProjectFile ==
  { << <<"=", "project_tag", "tag">>, <<"[", "cadence">>, <<"=", "orchestrate", "x">>,
       <<"[", "idle">>, <<"=", "coverage_threshold", "x">> >> }

-----------------------------------------------------------------------------

AllParts == {"loop", "cadence", "calendar", "skills", "file", "update", "dashboard"}

HostInit ==
  /\ part \in AllParts
  /\ Init /\ MCCadInit /\ CalInit /\ SkillInit /\ FileInit /\ UpdInit /\ DashInit
  /\ part # "cadence" => barMech = "crontab"
  /\ part # "skills" => shown = [s \in SkillSessions |-> "absent"]
  /\ part # "calendar" => calEvents = CHOOSE c \in FirstEvents : TRUE

\* Every part but p, which stays the part of the behaviour, is left alone.
Only(p) ==
  /\ part = p /\ UNCHANGED part
  /\ p # "loop" => UNCHANGED vars
  /\ p # "cadence" => UNCHANGED <<cadVars, barMech>>
  /\ p # "calendar" => UNCHANGED calVars
  /\ p # "skills" => UNCHANGED skillVars
  /\ p # "file" => UNCHANGED fileVars
  /\ p # "update" => UNCHANGED updVars
  /\ p # "dashboard" => UNCHANGED dashVars

HostNext ==
  \/ Only("loop") /\ Next
  \/ Only("cadence") /\ MCCadNext
  \/ Only("calendar") /\ CalNext
  \/ Only("skills") /\ SkillNext
  \/ Only("file") /\ FileNext
  \/ Only("update") /\ UpdNext
  \/ Only("dashboard") /\ DashNext

HostSpec == HostInit /\ [][HostNext]_HostVars
=============================================================================
