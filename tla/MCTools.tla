------------------------------ MODULE MCTools -------------------------------
(***************************************************************************)
(* What stands around the loop, for one run: one process after another     *)
(* does passes; dependencies are sorted, plans written and read as scores, *)
(* local CI run, tempo rated, idle scans made and judged, merges gated,     *)
(* skills compared with the command line, mail sent and read, a project set *)
(* up.  They share no state, so a behaviour is one of a single part, and   *)
(* the others stay as they began.                                          *)
(***************************************************************************)
EXTENDS MCOrchestrate, DepGraph, Schedule, Tempo, IdleScan, MergeGate, Parity, LocalCi,
        Mailbox, Setup, IdlePass

VARIABLE part

ToolVars == <<part, vars, graphVars, scoreVars, rows, scan, gateVars, parityVars, ciVars,
              mailVars, setupVars, idleVars>>

-----------------------------------------------------------------------------
(* Values of the constants.                                                *)

Tuplet(len, tag, parts) == [len |-> len, tag |-> tag, parts |-> parts]

\* No bar, single notes, and brackets inside brackets, some of them too full.
HandTyped ==
  {<<>>, <<Note(0, "")>>, <<Note(16, "a")>>, <<Note(32, "g")>>,
   <<Note(8, "a"), Tuplet(8, "b", <<Note(4, "c"), Tuplet(4, "d", <<Note(2, "e"), Note(2, "f")>>)>>)>>,
   <<Tuplet(16, "b", <<Note(8, "c"), Note(4, "c")>>)>>,
   <<Tuplet(16, "b", <<Note(8, "c"), Tuplet(8, "d", <<Note(2, "e"), Note(2, "f")>>)>>)>>}

Row(complexity, age, duration, merged) ==
  [complexity |-> complexity, age |-> age, duration |-> duration, merged |-> merged]

ShortHistory ==
  {Row("XS", 0, 1, TRUE), Row("XS", 1, 3, TRUE), Row("S", 0, 3, TRUE), Row("S", 1, 1, TRUE),
   Row("M", 0, 1, TRUE), Row("M", 1, 3, TRUE),
   Row("M", 3, 9, TRUE), Row("M", 0, 9, FALSE), Row("M", 0, 0, TRUE)}

Project(have, ignored, utf8, git, dirs, schema) ==
  [files |-> have, own |-> have, ignored |-> ignored, utf8 |-> utf8, git |-> git, skills |-> dirs,
   links |-> [s \in SkillDirs |-> IF s \in dirs /\ git = "dev" THEN "here" ELSE "absent"],
   schema |-> schema]

\* A new directory, a project half set up whose .gitignore is no text, and a
\* complete one.
ThreeProjects ==
  {Project({}, {}, TRUE, "unborn", {}, "none"),
   Project({"other.yml", "skills/"}, {"target/", "own"}, FALSE, "main", {"s"}, "bad"),
   Project({"ci.yml", "claude.yml", ".github/CODEOWNERS", "base.md", "CONTRIBUTING.md",
            "skills/", "~/.claude", ".claude/agents/"},
           {"target/", ".conductr-local"}, TRUE, "dev", {"s"}, "ok")}

\* A slash is a dash in a path.
OneName == [b \in Branches |-> "a-b"]

ThreeCrates == <<"pod", "tasks", "mail">>

\* Found by a rule everywhere, by clippy and by llvm-cov in a crate's turn.
OneOfEachKind ==
  {<<"dep", "conductr-core", "hyper">>, <<"clippy", "pod", "lint">>, <<"cover", "tasks", "file">>}

-----------------------------------------------------------------------------

AllParts == {"loop", "graph", "score", "tempo", "scan", "gate", "parity", "ci", "mail", "setup",
             "idle"}

ToolInit ==
  /\ part \in AllParts
  /\ Init /\ GraphInit /\ ScoreInit /\ TempoInit /\ ScanInit /\ GateInit /\ ParityInit
  /\ CiInit /\ MailInit /\ SetupInit /\ IdleInit
  /\ part # "scan" => scan.kind = "glob"
  /\ part # "parity" => \A d \in SkillFiles : skills[d].name = "command"
  /\ part # "setup" => project = CHOOSE p \in FirstProjects : TRUE
  /\ part # "idle" => lastModule = ""

\* Every part but p, which stays the part of the behaviour, is left alone.
Only(p) ==
  /\ part = p /\ UNCHANGED part
  /\ p # "loop" => UNCHANGED vars
  /\ p # "graph" => UNCHANGED graphVars
  /\ p # "score" => UNCHANGED scoreVars
  /\ p # "tempo" => UNCHANGED rows
  /\ p # "scan" => UNCHANGED scan
  /\ p # "gate" => UNCHANGED gateVars
  /\ p # "parity" => UNCHANGED parityVars
  /\ p # "ci" => UNCHANGED ciVars
  /\ p # "mail" => UNCHANGED mailVars
  /\ p # "setup" => UNCHANGED setupVars
  /\ p # "idle" => UNCHANGED idleVars

ToolNext ==
  \/ Only("loop") /\ Next
  \/ Only("graph") /\ GraphNext
  \/ Only("score") /\ ScoreNext
  \/ Only("tempo") /\ TempoNext
  \/ Only("scan") /\ ScanNext
  \/ Only("gate") /\ GateNext
  \/ Only("parity") /\ ParityNext
  \/ Only("ci") /\ CiNext
  \/ Only("mail") /\ MailNext
  \/ Only("setup") /\ SetupNext
  \/ Only("idle") /\ IdleNext

ToolSpec == ToolInit /\ [][ToolNext]_ToolVars
=============================================================================
