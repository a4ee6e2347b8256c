-------------------------------- MODULE Setup --------------------------------
(***************************************************************************)
(* conductr setup: fourteen checks give a repository its level of          *)
(* maturity, and the wizard applies the fixes of those that failed when it *)
(* started, one after the other; an error of one ends the run.  People     *)
(* work on the repository at any time, a wizard that asks before each fix  *)
(* included.                                                               *)
(***************************************************************************)
EXTENDS Naturals, Sequences

CONSTANTS
  FirstProjects,  \* projects to start from
  PeopleWrite,    \* files that people may write
  SkillDirs       \* names of directories that skills/ may have

VARIABLES
  project,  \* what is in the repository, and which files people wrote (own)
  wizard    \* [at, mode, todo, alone]

setupVars == <<project, wizard>>

-----------------------------------------------------------------------------
(* What a project is, as far as the checks look.  Of a repository the       *)
(* branch is told: none is no repository, unborn one without a commit.      *)
(* links are the entries of ~/.claude for the directories of skills/.       *)
(* ignored are the lines of .gitignore, which reads as UTF-8 or not; own is *)
(* one that a person wrote.                                                *)

Files ==
  {"ci.yml", "claude.yml", "other.yml", "base.md", "CONTRIBUTING.md", "CODEOWNERS",
   ".github/CODEOWNERS", "docs/CODEOWNERS", "skills/", ".claude/agents/", "~/.claude"}

Projects ==
  [files : SUBSET Files, own : SUBSET Files, utf8 : BOOLEAN,
   ignored : SUBSET {"target/", ".conductr-local", "own"},
   git : {"none", "unborn", "main", "dev"}, skills : SUBSET SkillDirs,
   links : [SkillDirs -> {"absent", "here", "elsewhere", "real"}],
   schema : {"none", "bad", "ok"}]

\* What a person wrote is there.
ASSUME SetupAssumption ==
  /\ FirstProjects \subseteq Projects /\ PeopleWrite \subseteq Files
  /\ \A p \in FirstProjects : p.own \subseteq p.files

NoWizard == [at |-> "none", mode |-> "none", todo |-> {}, alone |-> TRUE]
Has(file) == file \in project.files

-----------------------------------------------------------------------------
(* The checks, on the project as it is.                                    *)

Check(id, fixable, passed) == [id |-> id, fixable |-> fixable, passed |-> passed]

CheckCiWorkflow ==
  Check("ci-workflow", TRUE, Has("ci.yml") \/ Has("claude.yml") \/ Has("other.yml"))
\* A .gitignore that does not read as text covers nothing.
Covers(line) == project.utf8 /\ line \in project.ignored
CheckGitignoreTarget == Check("gitignore-target", TRUE, Covers("target/"))
CheckGitignoreConductrLocal ==
  Check("gitignore-conductr-local", TRUE, Covers(".conductr-local"))
CheckDevBranch == Check("dev-branch", TRUE, project.git = "dev")
CheckDefaultBaseDev == Check("default-base-dev", FALSE, project.git = "dev")
CheckClaudeBaseMd == Check("claude-base-md", FALSE, Has("base.md"))
CheckContributing == Check("contributing-md", FALSE, Has("CONTRIBUTING.md"))
CheckCodeowners ==
  Check("codeowners", TRUE,
    Has("CODEOWNERS") \/ Has(".github/CODEOWNERS") \/ Has("docs/CODEOWNERS"))
CheckSkillMd == Check("skill-md", FALSE, project.skills # {})

\* A directory without SKILL.md does not count, and ~/.claude must be there for
\* a link to be looked at.
CheckSkillsInstalled ==
  Check("skills-installed", TRUE,
    /\ Has("skills/")
    /\ project.skills = {} \/ (Has("~/.claude") /\ \A s \in project.skills : project.links[s] = "here"))

CheckClaudeAgents == Check("claude-agents", FALSE, Has(".claude/agents/"))

\* The Claude GitHub App cannot be seen from here: its check fails.
CheckClaudeApp == Check("claude-app", TRUE, FALSE)
CheckClaudeWorkflow == Check("claude-workflow", TRUE, Has("claude.yml"))
CheckConductrSchema == Check("conductr-schema", FALSE, project.schema = "ok")

RunAll ==
  <<CheckCiWorkflow, CheckGitignoreTarget, CheckGitignoreConductrLocal, CheckDevBranch,
    CheckDefaultBaseDev, CheckClaudeBaseMd, CheckContributing, CheckCodeowners, CheckSkillMd,
    CheckSkillsInstalled, CheckClaudeAgents, CheckClaudeApp, CheckClaudeWorkflow,
    CheckConductrSchema>>

\* Checks are known by their place; what one is called and whether there is a
\* fix for it never changes.
FailedChecks == {i \in DOMAIN RunAll : ~ RunAll[i].passed}

-----------------------------------------------------------------------------
(* The fixes: what the project becomes, or an error.                       *)

Failure == [failed |-> TRUE]

\* fs::write, whatever is there.
Write(file) == [project EXCEPT !.files = @ \cup {file}, !.own = @ \ {file}]

AddCiWorkflow == Write("ci.yml")
AddCodeowners == Write("CODEOWNERS")
AddClaudeWorkflow == Write("claude.yml")

\* It prints where to go.
InstallClaudeApp == project

\* Mutant: the new line is all that is written.
AppendIgnoreAlone(line) == [project EXCEPT !.ignored = {line}, !.utf8 = TRUE]

\* What .gitignore has now stays, whatever it had when the check ran; one that
\* does not read as text is taken for empty, and written over.
AppendIgnore(line) ==
  [project EXCEPT !.utf8 = TRUE,
                  !.ignored = (IF project.utf8 THEN @ ELSE {}) \cup {line}]

\* git checkout -b dev: with no commit yet HEAD moves, but there is no ref.
InitGitFlow ==
  IF project.git = "none" THEN Failure
  ELSE IF project.git = "main" THEN [project EXCEPT !.git = "dev"] ELSE project

\* A link that leads elsewhere is replaced by force only, what is no link never.
InstallSkills(force) ==
  IF ~ Has("skills/") THEN Failure
  ELSE [project EXCEPT
          !.files = @ \cup {"~/.claude"},
          !.links = [s \in SkillDirs |->
            IF s \in project.skills /\ (@[s] = "absent" \/ (force /\ @[s] = "elsewhere"))
            THEN "here" ELSE @[s]]]

ApplyFix(id) ==
  CASE id = "ci-workflow" -> AddCiWorkflow
    [] id = "gitignore-target" -> AppendIgnore("target/")
    [] id = "gitignore-conductr-local" -> AppendIgnore(".conductr-local")
    [] id = "dev-branch" -> InitGitFlow
    [] id = "codeowners" -> AddCodeowners
    [] id = "claude-workflow" -> AddClaudeWorkflow
    [] id = "skills-installed" -> InstallSkills(FALSE)
    [] id = "claude-app" -> InstallClaudeApp

\* --dry-run changes nothing; reading skills/ may still fail.
DryFix(id) == IF id = "skills-installed" /\ ~ Has("skills/") THEN Failure ELSE project

-----------------------------------------------------------------------------

SetupInit == project \in FirstProjects /\ wizard = NoWizard

Modes == {"ask", "all", "dry"}

\* Mutant: every check that has a fix is fixed, passed or not.
StartWizardAll(mode) ==
  /\ wizard.at = "none" /\ UNCHANGED project
  /\ wizard' = [at |-> "fix", mode |-> mode, alone |-> TRUE,
                todo |-> {i \in DOMAIN RunAll : RunAll[i].fixable}]

StartWizard(mode) ==
  /\ wizard.at = "none" /\ FailedChecks # {} /\ UNCHANGED project
  /\ wizard' = [at |-> "fix", mode |-> mode, alone |-> TRUE, todo |-> FailedChecks]

\* Of the checks that failed the next in their order.
NextFix == RunAll[CHOOSE i \in wizard.todo : \A j \in wizard.todo : i <= j]
Rest == {j \in wizard.todo : \E i \in wizard.todo : i < j}

\* The next fix; in the mode that asks the answer may be no.
FixNext ==
  /\ wizard.at = "fix" /\ wizard.todo # {} /\ NextFix.fixable
  /\ LET id == NextFix.id
         next == IF wizard.mode = "dry" THEN DryFix(id) ELSE ApplyFix(id)
     IN  IF next = Failure THEN wizard' = NoWizard /\ UNCHANGED project
         ELSE project' = next /\ wizard' = [wizard EXCEPT !.todo = Rest]

PassOverFix ==
  /\ wizard.at = "fix" /\ wizard.todo # {}
  /\ ~ NextFix.fixable \/ wizard.mode = "ask"
  /\ wizard' = [wizard EXCEPT !.todo = Rest] /\ UNCHANGED project

\* The checks run again and the report is printed.
FinishWizard ==
  /\ wizard.at = "fix" /\ wizard.todo = {}
  /\ wizard' = NoWizard /\ UNCHANGED project

\* setup install-skills, which another terminal may run.
InstallSkillsCommand(force) ==
  /\ InstallSkills(force) # Failure /\ project' = InstallSkills(force) /\ UNCHANGED wizard

\* External: people write files, .gitignore too, commit, write skills and link them.
People(next) ==
  /\ project' = next /\ next # project
  /\ wizard' = IF wizard.at = "none" THEN wizard ELSE [wizard EXCEPT !.alone = FALSE]

PersonWrites(file) == People([project EXCEPT !.files = @ \cup {file}, !.own = @ \cup {file}])
PersonCommits == project.git = "unborn" /\ People([project EXCEPT !.git = "main"])
PersonAddsSkill(s) ==
  People([project EXCEPT !.files = @ \cup {"skills/"}, !.skills = @ \cup {s}])
PersonLinks(s) == project.links[s] = "absent" /\ People([project EXCEPT !.links[s] = "elsewhere"])
PersonIgnores(utf8) == People([project EXCEPT !.ignored = @ \cup {"own"}, !.utf8 = utf8])

SetupNext ==
  \/ \E mode \in Modes : StartWizard(mode)
  \/ FixNext \/ PassOverFix \/ FinishWizard
  \/ \E force \in BOOLEAN : InstallSkillsCommand(force)
  \/ \E file \in PeopleWrite : PersonWrites(file)
  \/ PersonCommits \/ \E utf8 \in BOOLEAN : PersonIgnores(utf8)
  \/ \E s \in SkillDirs : PersonAddsSkill(s) \/ PersonLinks(s)

SetupSpec == SetupInit /\ [][SetupNext]_setupVars

-----------------------------------------------------------------------------
(* Properties.                                                             *)

\* A wizard that nobody works beside never writes over a workflow or CODEOWNERS
\* of a person: a fix that writes a whole file comes only after a check that
\* looked for it.  Nor does it lose a line of a .gitignore that reads as UTF-8.
\* One that does not read is replaced by the line the fix adds, and the condition
\* leaves that case out: no check stands before it.
LoneWizardKeepsOwn ==
  [][wizard.at = "fix" /\ wizard.alone =>
       /\ project.own \subseteq project'.own
       /\ project.utf8 => project.ignored \subseteq project'.ignored]_setupVars

\* A run of all fixes that comes to its end with nobody beside it leaves failing,
\* of what it can fix, the app, a dev branch that wants a first commit and links
\* that somebody else made: no fix undoes another.
FullRunFixes ==
  wizard.at = "fix" /\ wizard.mode = "all" /\ wizard.alone /\ wizard.todo = {} =>
    \A i \in DOMAIN RunAll : RunAll[i].fixable /\ ~ RunAll[i].passed =>
      \/ RunAll[i].id = "claude-app"
      \/ RunAll[i].id = "dev-branch" /\ project.git = "unborn"
      \/ RunAll[i].id = "skills-installed" /\ \E s \in project.skills : project.links[s] \in {"elsewhere", "real"}
=============================================================================
