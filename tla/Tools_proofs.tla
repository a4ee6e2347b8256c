----------------------------- MODULE Tools_proofs -----------------------------
(***************************************************************************)
(* Proofs about Setup, IdlePass, Mailbox, Parity and IdleScan: what the    *)
(* wizard keeps and what it leaves failing, that every defect gets its     *)
(* issue in a round of passes, that a delivered claim is seen, and that    *)
(* the flags, panes, ranges and patterns of the idle pass are what their   *)
(* reference definitions say.                                              *)
(***************************************************************************)
EXTENDS Setup, IdlePass, Mailbox, Parity, IdleScan,
        TLAPS, WellFoundedInduction, NaturalsInduction, FiniteSetTheorems, SequenceTheorems

-----------------------------------------------------------------------------
(* Setup.                                                                  *)

\* Types, and that what a person wrote is there.
SetupTypes ==
  /\ project \in Projects /\ project.own \subseteq project.files
  /\ wizard \in [at : {"none", "fix"}, mode : Modes \cup {"none"}, todo : SUBSET (1..14),
                 alone : BOOLEAN]

\* What is still to be fixed is no file that a person wrote.
LoneInv ==
  wizard.at = "fix" /\ wizard.alone =>
    /\ 1 \in wizard.todo => "ci.yml" \notin project.own
    /\ 8 \in wizard.todo => "CODEOWNERS" \notin project.own
    /\ 13 \in wizard.todo => "claude.yml" \notin project.own

\* In a run of all fixes what is not to be fixed any more passes, or may fail.
FixedInv ==
  wizard.at = "fix" /\ wizard.mode = "all" /\ wizard.alone =>
    /\ 1 \in wizard.todo \/ CheckCiWorkflow.passed
    /\ 2 \in wizard.todo \/ CheckGitignoreTarget.passed
    /\ 3 \in wizard.todo \/ CheckGitignoreConductrLocal.passed
    /\ 4 \in wizard.todo \/ CheckDevBranch.passed \/ project.git = "unborn"
    /\ 8 \in wizard.todo \/ CheckCodeowners.passed
    /\ \/ 10 \in wizard.todo \/ CheckSkillsInstalled.passed
       \/ \E s \in project.skills : project.links[s] \in {"elsewhere", "real"}
    /\ 13 \in wizard.todo \/ CheckClaudeWorkflow.passed

SetupInv == SetupTypes /\ LoneInv /\ FixedInv

\* Each check by its place in run_all.
LEMMA RunAllIs ==
  /\ DOMAIN RunAll = 1..14
  /\ RunAll[1] = CheckCiWorkflow /\ RunAll[2] = CheckGitignoreTarget
  /\ RunAll[3] = CheckGitignoreConductrLocal /\ RunAll[4] = CheckDevBranch
  /\ RunAll[5] = CheckDefaultBaseDev /\ RunAll[6] = CheckClaudeBaseMd
  /\ RunAll[7] = CheckContributing /\ RunAll[8] = CheckCodeowners
  /\ RunAll[9] = CheckSkillMd /\ RunAll[10] = CheckSkillsInstalled
  /\ RunAll[11] = CheckClaudeAgents /\ RunAll[12] = CheckClaudeApp
  /\ RunAll[13] = CheckClaudeWorkflow /\ RunAll[14] = CheckConductrSchema
BY DEF RunAll

\* A set of numbers has a least one.
LEMMA LeastOf ==
  ASSUME NEW S \in SUBSET Nat, S # {}
  PROVE  \E k \in S : \A j \in S : ~ (j < k)
<1>1. PICK k \in S : \A j \in S : <<j, k>> \notin OpToRel(<, Nat)
  BY NatLessThanWellFounded, WFMin, Zenon
<1>2. ASSUME NEW j \in S PROVE ~ (j < k)
  BY <1>1 DEF OpToRel
<1> QED BY <1>2

\* The wizard takes the first of the checks that are left.
LEMMA NextIs ==
  ASSUME SetupTypes, wizard.todo # {}
  PROVE  \E k \in wizard.todo : NextFix = RunAll[k] /\ Rest = wizard.todo \ {k}
<1> DEFINE T == wizard.todo
<1>1. T \in SUBSET (1..14) BY DEF SetupTypes
<1>2. PICK m \in T : \A j \in T : ~ (j < m) BY <1>1, LeastOf
<1>3. \A j \in T : m <= j BY <1>1, <1>2
<1> DEFINE k == CHOOSE i \in T : \A j \in T : i <= j
<1>4. k \in T /\ \A j \in T : k <= j BY <1>3
<1>5. Rest = T \ {k} BY <1>1, <1>4 DEF Rest
<1> QED BY <1>4, <1>5 DEF NextFix

LEMMA SetupInitOK == SetupInit => SetupInv
<1> SUFFICES ASSUME SetupInit PROVE SetupInv OBVIOUS
<1>1. SetupTypes
  BY SetupAssumption DEF SetupInit, SetupTypes, NoWizard
<1>2. LoneInv /\ FixedInv BY DEF SetupInit, NoWizard, LoneInv, FixedInv
<1> QED BY <1>1, <1>2 DEF SetupInv

LEMMA StartOK ==
  ASSUME SetupInv, NEW mode \in Modes, StartWizard(mode)
  PROVE  SetupInv'
<1>1. wizard' = [at |-> "fix", mode |-> mode, alone |-> TRUE, todo |-> FailedChecks]
      /\ project' = project
  BY DEF StartWizard
<1>2. \A i \in 1..14 : i \in FailedChecks <=> ~ RunAll[i].passed
  BY RunAllIs DEF FailedChecks
<1>3. FailedChecks \in SUBSET (1..14) BY RunAllIs, <1>2 DEF FailedChecks
<1>4. SetupTypes' BY <1>1, <1>3 DEF SetupInv, SetupTypes
<1>5. LoneInv'
  <2>1. /\ 1 \in FailedChecks => ~ CheckCiWorkflow.passed
        /\ 8 \in FailedChecks => ~ CheckCodeowners.passed
        /\ 13 \in FailedChecks => ~ CheckClaudeWorkflow.passed
    BY <1>2, RunAllIs
  <2>2. /\ 1 \in FailedChecks => "ci.yml" \notin project.files
        /\ 8 \in FailedChecks => "CODEOWNERS" \notin project.files
        /\ 13 \in FailedChecks => "claude.yml" \notin project.files
    BY <2>1 DEF CheckCiWorkflow, CheckCodeowners, CheckClaudeWorkflow, Check, Has
  <2> QED BY <1>1, <2>2 DEF SetupInv, SetupTypes, LoneInv
<1>6. FixedInv'
  <2>1. /\ 1 \in FailedChecks \/ CheckCiWorkflow.passed
        /\ 2 \in FailedChecks \/ CheckGitignoreTarget.passed
        /\ 3 \in FailedChecks \/ CheckGitignoreConductrLocal.passed
        /\ 4 \in FailedChecks \/ CheckDevBranch.passed
        /\ 8 \in FailedChecks \/ CheckCodeowners.passed
        /\ 10 \in FailedChecks \/ CheckSkillsInstalled.passed
        /\ 13 \in FailedChecks \/ CheckClaudeWorkflow.passed
    BY <1>2, RunAllIs
  <2> QED
    BY <1>1, <2>1 DEF FixedInv, CheckCiWorkflow, CheckGitignoreTarget,
       CheckGitignoreConductrLocal, CheckDevBranch, CheckCodeowners, CheckSkillsInstalled,
       CheckClaudeWorkflow, Check, Has, Covers
<1> QED BY <1>4, <1>5, <1>6 DEF SetupInv

\* What a lone wizard leaves: the files people wrote, and the lines of a .gitignore
\* that reads as text.
Theirs(next) ==
  /\ project.own \subseteq next.own
  /\ project.utf8 => project.ignored \subseteq next.ignored

\* A project that a fix or a command makes of this one: nothing that passes fails
\* afterwards, and no file becomes a person's.
Keeps(next) ==
  /\ next \in Projects /\ next.own \subseteq project.own /\ project.files \subseteq next.files
  /\ next.own \subseteq next.files
  /\ project.utf8 => next.utf8 /\ project.ignored \subseteq next.ignored
  /\ next.skills = project.skills
  /\ project.git = "dev" => next.git = "dev"
  /\ project.git = "unborn" => next.git = "unborn"
  /\ \A s \in SkillDirs : project.links[s] = "here" => next.links[s] = "here"

LEMMA WriteKeeps ==
  ASSUME SetupTypes, NEW file \in Files
  PROVE  /\ Keeps(Write(file)) /\ file \in Write(file).files
         /\ Write(file).links = project.links /\ Write(file).git = project.git
BY DEF SetupTypes, Projects, Keeps, Write

LEMMA IgnoreKeeps ==
  ASSUME SetupTypes, NEW line \in {"target/", ".conductr-local"}
  PROVE  /\ Keeps(AppendIgnore(line)) /\ line \in AppendIgnore(line).ignored
         /\ AppendIgnore(line).utf8
         /\ AppendIgnore(line).own = project.own
         /\ AppendIgnore(line).links = project.links /\ AppendIgnore(line).git = project.git
BY DEF SetupTypes, Projects, Keeps, AppendIgnore

LEMMA FlowKeeps ==
  ASSUME SetupTypes, InitGitFlow # Failure
  PROVE  /\ Keeps(InitGitFlow) /\ InitGitFlow.own = project.own
         /\ InitGitFlow.links = project.links
         /\ InitGitFlow.git = "dev" \/ InitGitFlow.git = "unborn"
BY DEF SetupTypes, Projects, Keeps, InitGitFlow

LEMMA SkillsType ==
  ASSUME NEW p \in Projects,
         NEW links \in [SkillDirs -> {"absent", "here", "elsewhere", "real"}]
  PROVE  [p EXCEPT !.files = @ \cup {"~/.claude"}, !.links = links] \in Projects
<1>1. p.files \cup {"~/.claude"} \in SUBSET Files BY DEF Projects, Files
<1> QED BY <1>1 DEF Projects

LEMMA SkillsKeep ==
  ASSUME SetupTypes, NEW force \in BOOLEAN, InstallSkills(force) # Failure
  PROVE  /\ Keeps(InstallSkills(force)) /\ InstallSkills(force).own = project.own
         /\ InstallSkills(force).git = project.git
         /\ {"skills/", "~/.claude"} \subseteq InstallSkills(force).files
         /\ \A s \in project.skills :
              InstallSkills(force).links[s] \in {"here", "elsewhere", "real"}
<1> DEFINE new(s) == IF s \in project.skills /\ (project.links[s] = "absent"
                          \/ (force /\ project.links[s] = "elsewhere"))
                     THEN "here" ELSE project.links[s]
           links == [s \in SkillDirs |-> new(s)]
           next == [project EXCEPT !.files = @ \cup {"~/.claude"}, !.links = links]
<1>1. Has("skills/") /\ InstallSkills(force) = next BY DEF InstallSkills
<1>2. /\ project \in Projects /\ project.own \subseteq project.files
      /\ project.skills \subseteq SkillDirs
      /\ \A s \in SkillDirs : project.links[s] \in {"absent", "here", "elsewhere", "real"}
  BY DEF SetupTypes, Projects
<1>3. links \in [SkillDirs -> {"absent", "here", "elsewhere", "real"}]
  BY <1>2
<1>4. /\ \A s \in SkillDirs : project.links[s] = "here" => new(s) = "here"
      /\ \A s \in project.skills : new(s) \in {"here", "elsewhere", "real"}
  BY <1>2
<1>5. /\ next.files = project.files \cup {"~/.claude"} /\ next.own = project.own
      /\ next.ignored = project.ignored /\ next.utf8 = project.utf8
      /\ next.git = project.git
      /\ next.skills = project.skills /\ next.links = links
  BY <1>2 DEF Projects
<1>8. \A s \in SkillDirs : links[s] = new(s) OBVIOUS
<1> HIDE DEF new, links
<1>6. next \in Projects
  <2>1. project \in Projects BY <1>2
  <2> QED BY <2>1, <1>3, SkillsType, Zenon
<1> HIDE DEF next
<1>7. \A s \in SkillDirs : next.links[s] = new(s) BY <1>5, <1>8
<1> QED BY <1>1, <1>2, <1>4, <1>5, <1>6, <1>7 DEF Keeps, Has

\* A step of the program that leaves the project as Keeps says, and of the wizard
\* only what it has still to do.
LEMMA KeepsLone ==
  ASSUME SetupInv, NEW next, Keeps(next), project' = next,
         NEW todo \in SUBSET wizard.todo, wizard' = [wizard EXCEPT !.todo = todo]
  PROVE  SetupTypes' /\ LoneInv'
<1>1. SetupTypes' BY DEF SetupInv, SetupTypes, Keeps
<1>2. wizard'.at = wizard.at /\ wizard'.alone = wizard.alone /\ wizard'.todo = todo
  BY DEF SetupInv, SetupTypes
<1>3. LoneInv' BY <1>2 DEF SetupInv, LoneInv, Keeps
<1> QED BY <1>1, <1>3

\* What is still to be done, or done by then, passes or may fail; what passed
\* does still.
LEMMA KeepsFixed ==
  ASSUME SetupInv, NEW next, Keeps(next), project' = next,
         NEW todo \in SUBSET wizard.todo, wizard' = [wizard EXCEPT !.todo = todo],
         wizard.at = "fix", wizard.mode = "all", wizard.alone
  PROVE  /\ 1 \in wizard.todo \/ CheckCiWorkflow.passed'
         /\ 2 \in wizard.todo \/ CheckGitignoreTarget.passed'
         /\ 3 \in wizard.todo \/ CheckGitignoreConductrLocal.passed'
         /\ 4 \in wizard.todo \/ CheckDevBranch.passed' \/ project'.git = "unborn"
         /\ 8 \in wizard.todo \/ CheckCodeowners.passed'
         /\ 13 \in wizard.todo \/ CheckClaudeWorkflow.passed'
BY DEF SetupInv, FixedInv, Keeps, CheckCiWorkflow, CheckGitignoreTarget,
   CheckGitignoreConductrLocal, CheckDevBranch, CheckCodeowners, CheckClaudeWorkflow, Check, Has,
   Covers

LEMMA SkillsAfter ==
  ASSUME SetupTypes, NEW force \in BOOLEAN, InstallSkills(force) # Failure,
         project' = InstallSkills(force)
  PROVE  \/ CheckSkillsInstalled.passed'
         \/ \E s \in project'.skills : project'.links[s] \in {"elsewhere", "real"}
<1>1. /\ project'.skills = project.skills /\ {"skills/", "~/.claude"} \subseteq project'.files
      /\ \A s \in project.skills : project'.links[s] \in {"here", "elsewhere", "real"}
  BY SkillsKeep DEF Keeps
<1> QED BY <1>1 DEF CheckSkillsInstalled, Check, Has

LEMMA SkillsStay ==
  ASSUME SetupInv, NEW next, Keeps(next), project' = next, next.links = project.links,
         wizard.at = "fix", wizard.mode = "all", wizard.alone
  PROVE  \/ 10 \in wizard.todo \/ CheckSkillsInstalled.passed'
         \/ \E s \in project'.skills : project'.links[s] \in {"elsewhere", "real"}
BY DEF SetupInv, FixedInv, Keeps, CheckSkillsInstalled, Check, Has

Installed == InstallSkills(FALSE)

\* What each fix does, told by the place of its check.
Fixed(k, next) ==
  /\ Keeps(next) /\ (k # 10 => next.links = project.links)
  /\ k \notin {1, 8, 13} => next.own = project.own
  /\ k = 1 => "ci.yml" \in next.files /\ next.own = project.own \ {"ci.yml"}
  /\ k = 2 => next.utf8 /\ "target/" \in next.ignored
  /\ k = 3 => next.utf8 /\ ".conductr-local" \in next.ignored
  /\ k = 4 => next.git = "dev" \/ next.git = "unborn"
  /\ k = 8 => "CODEOWNERS" \in next.files /\ next.own = project.own \ {"CODEOWNERS"}
  /\ k = 10 => next = Installed
  /\ k = 13 => "claude.yml" \in next.files /\ next.own = project.own \ {"claude.yml"}

\* Which checks have a fix.
LEMMA FixableIs ==
  ASSUME NEW k \in 1..14, RunAll[k].fixable
  PROVE  \/ k = 1 /\ RunAll[k].id = "ci-workflow"
         \/ k = 2 /\ RunAll[k].id = "gitignore-target"
         \/ k = 3 /\ RunAll[k].id = "gitignore-conductr-local"
         \/ k = 4 /\ RunAll[k].id = "dev-branch"
         \/ k = 8 /\ RunAll[k].id = "codeowners"
         \/ k = 10 /\ RunAll[k].id = "skills-installed"
         \/ k = 12 /\ RunAll[k].id = "claude-app"
         \/ k = 13 /\ RunAll[k].id = "claude-workflow"
<1>1. k \notin {5, 6, 7, 9, 11, 14}
  BY RunAllIs DEF CheckDefaultBaseDev, CheckClaudeBaseMd, CheckContributing, CheckSkillMd,
     CheckClaudeAgents, CheckConductrSchema, Check
<1>2. k \in {1, 2, 3, 4, 8, 10, 12, 13} BY <1>1
<1> QED
  BY <1>2, RunAllIs DEF CheckCiWorkflow, CheckGitignoreTarget, CheckGitignoreConductrLocal,
     CheckDevBranch, CheckCodeowners, CheckSkillsInstalled, CheckClaudeApp,
     CheckClaudeWorkflow, Check

LEMMA ApplyFixOK ==
  ASSUME SetupTypes, NEW k \in 1..14, RunAll[k].fixable, ApplyFix(RunAll[k].id) # Failure
  PROVE  Fixed(k, ApplyFix(RunAll[k].id))
<1> DEFINE id == RunAll[k].id
<1>1. CASE k = 1 /\ id = "ci-workflow"
  <2>1. ApplyFix(id) = Write("ci.yml") BY <1>1 DEF ApplyFix, AddCiWorkflow
  <2>2. Write("ci.yml").own = project.own \ {"ci.yml"} BY DEF SetupTypes, Projects, Write
  <2> QED BY <1>1, <2>1, <2>2, WriteKeeps DEF Fixed, Files
<1>2. CASE k = 2 /\ id = "gitignore-target"
  <2>1. ApplyFix(id) = AppendIgnore("target/") BY <1>2 DEF ApplyFix
  <2> QED BY <1>2, <2>1, IgnoreKeeps DEF Fixed
<1>3. CASE k = 3 /\ id = "gitignore-conductr-local"
  <2>1. ApplyFix(id) = AppendIgnore(".conductr-local") BY <1>3 DEF ApplyFix
  <2> QED BY <1>3, <2>1, IgnoreKeeps DEF Fixed
<1>4. CASE k = 4 /\ id = "dev-branch"
  <2>1. ApplyFix(id) = InitGitFlow BY <1>4 DEF ApplyFix
  <2> QED BY <1>4, <2>1, FlowKeeps DEF Fixed
<1>5. CASE k = 8 /\ id = "codeowners"
  <2>1. ApplyFix(id) = Write("CODEOWNERS") BY <1>5 DEF ApplyFix, AddCodeowners
  <2>2. Write("CODEOWNERS").own = project.own \ {"CODEOWNERS"}
    BY DEF SetupTypes, Projects, Write
  <2> QED BY <1>5, <2>1, <2>2, WriteKeeps DEF Fixed, Files
<1>6. CASE k = 10 /\ id = "skills-installed"
  <2>1. ApplyFix(id) = Installed BY <1>6 DEF ApplyFix, Installed
  <2>2. Keeps(Installed) /\ Installed.own = project.own
    BY <2>1, SkillsKeep, Zenon DEF Installed
  <2> QED BY <1>6, <2>1, <2>2 DEF Fixed
<1>7. CASE k = 12 /\ id = "claude-app"
  <2>1. ApplyFix(id) = project BY <1>7 DEF ApplyFix, InstallClaudeApp
  <2> QED BY <1>7, <2>1 DEF Fixed, Keeps, SetupTypes
<1>8. CASE k = 13 /\ id = "claude-workflow"
  <2>1. ApplyFix(id) = Write("claude.yml") BY <1>8 DEF ApplyFix, AddClaudeWorkflow
  <2>2. Write("claude.yml").own = project.own \ {"claude.yml"}
    BY DEF SetupTypes, Projects, Write
  <2> QED BY <1>8, <2>1, <2>2, WriteKeeps DEF Fixed, Files
<1> QED BY <1>1, <1>2, <1>3, <1>4, <1>5, <1>6, <1>7, <1>8, FixableIs

LEMMA FixOK ==
  ASSUME SetupInv, FixNext
  PROVE  SetupInv' /\ (wizard.alone => Theirs(project'))
<1> DEFINE next == IF wizard.mode = "dry" THEN DryFix(NextFix.id) ELSE ApplyFix(NextFix.id)
<1>1. /\ wizard.at = "fix" /\ wizard.todo # {} /\ NextFix.fixable
      /\ IF next = Failure THEN wizard' = NoWizard /\ UNCHANGED project
         ELSE project' = next /\ wizard' = [wizard EXCEPT !.todo = Rest]
  BY DEF FixNext
<1>2. PICK k \in wizard.todo : NextFix = RunAll[k] /\ Rest = wizard.todo \ {k}
  BY <1>1, NextIs DEF SetupInv
<1>3. k \in 1..14 /\ Rest \in SUBSET wizard.todo BY <1>2 DEF SetupInv, SetupTypes
<1> HIDE DEF next
<1>4. CASE next = Failure
  <2>1. wizard' = NoWizard /\ project' = project BY <1>1, <1>4
  <2>2. SetupTypes' BY <2>1 DEF SetupInv, SetupTypes, NoWizard
  <2> QED BY <2>1, <2>2 DEF SetupInv, LoneInv, FixedInv, NoWizard, Theirs
<1>5. CASE next # Failure /\ wizard.mode = "dry"
  <2>1. project' = project /\ wizard' = [wizard EXCEPT !.todo = Rest]
    BY <1>1, <1>5 DEF next, DryFix
  <2>2. Keeps(project) BY DEF SetupInv, SetupTypes, Keeps
  <2>3. SetupTypes' /\ LoneInv' BY <1>3, <2>1, <2>2, KeepsLone
  <2>4. wizard'.mode = "dry" BY <1>5, <2>1 DEF SetupInv, SetupTypes
  <2> QED BY <2>1, <2>3, <2>4 DEF SetupInv, FixedInv, Theirs
<1>6. CASE next # Failure /\ wizard.mode # "dry"
  <2>1. project' = next /\ wizard' = [wizard EXCEPT !.todo = Rest] BY <1>1, <1>6
  <2>2. next = ApplyFix(RunAll[k].id) /\ RunAll[k].fixable BY <1>1, <1>2, <1>6 DEF next
  <2>3. Fixed(k, next) BY <1>3, <1>6, <2>2, ApplyFixOK DEF SetupInv
  <2>8. Keeps(next) /\ (k # 10 => next.links = project.links) BY <2>3, Zenon DEF Fixed
  <2>4. SetupTypes' /\ LoneInv' BY <1>3, <2>1, <2>8, KeepsLone, Zenon
  <2>5. wizard' = [wizard EXCEPT !.todo = Rest] /\ wizard'.at = "fix"
        /\ wizard'.mode = wizard.mode /\ wizard'.alone = wizard.alone
        /\ wizard'.todo = wizard.todo \ {k}
    BY <1>1, <1>2, <2>1 DEF SetupInv, SetupTypes
  <2>6. FixedInv'
    <3> SUFFICES ASSUME wizard.mode = "all", wizard.alone
                 PROVE  /\ 1 \in wizard'.todo \/ CheckCiWorkflow.passed'
                        /\ 2 \in wizard'.todo \/ CheckGitignoreTarget.passed'
                        /\ 3 \in wizard'.todo \/ CheckGitignoreConductrLocal.passed'
                        /\ \/ 4 \in wizard'.todo \/ CheckDevBranch.passed'
                           \/ project'.git = "unborn"
                        /\ 8 \in wizard'.todo \/ CheckCodeowners.passed'
                        /\ \/ 10 \in wizard'.todo \/ CheckSkillsInstalled.passed'
                           \/ \E s \in project'.skills :
                                project'.links[s] \in {"elsewhere", "real"}
                        /\ 13 \in wizard'.todo \/ CheckClaudeWorkflow.passed'
      BY <2>5 DEF FixedInv
    <3>1. /\ 1 \in wizard.todo \/ CheckCiWorkflow.passed'
          /\ 2 \in wizard.todo \/ CheckGitignoreTarget.passed'
          /\ 3 \in wizard.todo \/ CheckGitignoreConductrLocal.passed'
          /\ 4 \in wizard.todo \/ CheckDevBranch.passed' \/ project'.git = "unborn"
          /\ 8 \in wizard.todo \/ CheckCodeowners.passed'
          /\ 13 \in wizard.todo \/ CheckClaudeWorkflow.passed'
      BY <1>1, <1>3, <2>1, <2>8, KeepsFixed, Zenon
    <3>2. /\ k = 1 => CheckCiWorkflow.passed'
          /\ k = 2 => CheckGitignoreTarget.passed'
          /\ k = 3 => CheckGitignoreConductrLocal.passed'
          /\ k = 4 => CheckDevBranch.passed' \/ project'.git = "unborn"
          /\ k = 8 => CheckCodeowners.passed'
          /\ k = 13 => CheckClaudeWorkflow.passed'
      BY <2>1, <2>3 DEF Fixed, CheckCiWorkflow, CheckGitignoreTarget,
         CheckGitignoreConductrLocal, CheckDevBranch, CheckCodeowners, CheckClaudeWorkflow,
         Check, Has, Covers
    <3>3. \/ k # 10 /\ 10 \in wizard.todo
          \/ CheckSkillsInstalled.passed'
          \/ \E s \in project'.skills : project'.links[s] \in {"elsewhere", "real"}
      <4>1. CASE k # 10
        BY <4>1, <1>1, <2>1, <2>8, SkillsStay, Zenon
      <4>2. CASE k = 10
        <5>1. next = InstallSkills(FALSE) BY <4>2, <2>3 DEF Fixed, Installed
        <5> QED BY <5>1, <1>6, <2>1, SkillsAfter, Zenon DEF SetupInv
      <4> QED BY <4>1, <4>2
    <3> QED BY <2>5, <3>1, <3>2, <3>3
  <2>7. wizard.alone => Theirs(project')
    BY <1>1, <1>2, <1>3, <2>1, <2>3 DEF SetupInv, LoneInv, Fixed, Keeps, Theirs
  <2> QED BY <2>4, <2>6, <2>7 DEF SetupInv
<1> QED BY <1>4, <1>5, <1>6

\* Passing over is for what has no fix, or in the mode that asks.
LEMMA PassOK == SetupInv /\ PassOverFix => SetupInv'
<1> SUFFICES ASSUME SetupInv, PassOverFix PROVE SetupInv' OBVIOUS
<1>1. /\ wizard.at = "fix" /\ wizard.todo # {} /\ (~ NextFix.fixable \/ wizard.mode = "ask")
      /\ wizard' = [wizard EXCEPT !.todo = Rest] /\ project' = project
  BY DEF PassOverFix
<1>2. PICK k \in wizard.todo : NextFix = RunAll[k] /\ Rest = wizard.todo \ {k}
  BY <1>1, NextIs DEF SetupInv
<1>3. k \in 1..14 /\ Rest \in SUBSET wizard.todo BY <1>2 DEF SetupInv, SetupTypes
<1>4. Keeps(project) BY DEF SetupInv, SetupTypes, Keeps
<1>5. SetupTypes' /\ LoneInv' BY <1>1, <1>3, <1>4, KeepsLone
<1>6. /\ wizard'.at = "fix" /\ wizard'.mode = wizard.mode /\ wizard'.alone = wizard.alone
      /\ wizard'.todo = wizard.todo \ {k}
  BY <1>1, <1>2 DEF SetupInv, SetupTypes
<1>7. wizard.mode = "all" => k \notin {1, 2, 3, 4, 8, 10, 13}
  BY <1>1, <1>2, RunAllIs DEF CheckCiWorkflow, CheckGitignoreTarget,
     CheckGitignoreConductrLocal, CheckDevBranch, CheckCodeowners, CheckSkillsInstalled,
     CheckClaudeWorkflow, Check
<1>8. FixedInv'
  BY <1>1, <1>6, <1>7 DEF SetupInv, FixedInv, CheckCiWorkflow, CheckGitignoreTarget,
     CheckGitignoreConductrLocal, CheckDevBranch, CheckCodeowners, CheckSkillsInstalled,
     CheckClaudeWorkflow, Check, Has, Covers
<1> QED BY <1>5, <1>8 DEF SetupInv

LEMMA FinishOK == SetupInv /\ FinishWizard => SetupInv'
<1> SUFFICES ASSUME SetupInv, FinishWizard PROVE SetupInv' OBVIOUS
<1>1. wizard' = NoWizard /\ project' = project BY DEF FinishWizard
<1>2. SetupTypes' BY <1>1 DEF SetupInv, SetupTypes, NoWizard
<1> QED BY <1>1, <1>2 DEF SetupInv, LoneInv, FixedInv, NoWizard

LEMMA InstallOK ==
  ASSUME SetupInv, NEW force \in BOOLEAN, InstallSkillsCommand(force)
  PROVE  SetupInv' /\ Theirs(project')
<1> DEFINE next == InstallSkills(force)
           todo == wizard.todo
<1>1. next # Failure /\ project' = next /\ wizard' = wizard BY DEF InstallSkillsCommand
<1>2. Keeps(next) /\ next.own = project.own BY <1>1, SkillsKeep DEF SetupInv
<1>3. wizard' = [wizard EXCEPT !.todo = todo] BY <1>1 DEF SetupInv, SetupTypes
<1>4. todo \in SUBSET wizard.todo OBVIOUS
<1>5. \/ CheckSkillsInstalled.passed'
      \/ \E s \in project'.skills : project'.links[s] \in {"elsewhere", "real"}
  BY <1>1, SkillsAfter DEF SetupInv
<1> HIDE DEF next, todo
<1>6. SetupTypes' /\ LoneInv' BY <1>1, <1>2, <1>3, <1>4, KeepsLone, Zenon
<1>7. FixedInv'
  <2> SUFFICES ASSUME wizard.at = "fix", wizard.mode = "all", wizard.alone
               PROVE  /\ 1 \in wizard.todo \/ CheckCiWorkflow.passed'
                      /\ 2 \in wizard.todo \/ CheckGitignoreTarget.passed'
                      /\ 3 \in wizard.todo \/ CheckGitignoreConductrLocal.passed'
                      /\ 4 \in wizard.todo \/ CheckDevBranch.passed' \/ project'.git = "unborn"
                      /\ 8 \in wizard.todo \/ CheckCodeowners.passed'
                      /\ 13 \in wizard.todo \/ CheckClaudeWorkflow.passed'
    BY <1>1, <1>5, Zenon DEF FixedInv
  <2> QED BY <1>1, <1>2, <1>3, <1>4, KeepsFixed, Zenon
<1>8. Theirs(project') BY <1>1, <1>2 DEF Keeps, Theirs
<1> QED BY <1>6, <1>7, <1>8 DEF SetupInv

LEMMA PeopleOK ==
  ASSUME SetupInv, NEW next \in Projects, next.own \subseteq next.files, People(next),
         Theirs(next)
  PROVE  SetupInv' /\ Theirs(project')
BY DEF SetupInv, SetupTypes, LoneInv, FixedInv, People, Theirs

LEMMA SetupStep ==
  ASSUME SetupInv, SetupNext
  PROVE  SetupInv' /\ (wizard.alone => Theirs(project'))
<1>t. project \in Projects /\ project.own \subseteq project.files BY DEF SetupInv, SetupTypes
<1>1. CASE \E mode \in Modes : StartWizard(mode)
  <2>1. PICK mode \in Modes : StartWizard(mode) BY <1>1
  <2>2. project' = project BY <2>1 DEF StartWizard
  <2> QED BY <2>1, <2>2, StartOK DEF Theirs
<1>2. CASE FixNext BY <1>2, FixOK
<1>3. CASE PassOverFix BY <1>3, PassOK DEF PassOverFix, Theirs
<1>4. CASE FinishWizard BY <1>4, FinishOK DEF FinishWizard, Theirs
<1>5. CASE \E force \in BOOLEAN : InstallSkillsCommand(force) BY <1>5, InstallOK
<1>6. CASE \E file \in PeopleWrite : PersonWrites(file)
  <2> PICK file \in PeopleWrite : PersonWrites(file) BY <1>6
  <2> DEFINE next == [project EXCEPT !.files = @ \cup {file}, !.own = @ \cup {file}]
  <2>1. People(next) BY DEF PersonWrites
  <2>2. file \in Files BY SetupAssumption
  <2>3. next \in Projects BY <1>t, <2>2 DEF Projects
  <2>4. next.own \subseteq next.files /\ Theirs(next) BY <1>t DEF Projects, Theirs
  <2> HIDE DEF next
  <2> QED BY <2>1, <2>3, <2>4, PeopleOK
<1>7. CASE PersonCommits
  <2> DEFINE next == [project EXCEPT !.git = "main"]
  <2>1. People(next) BY <1>7 DEF PersonCommits
  <2>2. /\ next \in Projects /\ next.own \subseteq next.files
        /\ Theirs(next)
    BY <1>t DEF Projects, Theirs
  <2> HIDE DEF next
  <2> QED BY <2>1, <2>2, PeopleOK
<1>8. CASE \E utf8 \in BOOLEAN : PersonIgnores(utf8)
  <2> PICK utf8 \in BOOLEAN : PersonIgnores(utf8) BY <1>8
  <2> DEFINE next == [project EXCEPT !.ignored = @ \cup {"own"}, !.utf8 = utf8]
  <2>1. People(next) BY DEF PersonIgnores
  <2>2. /\ next \in Projects /\ next.own \subseteq next.files
        /\ Theirs(next)
    BY <1>t DEF Projects, Theirs
  <2> HIDE DEF next
  <2> QED BY <2>1, <2>2, PeopleOK
<1>9. ASSUME NEW s \in SkillDirs, PersonAddsSkill(s)
      PROVE  SetupInv' /\ Theirs(project')
  <2> DEFINE next == [project EXCEPT !.files = @ \cup {"skills/"}, !.skills = @ \cup {s}]
  <2>1. People(next) BY <1>9 DEF PersonAddsSkill
  <2>2. /\ next \in Projects /\ next.own \subseteq next.files
        /\ Theirs(next)
    BY <1>t DEF Projects, Files, Theirs
  <2> HIDE DEF next
  <2> QED BY <2>1, <2>2, PeopleOK
<1>10. ASSUME NEW s \in SkillDirs, PersonLinks(s)
       PROVE  SetupInv' /\ Theirs(project')
  <2> DEFINE next == [project EXCEPT !.links[s] = "elsewhere"]
  <2>1. People(next) BY <1>10 DEF PersonLinks
  <2>2. /\ next \in Projects /\ next.own \subseteq next.files
        /\ Theirs(next)
    BY <1>t DEF Projects, Theirs
  <2> HIDE DEF next
  <2> QED BY <2>1, <2>2, PeopleOK
<1> QED
  BY <1>1, <1>2, <1>3, <1>4, <1>5, <1>6, <1>7, <1>8, <1>9, <1>10 DEF SetupNext

LEMMA SetupIsInv == SetupSpec => []SetupInv
<1>1. SetupInv /\ UNCHANGED setupVars => SetupInv'
  BY DEF setupVars, SetupInv, SetupTypes, LoneInv, FixedInv, CheckCiWorkflow,
     CheckGitignoreTarget, CheckGitignoreConductrLocal, CheckDevBranch, CheckCodeowners,
     CheckSkillsInstalled, CheckClaudeWorkflow, Check, Has, Covers
<1>2. SetupInv /\ [SetupNext]_setupVars => SetupInv' BY <1>1, SetupStep
<1> QED BY <1>2, SetupInitOK, PTL DEF SetupSpec

\* A wizard that nobody works beside never takes a workflow or CODEOWNERS from the
\* person who wrote it, nor a line from a .gitignore that reads as text (apply_fix,
\* the fixes that write a whole file and the two that read .gitignore first).  Of a
\* .gitignore that does not read nothing is said: those two write over it.
THEOREM LoneKeeps == SetupSpec => LoneWizardKeepsOwn
<1>1. SetupInv /\ [SetupNext]_setupVars
        => [wizard.at = "fix" /\ wizard.alone =>
              /\ project.own \subseteq project'.own
              /\ project.utf8 => project.ignored \subseteq project'.ignored]_setupVars
  BY SetupStep DEF Theirs
<1> QED BY <1>1, SetupIsInv, PTL DEF SetupSpec, LoneWizardKeepsOwn

\* At its end a run of all fixes with nobody beside it leaves failing, of what can be
\* fixed, only the app, the dev branch of a repository with no commit, and links that
\* somebody else made (wizard::run over run_all).
THEOREM FullRun == SetupSpec => []FullRunFixes
<1>1. SetupInv => FullRunFixes
  <2> SUFFICES ASSUME SetupInv, wizard.at = "fix", wizard.mode = "all", wizard.alone,
                      wizard.todo = {}, NEW i \in DOMAIN RunAll,
                      RunAll[i].fixable, ~ RunAll[i].passed
               PROVE  \/ RunAll[i].id = "claude-app"
                      \/ RunAll[i].id = "dev-branch" /\ project.git = "unborn"
                      \/ /\ RunAll[i].id = "skills-installed"
                         /\ \E s \in project.skills :
                              project.links[s] \in {"elsewhere", "real"}
    BY DEF FullRunFixes
  <2>1. /\ CheckCiWorkflow.passed /\ CheckGitignoreTarget.passed
        /\ CheckGitignoreConductrLocal.passed
        /\ CheckDevBranch.passed \/ project.git = "unborn"
        /\ CheckCodeowners.passed /\ CheckClaudeWorkflow.passed
        /\ CheckSkillsInstalled.passed
             \/ \E s \in project.skills : project.links[s] \in {"elsewhere", "real"}
    BY DEF SetupInv, FixedInv
  <2>2. i \in 1..14 BY RunAllIs
  <2>3. i \in {4, 10, 12} => i \in 1..14 OBVIOUS
  <2>4. \/ i = 4 /\ RunAll[i].id = "dev-branch"
        \/ i = 10 /\ RunAll[i].id = "skills-installed"
        \/ i = 12 /\ RunAll[i].id = "claude-app"
    BY <2>1, <2>2, FixableIs, RunAllIs
  <2> QED BY <2>1, <2>4, RunAllIs
<1> QED BY <1>1, SetupIsInv, PTL

-----------------------------------------------------------------------------
(* IdlePass.                                                               *)

N == Len(UseCaseCrates)

\* How many passes end before the turn of the crate at p, when q is next.
Wait(q, p) == IF q <= p THEN p - q ELSE N + p - q

\* Phases behind the one that sees d.
Past(d) ==
  IF d[1] = "dep" THEN {"clippy", "coverage", "file", "write"}
  ELSE IF d[1] = "clippy" THEN {"coverage", "file", "write"} ELSE {"file", "write"}

\* The defects that some phase looks for.
Seeable == {d \in Defects : d[1] # "cover" \/ HasLlvmCov}

\* Types, and that the pass looks at the crate that was next when it began.
IdleTypes ==
  /\ turns \in [Defects -> Nat] /\ defects \subseteq Defects
  /\ idlePass.at # "none" =>
       /\ idlePass = [at |-> idlePass.at, module |-> idlePass.module, found |-> idlePass.found]
       /\ idlePass.at \in {"rules", "clippy", "coverage", "file", "write"}
       /\ idlePass.module = PickModule(lastModule)

\* What the pass should have seen it has found or filed, or it slipped in behind.
SeenInv ==
  idlePass.at # "none" => \A d \in Seeable :
    d \in defects \ issues /\ idlePass.at \in Past(d)
      /\ (d[1] = "dep" \/ d[2] = idlePass.module) =>
         turns[d] = 0 \/ (idlePass.at # "write" /\ d \in idlePass.found)

\* What a rule sees waits for one pass at most, anything else for its turn.
TurnInv ==
  \A d \in Seeable : d \in defects \ issues =>
    /\ d[1] = "dep" => turns[d] <= 1
    /\ d[1] # "dep" => \A p, q \in 1..N :
         UseCaseCrates[p] = d[2] /\ UseCaseCrates[q] = PickModule(lastModule) =>
           turns[d] + Wait(q, p) <= N

IdleInv == IdleTypes /\ SeenInv /\ TurnInv

LEMMA NNat == N \in Nat \ {0} /\ DOMAIN UseCaseCrates = 1..N
BY IdleAssumption DEF N

LEMMA PickFirst ==
  ASSUME NEW last, last \notin CrateSet PROVE PickModule(last) = UseCaseCrates[1]
BY DEF PickModule

\* The turn goes round.
LEMMA PickNext ==
  ASSUME NEW i \in 1..N
  PROVE  PickModule(UseCaseCrates[i]) = UseCaseCrates[IF i = N THEN 1 ELSE i + 1]
<1> DEFINE last == UseCaseCrates[i]
           pos == CHOOSE j \in DOMAIN UseCaseCrates : UseCaseCrates[j] = last
<1>1. last \in CrateSet BY NNat DEF CrateSet
<1>2. pos \in DOMAIN UseCaseCrates /\ UseCaseCrates[pos] = last BY NNat
<1>3. pos = i BY <1>2, NNat, IdleAssumption
<1>4. PickModule(last) = UseCaseCrates[(i % N) + 1] BY <1>1, <1>3 DEF PickModule, N
<1>5. i % N = IF i = N THEN 0 ELSE i BY NNat
<1> QED BY <1>4, <1>5, NNat

\* Crates are told apart by their place.
LEMMA OnePlace ==
  ASSUME NEW i \in 1..N, NEW j \in 1..N, UseCaseCrates[i] = UseCaseCrates[j] PROVE i = j
BY NNat, IdleAssumption

LEMMA PickIsCrate ==
  ASSUME NEW last PROVE \E q \in 1..N : PickModule(last) = UseCaseCrates[q]
<1>1. CASE last \notin CrateSet BY <1>1, PickFirst, NNat
<1>2. CASE last \in CrateSet
  <2>1. PICK i \in 1..N : last = UseCaseCrates[i] BY <1>2, NNat DEF CrateSet
  <2>2. PickModule(last) = UseCaseCrates[IF i = N THEN 1 ELSE i + 1] BY <2>1, PickNext
  <2> QED BY <2>2, NNat
<1> QED BY <1>1, <1>2

LEMMA DefectIs ==
  ASSUME NEW d \in Defects
  PROVE  \/ d \in RuleDefects /\ d[1] = "dep"
         \/ d[1] = "clippy" /\ d[2] \in CrateSet
         \/ d[1] = "cover" /\ d[2] \in CrateSet
BY IdleAssumption DEF RuleDefects

\* No forbidden edge escapes the three rules.
LEMMA RulesSee ==
  ASSUME NEW d \in RuleDefects, d \in defects
  PROVE  d \in CheckRule1 \cup CheckRule3 \cup CheckRule4
BY DEF RuleDefects, CheckRule1, CheckRule3, CheckRule4, HasDep

LEMMA WaitNat ==
  ASSUME NEW p \in 1..N, NEW q \in 1..N PROVE Wait(q, p) \in 0..(N - 1)
BY NNat DEF Wait

\* When the crate that was next has had its turn the others are one nearer.
LEMMA WaitNext ==
  ASSUME NEW p \in 1..N, NEW q \in 1..N
  PROVE  /\ p # q => Wait(IF q = N THEN 1 ELSE q + 1, p) = Wait(q, p) - 1
         /\ Wait(IF q = N THEN 1 ELSE q + 1, q) = N - 1
BY NNat DEF Wait

LEMMA Leq == ASSUME NEW a \in Nat, NEW b \in Nat, NEW c \in Nat, a + b <= c PROVE a <= c
OBVIOUS

LEMMA Nearer ==
  ASSUME NEW n \in Nat \ {0}, NEW t \in Nat, NEW t2 \in {t, t + 1}, NEW w \in 0..(n - 1), t + w <= n
  PROVE  t2 + (w - 1) <= n
OBVIOUS

LEMMA IdleInitOK == IdleInit => IdleInv
<1> SUFFICES ASSUME IdleInit PROVE IdleInv OBVIOUS
<1>1. defects = {} /\ idlePass = NoIdlePass /\ turns = [d \in Defects |-> 0]
  BY Zenon DEF IdleInit
<1>2. idlePass.at = "none" BY <1>1 DEF NoIdlePass
<1>3. IdleTypes BY <1>1, <1>2 DEF IdleTypes
<1>4. SeenInv BY <1>2 DEF SeenInv
<1>5. TurnInv BY <1>1, Zenon DEF TurnInv
<1> QED BY <1>3, <1>4, <1>5 DEF IdleInv

\* Where passes begin, go on and die no defect, issue or turn changes.
LEMMA TurnStays ==
  ASSUME TurnInv, UNCHANGED <<defects, lastModule, issues, turns>>
  PROVE  TurnInv'
BY DEF TurnInv, Seeable

LEMMA BeginOK == ASSUME IdleInv, BeginPass PROVE IdleInv'
<1>1. /\ idlePass' = [at |-> "rules", module |-> PickModule(lastModule), found |-> {}]
      /\ UNCHANGED <<defects, lastModule, issues, turns>>
  BY DEF BeginPass
<1>2. IdleTypes' BY <1>1 DEF IdleInv, IdleTypes
<1>3. SeenInv' BY <1>1 DEF SeenInv, Past
<1> QED BY <1>1, <1>2, <1>3, TurnStays DEF IdleInv

\* A phase is right when what it finds covers what its place in the pass lets it see.
LEMMA PhaseOK ==
  ASSUME IdleInv, NEW at \in {"rules", "clippy", "coverage"},
         NEW next \in {"clippy", "coverage", "file"}, NEW findings, Phase(at, next, findings),
         \A d \in Seeable \cap defects :
           next \in Past(d) /\ at \notin Past(d) /\ (d[1] = "dep" \/ d[2] = idlePass.module) =>
             d \in findings
  PROVE  IdleInv'
<1>1. /\ idlePass.at = at /\ idlePass' = [idlePass EXCEPT !.at = next, !.found = @ \cup findings]
      /\ UNCHANGED <<defects, lastModule, issues, turns>>
  BY DEF Phase
<1>2. idlePass = [at |-> at, module |-> idlePass.module, found |-> idlePass.found]
      /\ idlePass.module = PickModule(lastModule)
  BY <1>1 DEF IdleInv, IdleTypes
<1>3. idlePass' = [at |-> next, module |-> idlePass.module,
                   found |-> idlePass.found \cup findings]
  BY <1>1, <1>2
<1>4. /\ idlePass'.at = next /\ idlePass'.module = idlePass.module
      /\ idlePass'.found = idlePass.found \cup findings
  BY <1>3
<1>5. IdleTypes' BY <1>1, <1>2, <1>3, <1>4 DEF IdleInv, IdleTypes
<1>6. SeenInv'
  <2> SUFFICES ASSUME NEW d \in Seeable, d \in defects, d \notin issues, next \in Past(d),
                      d[1] = "dep" \/ d[2] = idlePass.module
               PROVE  turns[d] = 0 \/ d \in idlePass.found \cup findings
    BY <1>1, <1>4 DEF SeenInv, Seeable
  <2>1. CASE at \in Past(d) BY <2>1, <1>1 DEF IdleInv, SeenInv
  <2>2. CASE at \notin Past(d) BY <2>2
  <2> QED BY <2>1, <2>2
<1>7. TurnInv' BY <1>1, TurnStays DEF IdleInv
<1> QED BY <1>5, <1>6, <1>7 DEF IdleInv

LEMMA FileOK == ASSUME IdleInv, FileFindings PROVE IdleInv'
<1>1. /\ idlePass.at = "file" /\ issues' = issues \cup idlePass.found
      /\ idlePass' = [idlePass EXCEPT !.at = "write"]
      /\ UNCHANGED <<defects, lastModule, turns>>
  BY DEF FileFindings
<1>2. idlePass = [at |-> "file", module |-> idlePass.module, found |-> idlePass.found]
      /\ idlePass.module = PickModule(lastModule)
  BY <1>1 DEF IdleInv, IdleTypes
<1>3. idlePass' = [at |-> "write", module |-> idlePass.module, found |-> idlePass.found]
  BY <1>1, <1>2
<1>4. idlePass'.at = "write" /\ idlePass'.module = idlePass.module BY <1>3
<1>5. IdleTypes' BY <1>1, <1>2, <1>3, <1>4 DEF IdleInv, IdleTypes
<1>6. SeenInv'
  <2> SUFFICES ASSUME NEW d \in Seeable, d \in defects, d \notin issues, d \notin idlePass.found,
                      "write" \in Past(d), d[1] = "dep" \/ d[2] = idlePass.module
               PROVE  turns[d] = 0
    BY <1>1, <1>4 DEF SeenInv, Seeable
  <2>1. "file" \in Past(d) BY DEF Past
  <2> QED BY <2>1, <1>1 DEF IdleInv, SeenInv
<1>7. TurnInv'
  <2>1. \A d : d \in defects' \ issues' => d \in defects \ issues BY <1>1
  <2> QED BY <1>1, <2>1, Zenon DEF IdleInv, TurnInv, Seeable
<1> QED BY <1>5, <1>6, <1>7 DEF IdleInv

LEMMA IdlePassDiesOK == ASSUME IdleInv, IdlePassDies PROVE IdleInv'
<1>1. idlePass' = NoIdlePass /\ UNCHANGED <<defects, lastModule, issues, turns>>
  BY DEF IdlePassDies
<1>2. idlePass'.at = "none" BY <1>1 DEF NoIdlePass
<1>3. IdleTypes' BY <1>1, <1>2 DEF IdleInv, IdleTypes
<1>4. SeenInv' BY <1>2 DEF SeenInv
<1> QED BY <1>1, <1>3, <1>4, TurnStays DEF IdleInv

LEMMA EndOK == ASSUME IdleInv, EndIdlePass PROVE IdleInv'
<1>1. /\ idlePass.at = "write" /\ lastModule' = idlePass.module /\ idlePass' = NoIdlePass
      /\ turns' = [d \in Defects |-> IF d \in defects \ issues /\ turns[d] <= N
                                     THEN turns[d] + 1 ELSE turns[d]]
      /\ UNCHANGED <<defects, issues>>
  BY DEF EndIdlePass, N
<1>2. idlePass'.at = "none" BY <1>1 DEF NoIdlePass
<1>3. turns \in [Defects -> Nat] BY DEF IdleInv, IdleTypes
<1>4. IdleTypes' BY <1>1, <1>2, <1>3 DEF IdleInv, IdleTypes
<1>5. SeenInv' BY <1>2 DEF SeenInv
<1>6. PICK q \in 1..N : PickModule(lastModule) = UseCaseCrates[q] BY PickIsCrate
<1> DEFINE q2 == IF q = N THEN 1 ELSE q + 1
<1>7. idlePass.module = UseCaseCrates[q] BY <1>1, <1>6 DEF IdleInv, IdleTypes
<1>8. q2 \in 1..N /\ PickModule(lastModule') = UseCaseCrates[q2] BY <1>1, <1>7, PickNext, NNat
<1>9. TurnInv'
  <2> SUFFICES ASSUME NEW d \in Seeable, d \in defects, d \notin issues
               PROVE  /\ d[1] = "dep" => turns'[d] <= 1
                      /\ d[1] # "dep" => \A p, r \in 1..N :
                           UseCaseCrates[p] = d[2] /\ UseCaseCrates[r] = PickModule(lastModule') =>
                             turns'[d] + Wait(r, p) <= N
    BY <1>1 DEF TurnInv, Seeable
  <2>1. d \in Defects /\ turns[d] \in Nat /\ turns'[d] \in {turns[d], turns[d] + 1}
    BY <1>1, <1>3 DEF Seeable
  <2>2. "write" \in Past(d) BY DEF Past
  <2>3. d[1] = "dep" \/ d[2] = UseCaseCrates[q] => turns[d] = 0
    BY <1>1, <1>7, <2>2 DEF IdleInv, SeenInv
  <2>4. ASSUME d[1] # "dep", NEW p \in 1..N, NEW r \in 1..N, UseCaseCrates[p] = d[2],
               UseCaseCrates[r] = PickModule(lastModule')
        PROVE  turns'[d] + Wait(r, p) <= N
    <3>1. r = q2 BY <1>8, <2>4, OnePlace
    <3>2. CASE p = q
      BY <3>1, <3>2, <2>1, <2>3, <2>4, WaitNext, NNat
    <3>3. CASE p # q
      <4>1. turns[d] + Wait(q, p) <= N BY <1>6, <2>4 DEF IdleInv, TurnInv
      <4>2. Wait(r, p) = Wait(q, p) - 1 BY <3>1, <3>3, WaitNext
      <4>3. Wait(q, p) \in 0..(N - 1) BY WaitNat
      <4>4. N \in Nat \ {0} BY NNat
      <4> QED BY <4>1, <4>2, <4>3, <4>4, <2>1, Nearer
    <3> QED BY <3>2, <3>3
  <2> QED BY <2>1, <2>3, <2>4
<1> QED BY <1>4, <1>5, <1>9 DEF IdleInv

LEMMA SlipOK == ASSUME IdleInv, NEW d \in Defects, Slip(d) PROVE IdleInv'
<1>1. /\ d \notin defects /\ d \notin issues /\ defects' = defects \cup {d}
      /\ turns' = [turns EXCEPT ![d] = 0] /\ UNCHANGED <<lastModule, idlePass, issues>>
  BY DEF Slip
<1>2. turns \in [Defects -> Nat] BY DEF IdleInv, IdleTypes
<1>3. turns'[d] = 0 /\ \A e \in Defects : e # d => turns'[e] = turns[e] BY <1>1, <1>2
<1>4. IdleTypes' BY <1>1, <1>2 DEF IdleInv, IdleTypes
<1>5. SeenInv'
  <2> SUFFICES ASSUME idlePass.at # "none", NEW e \in Seeable, e \in defects \cup {d}, e \notin issues,
                      idlePass.at \in Past(e), e[1] = "dep" \/ e[2] = idlePass.module
               PROVE  turns'[e] = 0 \/ (idlePass.at # "write" /\ e \in idlePass.found)
    BY <1>1 DEF SeenInv, Seeable
  <2>1. e \in Defects BY DEF Seeable
  <2> QED BY <1>1, <1>3, <2>1 DEF IdleInv, SeenInv
<1>6. TurnInv'
  <2> SUFFICES ASSUME NEW e \in Seeable, e \in defects', e \notin issues
               PROVE  /\ e[1] = "dep" => turns'[e] <= 1
                      /\ e[1] # "dep" => \A p, r \in 1..N :
                           UseCaseCrates[p] = e[2] /\ UseCaseCrates[r] = PickModule(lastModule) =>
                             turns'[e] + Wait(r, p) <= N
    BY <1>1 DEF TurnInv, Seeable
  <2>1. e \in Defects BY DEF Seeable
  <2>2. CASE e = d
    <3>1. turns'[e] = 0 BY <2>2, <1>3
    <3>2. ASSUME NEW p \in 1..N, NEW r \in 1..N PROVE 0 + Wait(r, p) <= N
      <4>1. Wait(r, p) \in 0..(N - 1) BY WaitNat
      <4>2. N \in Nat \ {0} BY NNat
      <4> HIDE DEF N, Wait
      <4> QED BY <4>1, <4>2
    <3> QED BY <3>1, <3>2
  <2>3. CASE e # d
    <3>1. turns'[e] = turns[e] /\ e \in defects BY <2>1, <2>3, <1>1, <1>3
    <3> QED BY <3>1, Zenon DEF IdleInv, TurnInv
  <2> QED BY <2>2, <2>3
<1> QED BY <1>4, <1>5, <1>6 DEF IdleInv

LEMMA MendOK == ASSUME IdleInv, NEW d \in Defects, Mend(d) PROVE IdleInv'
<1>1. /\ defects' = defects \ {d} /\ issues' = issues \ {d}
      /\ turns' = [turns EXCEPT ![d] = 0] /\ UNCHANGED <<lastModule, idlePass>>
  BY DEF Mend
<1>2. turns \in [Defects -> Nat] BY DEF IdleInv, IdleTypes
<1>3. \A e \in Defects : e # d => turns'[e] = turns[e] BY <1>1, <1>2
<1>4. IdleTypes' BY <1>1, <1>2 DEF IdleInv, IdleTypes
<1>7. \A e \in Seeable : e \in defects' \ issues' =>
        e \in defects \ issues /\ turns'[e] = turns[e]
  BY <1>1, <1>3 DEF Seeable
<1>5. SeenInv' BY <1>1, <1>7, Zenon DEF IdleInv, SeenInv, Seeable
<1>6. TurnInv' BY <1>1, <1>7, Zenon DEF IdleInv, TurnInv, Seeable
<1> QED BY <1>4, <1>5, <1>6 DEF IdleInv

LEMMA IdleStep == ASSUME IdleInv, IdleNext PROVE IdleInv'
<1>1. ASSUME ScanRules PROVE IdleInv'
  <2> DEFINE found == CheckRule1 \cup CheckRule3 \cup CheckRule4
  <2>1. Phase("rules", "clippy", found) BY <1>1 DEF ScanRules
  <2>2. \A d \in Seeable \cap defects : "clippy" \in Past(d) => d \in found
    BY DefectIs, RulesSee DEF Seeable, Past
  <2> HIDE DEF found
  <2> QED BY <2>1, <2>2, PhaseOK
<1>2. ASSUME RunClippy PROVE IdleInv'
  <2> DEFINE found == ParseClippyOutput(idlePass.module)
  <2>1. Phase("clippy", "coverage", found) BY <1>2 DEF RunClippy
  <2>2. \A d \in Seeable \cap defects : "coverage" \in Past(d) /\ "clippy" \notin Past(d)
          /\ (d[1] = "dep" \/ d[2] = idlePass.module) => d \in found
    BY DefectIs DEF Seeable, Past, ParseClippyOutput
  <2> HIDE DEF found
  <2> QED BY <2>1, <2>2, PhaseOK
<1>3. ASSUME RunCoverageScan PROVE IdleInv'
  <2> DEFINE found == IF HasLlvmCov THEN ParseCoverageOutput(idlePass.module) ELSE {}
  <2>1. Phase("coverage", "file", found) BY <1>3 DEF RunCoverageScan
  <2>2. \A d \in Seeable \cap defects : "file" \in Past(d) /\ "coverage" \notin Past(d)
          /\ (d[1] = "dep" \/ d[2] = idlePass.module) => d \in found
    BY DefectIs DEF Seeable, Past, ParseCoverageOutput
  <2> HIDE DEF found
  <2> QED BY <2>1, <2>2, PhaseOK
<1> QED
  BY <1>1, <1>2, <1>3, BeginOK, FileOK, IdlePassDiesOK, EndOK, SlipOK, MendOK DEF IdleNext

\* Whatever stays wrong has an issue when every use-case crate has had its turn,
\* although passes die and defects slip in at any time (pick_module, write_idle_state).
THEOREM DefectsFiled == IdleSpec => []EveryDefectFiled
<1>1. IdleInv /\ UNCHANGED idleVars => IdleInv'
  BY DEF IdleInv, IdleTypes, SeenInv, TurnInv, Seeable, idleVars
<1>2. IdleInv /\ [IdleNext]_idleVars => IdleInv' BY <1>1, IdleStep
<1>3. IdleInv => EveryDefectFiled
  <2> SUFFICES ASSUME IdleInv, NEW d \in Seeable, d \in defects \ issues PROVE turns[d] <= N
    BY DEF EveryDefectFiled, Seeable, N
  <2>1. turns[d] \in Nat BY DEF IdleInv, IdleTypes, Seeable
  <2>2. CASE d[1] = "dep" BY <2>1, <2>2, NNat DEF IdleInv, TurnInv
  <2>3. CASE d[1] # "dep"
    <3>1. d[2] \in CrateSet BY <2>3, DefectIs DEF Seeable
    <3>2. PICK p \in 1..N : UseCaseCrates[p] = d[2] BY <3>1, NNat DEF CrateSet
    <3>3. PICK q \in 1..N : UseCaseCrates[q] = PickModule(lastModule) BY PickIsCrate
    <3>4. turns[d] + Wait(q, p) <= N BY <2>3, <3>2, <3>3 DEF IdleInv, TurnInv
    <3>5. Wait(q, p) \in Nat /\ N \in Nat BY WaitNat, NNat
    <3> HIDE DEF N, Wait
    <3> QED BY <2>1, <3>4, <3>5, Leq
  <2> QED BY <2>2, <2>3
<1> QED BY <1>2, <1>3, IdleInitOK, PTL DEF IdleSpec

-----------------------------------------------------------------------------
(* Mailbox.                                                                *)

\* What agents send.
Mails ==
  [kind : {"scope_claim"}, id : Nat, issue : MailIssues, files : SUBSET ClaimedFiles,
   fenced : BOOLEAN]
    \cup [kind : {"note"}, id : Nat, fenced : {FALSE}]
    \cup [kind : {"synthesis_request"}, id : Nat, issue : MailIssues, fenced : {FALSE}]

MailTypes ==
  /\ inboxFile \in Seq(Seq(Mails)) /\ Len(inboxFile) > 0 /\ comments \in Seq(Mails \cup {Chatter})
  /\ sending \in [Agents -> {Idle} \cup [at : {"file", "newline", "issue"}, msg : Mails]]
  /\ delivered \subseteq Stores \X Mails /\ torn \in BOOLEAN /\ sent \in Nat

\* As long as nobody's writes were torn apart no line holds two messages, the last
\* line is open for one sender at most, and holds what that one has written.
LinesInv ==
  ~ torn =>
    /\ \A i \in DOMAIN inboxFile : inboxFile[i] = <<>> \/ \E m \in Mails : inboxFile[i] = <<m>>
    /\ \A a \in Agents : sending[a].at = "newline" =>
         inboxFile[Len(inboxFile)] = <<sending[a].msg>>
    /\ (\A a \in Agents : sending[a].at # "newline") => inboxFile[Len(inboxFile)] = <<>>
    /\ \A a, b \in Agents : sending[a].at = "newline" /\ sending[b].at = "newline" => a = b

\* What was delivered stands in its store.
KeptInv ==
  \A d \in delivered :
    IF d[1] = "file"
    THEN ~ torn => \E i \in DOMAIN inboxFile : i < Len(inboxFile) /\ inboxFile[i] = <<d[2]>>
    ELSE \E i \in DOMAIN comments : comments[i] = d[2]

MailInv == MailTypes /\ LinesInv /\ KeptInv

\* A claim in the inbox is reported, itself or another one before it.
LEMMA OverlapSeen ==
  ASSUME NEW store, NEW i, NEW e \in Claims(store, i, TRUE)
  PROVE  CheckScopeOverlap(store, i, TRUE) # Clear
BY DEF CheckScopeOverlap, Clear

LEMMA ScopeSeen ==
  ASSUME NEW store, NEW i, NEW e \in Claims(store, i, TRUE), NEW f \in e.msg.files
  PROVE  CheckScope(store, i, {f}, TRUE) # Clear
<1>1. e \in {x \in Claims(store, i, TRUE) : x.msg.files \cap {f} # {}} OBVIOUS
<1> QED BY <1>1 DEF CheckScope, Clear

\* A read that fails is answered as if nobody had claimed anything.
LEMMA FailOpen ==
  ASSUME NEW store, NEW i, NEW files
  PROVE  CheckScopeOverlap(store, i, FALSE) = Clear /\ CheckScope(store, i, files, FALSE) = Clear
<1>1. All(store, FALSE) = Unreadable BY DEF All, ReadJsonl, ListComments
<1>2. ~ Unreadable.ok /\ Unreadable.mail = {} BY DEF Unreadable
<1>3. Inbox(store, "scope_claim", FALSE) = Unreadable BY <1>1, <1>2 DEF Inbox
<1>4. Claims(store, i, FALSE) = {}
  <2> SUFFICES ASSUME NEW e \in Claims(store, i, FALSE) PROVE FALSE OBVIOUS
  <2> QED BY <1>2, <1>3, Zenon DEF Claims
<1> QED BY <1>4 DEF CheckScopeOverlap, CheckScope

\* A claim on a line of its own, in a file that is read, is in the inbox.
LEMMA FileClaim ==
  ASSUME NEW i \in DOMAIN inboxFile, NEW m, inboxFile[i] = <<m>>, m.kind = "scope_claim",
         \A j \in DOMAIN inboxFile : ~ (Len(inboxFile[j]) > 1)
  PROVE  Placed(i, m) \in Claims("file", m.issue, TRUE)
<1>1. inboxFile[i] # <<>> /\ inboxFile[i][1] = m OBVIOUS
<1>2. Placed(i, m) \in ReadJsonl(inboxFile, TRUE).mail /\ ReadJsonl(inboxFile, TRUE).ok
  BY <1>1 DEF ReadJsonl, Read
<1> QED BY <1>2 DEF Claims, Inbox, All, Read, Placed

\* So is one in a comment that gh lists, unless its text has a fence.
LEMMA IssueClaim ==
  ASSUME NEW i \in DOMAIN comments, NEW m, comments[i] = m, m.kind = "scope_claim", ~ m.fenced
  PROVE  Placed(i, m) \in Claims("issue", m.issue, TRUE)
<1>1. ExtractMail(comments[i]) BY DEF ExtractMail
<1>2. Placed(i, m) \in ListComments(comments, TRUE).mail /\ ListComments(comments, TRUE).ok
  BY <1>1 DEF ListComments, Read
<1> QED BY <1>2 DEF Claims, Inbox, All, Read, Placed

LEMMA MailInitOK == MailInit => MailInv
<1> SUFFICES ASSUME MailInit PROVE MailInv OBVIOUS
<1>1. MailTypes
  <2>1. << <<>> >> \in Seq(Seq(Mails)) /\ Len(<< <<>> >>) > 0 OBVIOUS
  <2>2. <<>> \in Seq(Mails \cup {Chatter}) OBVIOUS
  <2>3. [a \in Agents |-> Idle]
          \in [Agents -> {Idle} \cup [at : {"file", "newline", "issue"}, msg : Mails]]
    OBVIOUS
  <2> QED BY <2>1, <2>2, <2>3 DEF MailInit, MailTypes
<1>2. LinesInv BY DEF MailInit, LinesInv, Idle
<1>3. KeptInv BY DEF MailInit, KeptInv
<1> QED BY <1>1, <1>2, <1>3 DEF MailInv

LEMMA SendOK ==
  ASSUME MailInv, NEW a \in Agents, NEW store \in Stores, NEW m \in Messages(store), Send(a, store, m)
  PROVE  MailInv'
<1>1. sent + 1 \in Nat BY DEF MailInv, MailTypes
<1>2. m \in Mails
  <2>1. \/ \E i \in MailIssues, fs \in SUBSET ClaimedFiles, f \in BOOLEAN : m = ScopeClaim(sent + 1, i, fs, f)
        \/ m = PlainNote(sent + 1)
        \/ \E i \in MailIssues : m = SynthesisRequest(sent + 1, i)
    <3>1. \A f \in Fences(store) : f \in BOOLEAN BY DEF Fences
    <3>2. CASE m \in {ScopeClaim(sent + 1, i, fs, f) :
                      i \in MailIssues, fs \in SUBSET ClaimedFiles, f \in Fences(store)}
      <4>1. PICK i \in MailIssues, fs \in SUBSET ClaimedFiles, f \in Fences(store) :
                   m = ScopeClaim(sent + 1, i, fs, f)
        BY <3>2
      <4> QED BY <4>1, <3>1, Zenon
    <3>3. \/ m \in {ScopeClaim(sent + 1, i, fs, f) :
                      i \in MailIssues, fs \in SUBSET ClaimedFiles, f \in Fences(store)}
          \/ m = PlainNote(sent + 1)
          \/ \E i \in MailIssues : m = SynthesisRequest(sent + 1, i)
      BY DEF Messages
    <3> QED BY <3>2, <3>3
  <2>2. CASE m = PlainNote(sent + 1) BY <1>1, <2>2 DEF PlainNote, Mails
  <2>3. ASSUME NEW i \in MailIssues, m = SynthesisRequest(sent + 1, i) PROVE m \in Mails
    BY <1>1, <2>3 DEF SynthesisRequest, Mails
  <2>4. ASSUME NEW i \in MailIssues, NEW fs \in SUBSET ClaimedFiles, NEW f \in BOOLEAN,
               m = ScopeClaim(sent + 1, i, fs, f)
        PROVE  m \in Mails
    BY <1>1, <2>4 DEF ScopeClaim, Mails
  <2> QED BY <2>1, <2>2, <2>3, <2>4
<1>3. /\ sending[a] = Idle /\ sent' = sent + 1
      /\ sending' = [sending EXCEPT ![a] = [at |-> store, msg |-> m]]
      /\ UNCHANGED <<inboxFile, comments, delivered, torn>>
  BY DEF Send
<1>4. MailTypes' BY <1>1, <1>2, <1>3 DEF MailInv, MailTypes, Stores
<1>5. \A b \in Agents :
        /\ sending'[b].at = "newline" <=> sending[b].at = "newline"
        /\ sending[b].at = "newline" => sending'[b] = sending[b]
  BY <1>3 DEF MailInv, MailTypes, Stores, Idle
<1>6. LinesInv' BY <1>3, <1>5 DEF MailInv, LinesInv
<1>7. KeptInv' BY <1>3 DEF MailInv, KeptInv
<1> QED BY <1>4, <1>6, <1>7 DEF MailInv

LEMMA WriteOK == ASSUME MailInv, NEW a \in Agents, WriteMessage(a) PROVE MailInv'
<1> DEFINE n == Len(inboxFile)
           m == sending[a].msg
<1>1. /\ sending[a].at = "file"
      /\ inboxFile' = [inboxFile EXCEPT ![n] = Append(inboxFile[n], m)]
      /\ torn' = (torn \/ \E b \in Agents : sending[b].at = "newline")
      /\ sending' = [sending EXCEPT ![a].at = "newline"]
      /\ UNCHANGED <<comments, delivered, sent>>
  BY DEF WriteMessage
<1>2. m \in Mails /\ sending[a] = [at |-> "file", msg |-> m]
  BY <1>1 DEF MailInv, MailTypes, Idle
<1>3. sending' = [sending EXCEPT ![a] = [at |-> "newline", msg |-> m]]
  <2>1. [sending[a] EXCEPT !.at = "newline"] = [at |-> "newline", msg |-> m] BY <1>2
  <2> QED BY <1>1, <2>1
<1>4. n \in Nat /\ n \in DOMAIN inboxFile /\ inboxFile \in Seq(Seq(Mails))
      /\ DOMAIN inboxFile = 1..n
  BY DEF MailInv, MailTypes
<1>5. Append(inboxFile[n], m) \in Seq(Mails) BY <1>2, <1>4
<1>6. /\ inboxFile' \in Seq(Seq(Mails)) /\ Len(inboxFile') = n /\ DOMAIN inboxFile' = 1..n
      /\ inboxFile'[n] = Append(inboxFile[n], m)
      /\ \A i \in 1..n : i # n => inboxFile'[i] = inboxFile[i]
  BY <1>1, <1>4, <1>5
<1>7. MailTypes'
  <2>1. torn' \in BOOLEAN BY <1>1 DEF MailInv, MailTypes
  <2>2. sending' \in [Agents -> {Idle} \cup [at : {"file", "newline", "issue"}, msg : Mails]]
    BY <1>2, <1>3 DEF MailInv, MailTypes
  <2> QED BY <1>1, <1>4, <1>6, <2>1, <2>2 DEF MailInv, MailTypes
<1>8. sending'[a] = [at |-> "newline", msg |-> m] /\ \A b \in Agents : b # a => sending'[b] = sending[b]
  BY <1>3 DEF MailInv, MailTypes
<1> HIDE DEF n, m
<1>9. LinesInv'
  <2> SUFFICES ASSUME ~ torn, \A b \in Agents : sending[b].at # "newline"
               PROVE  LinesInv'
    BY <1>1 DEF LinesInv
  <2>1. inboxFile[n] = <<>> BY DEF MailInv, LinesInv, n
  <2>2. inboxFile'[n] = <<m>> BY <1>6, <2>1
  <2>3. \A i \in 1..n : inboxFile'[i] = <<>> \/ \E x \in Mails : inboxFile'[i] = <<x>>
    <3>1. \A i \in 1..n : inboxFile[i] = <<>> \/ \E x \in Mails : inboxFile[i] = <<x>>
      BY <1>4 DEF MailInv, LinesInv
    <3> QED BY <1>2, <1>6, <2>2, <3>1
  <2>4. sending'[a].at = "newline" /\ sending'[a].msg = m BY <1>8
  <2>5. \A b \in Agents : sending'[b].at = "newline" => b = a BY <1>8
  <2> QED BY <1>6, <2>2, <2>3, <2>4, <2>5, Zenon DEF LinesInv
<1>10. KeptInv'
  <2> SUFFICES ASSUME NEW d \in delivered
               PROVE  IF d[1] = "file"
                      THEN ~ torn' => \E i \in 1..n : i < n /\ inboxFile'[i] = <<d[2]>>
                      ELSE \E i \in DOMAIN comments : comments[i] = d[2]
    BY <1>1, <1>6 DEF KeptInv
  <2>1. CASE d[1] = "file" /\ ~ torn
    <3>1. PICK i \in 1..n : i < n /\ inboxFile[i] = <<d[2]>>
      BY <2>1, <1>4 DEF MailInv, KeptInv, n
    <3>2. i # n BY <3>1, <1>4
    <3>3. inboxFile'[i] = <<d[2]>> BY <3>1, <3>2, <1>6
    <3> QED BY <2>1, <3>1, <3>3, Zenon
  <2>2. CASE d[1] = "file" /\ torn BY <2>2, <1>1
  <2>3. CASE d[1] # "file" BY <2>3 DEF MailInv, KeptInv
  <2> QED BY <2>1, <2>2, <2>3
<1> QED BY <1>7, <1>9, <1>10 DEF MailInv

LEMMA NewlineOK == ASSUME MailInv, NEW a \in Agents, WriteNewline(a) PROVE MailInv'
<1> DEFINE n == Len(inboxFile)
           m == sending[a].msg
<1>1. /\ sending[a].at = "newline" /\ inboxFile' = Append(inboxFile, <<>>)
      /\ sending' = [sending EXCEPT ![a] = Idle]
      /\ delivered' = delivered \cup {<<"file", m>>}
      /\ UNCHANGED <<comments, torn, sent>>
  BY DEF WriteNewline, Returns
<1>2. m \in Mails BY <1>1 DEF MailInv, MailTypes, Idle
<1>3. n \in Nat /\ n > 0 /\ inboxFile \in Seq(Seq(Mails)) /\ DOMAIN inboxFile = 1..n
  BY DEF MailInv, MailTypes
<1>4. <<>> \in Seq(Mails) OBVIOUS
<1>5. /\ inboxFile' \in Seq(Seq(Mails)) /\ Len(inboxFile') = n + 1
      /\ DOMAIN inboxFile' = 1..(n + 1) /\ inboxFile'[n + 1] = <<>>
      /\ \A i \in 1..n : inboxFile'[i] = inboxFile[i]
  BY <1>1, <1>3, <1>4
<1>6. sending'[a] = Idle /\ \A b \in Agents : b # a => sending'[b] = sending[b]
  BY <1>1 DEF MailInv, MailTypes
<1>7. MailTypes'
  <2>1. sending' \in [Agents -> {Idle} \cup [at : {"file", "newline", "issue"}, msg : Mails]]
    BY <1>1 DEF MailInv, MailTypes
  <2>2. <<"file", m>> \in Stores \X Mails BY <1>2 DEF Stores
  <2> HIDE DEF m
  <2> QED BY <1>1, <1>3, <1>5, <2>1, <2>2 DEF MailInv, MailTypes
<1>8. ~ torn => inboxFile[n] = <<m>> /\ \A b \in Agents : sending'[b].at # "newline"
  BY <1>1, <1>6 DEF MailInv, LinesInv, Idle
<1> HIDE DEF n, m
<1>9. LinesInv'
  <2> SUFFICES ASSUME ~ torn PROVE LinesInv' BY <1>1 DEF LinesInv
  <2>1. \A i \in 1..n : inboxFile[i] = <<>> \/ \E x \in Mails : inboxFile[i] = <<x>>
    BY <1>3 DEF MailInv, LinesInv
  <2>2. \A i \in 1..(n + 1) : i \in 1..n \/ i = n + 1 BY <1>3
  <2>3. \A i \in 1..(n + 1) : inboxFile'[i] = <<>> \/ \E x \in Mails : inboxFile'[i] = <<x>>
    BY <1>5, <2>1, <2>2
  <2> QED BY <1>5, <1>8, <2>3, Zenon DEF LinesInv
<1>10. KeptInv'
  <2> SUFFICES ASSUME NEW d \in delivered'
               PROVE  IF d[1] = "file"
                      THEN ~ torn => \E i \in 1..(n + 1) : i < n + 1 /\ inboxFile'[i] = <<d[2]>>
                      ELSE \E i \in DOMAIN comments : comments[i] = d[2]
    BY <1>1, <1>5 DEF KeptInv
  <2>1. CASE d = <<"file", m>>
    <3>1. n \in 1..(n + 1) /\ n < n + 1 /\ n \in 1..n BY <1>3
    <3>2. ~ torn => inboxFile'[n] = <<d[2]>> BY <2>1, <3>1, <1>5, <1>8
    <3> QED BY <2>1, <3>1, <3>2
  <2>2. CASE d \in delivered /\ d[1] = "file" /\ ~ torn
    <3>1. PICK i \in 1..n : i < n /\ inboxFile[i] = <<d[2]>>
      BY <2>2, <1>3 DEF MailInv, KeptInv, n
    <3>2. i \in 1..(n + 1) /\ i < n + 1 BY <3>1, <1>3
    <3>3. inboxFile'[i] = <<d[2]>> BY <3>1, <1>5
    <3> QED BY <2>2, <3>2, <3>3, Zenon
  <2>3. CASE d \in delivered /\ ~ (d[1] = "file" /\ ~ torn)
    BY <2>3 DEF MailInv, KeptInv
  <2> QED BY <1>1, <2>1, <2>2, <2>3
<1> QED BY <1>7, <1>9, <1>10 DEF MailInv

LEMMA SenderDiesOK == ASSUME MailInv, NEW a \in Agents, SenderDies(a) PROVE MailInv'
<1>1. /\ sending' = [sending EXCEPT ![a] = Idle]
      /\ torn' = (torn \/ sending[a].at = "newline")
      /\ UNCHANGED <<inboxFile, comments, delivered, sent>>
  BY DEF SenderDies
<1>2. sending'[a] = Idle /\ \A b \in Agents : b # a => sending'[b] = sending[b]
  BY <1>1 DEF MailInv, MailTypes
<1>3. MailTypes'
  <2>1. sending' \in [Agents -> {Idle} \cup [at : {"file", "newline", "issue"}, msg : Mails]]
    BY <1>1 DEF MailInv, MailTypes
  <2>2. torn' \in BOOLEAN BY <1>1 DEF MailInv, MailTypes
  <2> QED BY <1>1, <2>1, <2>2 DEF MailInv, MailTypes
<1>4. ~ torn' => /\ ~ torn
                 /\ \A b \in Agents :
                      /\ sending'[b].at = "newline" <=> sending[b].at = "newline"
                      /\ sending[b].at = "newline" => sending'[b] = sending[b]
  <2> SUFFICES ASSUME ~ torn', NEW b \in Agents
               PROVE  /\ ~ torn
                      /\ sending'[b].at = "newline" <=> sending[b].at = "newline"
                      /\ sending[b].at = "newline" => sending'[b] = sending[b]
    <3>1. ~ torn' => ~ torn BY <1>1
    <3> QED BY <3>1
  <2>1. ~ torn /\ sending[a].at # "newline" BY <1>1
  <2>2. CASE b = a BY <2>1, <2>2, <1>2 DEF Idle
  <2>3. CASE b # a BY <2>1, <2>3, <1>2
  <2> QED BY <2>2, <2>3
<1>5. LinesInv'
  <2> SUFFICES ASSUME ~ torn' PROVE LinesInv' BY DEF LinesInv
  <2>1. inboxFile' = inboxFile BY <1>1
  <2>2. ~ torn /\ \A b \in Agents : sending'[b].at = "newline" => sending[b].at = "newline" /\ sending'[b].msg = sending[b].msg
    BY <1>4, Zenon
  <2>3. (\A b \in Agents : sending'[b].at # "newline") => \A b \in Agents : sending[b].at # "newline"
    BY <1>4, Zenon
  <2> QED BY <2>1, <2>2, <2>3 DEF MailInv, LinesInv
<1>6. KeptInv'
  <2>1. ~ torn' => ~ torn BY <1>4
  <2> QED BY <2>1, <1>1, Zenon DEF MailInv, KeptInv
<1> QED BY <1>3, <1>5, <1>6 DEF MailInv

\* A comment is posted, whether or not the sender hears of it, or a person's.
LEMMA CommentKeeps ==
  ASSUME MailInv, NEW c \in Mails \cup {Chatter}, comments' = Append(comments, c)
  PROVE  /\ comments' \in Seq(Mails \cup {Chatter})
         /\ \E i \in DOMAIN comments' : comments'[i] = c
         /\ \A i \in DOMAIN comments : i \in DOMAIN comments' /\ comments'[i] = comments[i]
<1>1. comments \in Seq(Mails \cup {Chatter}) BY DEF MailInv, MailTypes
<1>2. Len(comments) + 1 \in DOMAIN comments' /\ comments'[Len(comments) + 1] = c BY <1>1
<1> QED BY <1>1, <1>2

LEMMA PostOK ==
  ASSUME MailInv, NEW a \in Agents, PostComment(a) \/ PostUnreported(a)
  PROVE  MailInv'
<1> DEFINE m == sending[a].msg
<1>1. /\ sending[a].at = "issue" /\ comments' = Append(comments, m)
      /\ sending' = [sending EXCEPT ![a] = Idle]
      /\ delivered' = delivered \/ delivered' = delivered \cup {<<"issue", m>>}
      /\ UNCHANGED <<inboxFile, torn, sent>>
  BY DEF PostComment, PostUnreported, Returns
<1>2. m \in Mails BY <1>1 DEF MailInv, MailTypes, Idle
<1>3. sending'[a] = Idle /\ \A b \in Agents : b # a => sending'[b] = sending[b]
  BY <1>1 DEF MailInv, MailTypes
<1> HIDE DEF m
<1>4. /\ comments' \in Seq(Mails \cup {Chatter})
      /\ \E i \in DOMAIN comments' : comments'[i] = m
      /\ \A i \in DOMAIN comments : i \in DOMAIN comments' /\ comments'[i] = comments[i]
  BY <1>1, <1>2, CommentKeeps
<1>5. MailTypes'
  <2>1. sending' \in [Agents -> {Idle} \cup [at : {"file", "newline", "issue"}, msg : Mails]]
    BY <1>1 DEF MailInv, MailTypes
  <2>2. <<"issue", m>> \in Stores \X Mails BY <1>2 DEF Stores
  <2> QED BY <1>1, <1>4, <2>1, <2>2 DEF MailInv, MailTypes
<1>6. \A b \in Agents :
        /\ sending'[b].at = "newline" <=> sending[b].at = "newline"
        /\ sending[b].at = "newline" => sending'[b] = sending[b]
  BY <1>1, <1>3 DEF Idle
<1>7. LinesInv' BY <1>1, <1>6 DEF MailInv, LinesInv
<1>8. KeptInv'
  <2> SUFFICES ASSUME NEW d \in delivered'
               PROVE  IF d[1] = "file"
                      THEN ~ torn => \E i \in DOMAIN inboxFile : i < Len(inboxFile) /\ inboxFile[i] = <<d[2]>>
                      ELSE \E i \in DOMAIN comments' : comments'[i] = d[2]
    BY <1>1 DEF KeptInv
  <2>1. CASE d = <<"issue", m>> BY <2>1, <1>4
  <2>2. CASE d \in delivered BY <2>2, <1>4 DEF MailInv, KeptInv
  <2> QED BY <1>1, <2>1, <2>2
<1> QED BY <1>5, <1>7, <1>8 DEF MailInv

LEMMA PersonOK == ASSUME MailInv, PersonComments PROVE MailInv'
<1>1. /\ sent' = sent + 1 /\ comments' = Append(comments, Chatter)
      /\ UNCHANGED <<inboxFile, sending, delivered, torn>>
  BY DEF PersonComments
<1>2. /\ comments' \in Seq(Mails \cup {Chatter})
      /\ \A i \in DOMAIN comments : i \in DOMAIN comments' /\ comments'[i] = comments[i]
  BY <1>1, CommentKeeps
<1>3. MailTypes' BY <1>1, <1>2 DEF MailInv, MailTypes
<1>4. LinesInv' BY <1>1 DEF MailInv, LinesInv
<1>5. KeptInv' BY <1>1, <1>2 DEF MailInv, KeptInv
<1> QED BY <1>3, <1>4, <1>5 DEF MailInv

\* A claim whose send returned is seen by check_scope and check_scope_overlap when their
\* read of the store succeeds, in the file unless two sends were torn apart, on the
\* sentinel issue unless fenced; a read that fails is answered Clear and is not spoken of.
THEOREM ClaimsSeen == MailSpec => []ClaimIsSeen
<1>1. MailInv /\ UNCHANGED mailVars => MailInv'
  BY DEF mailVars, MailInv, MailTypes, LinesInv, KeptInv
<1>2. MailInv /\ [MailNext]_mailVars => MailInv'
  <2> SUFFICES ASSUME MailInv, MailNext PROVE MailInv' BY <1>1
  <2> QED BY SendOK, WriteOK, NewlineOK, SenderDiesOK, PostOK, PersonOK DEF MailNext
<1>3. MailInv => ClaimIsSeen
  <2> SUFFICES ASSUME MailInv, NEW d \in delivered, d[2].kind = "scope_claim", Legible(d[1], d[2])
               PROVE  /\ CheckScopeOverlap(d[1], d[2].issue, TRUE) # Clear
                      /\ \A f \in d[2].files : CheckScope(d[1], d[2].issue, {f}, TRUE) # Clear
    BY FailOpen DEF ClaimIsSeen
  <2>1. d[1] \in {"file", "issue"} BY DEF MailInv, MailTypes, Stores
  <2>2. PICK i \in Nat : Placed(i, d[2]) \in Claims(d[1], d[2].issue, TRUE)
    <3>1. CASE d[1] = "file"
      <4>1. ~ torn BY <3>1 DEF Legible
      <4>2. PICK i \in DOMAIN inboxFile : inboxFile[i] = <<d[2]>>
        BY <3>1, <4>1 DEF MailInv, KeptInv
      <4>3. \A j \in DOMAIN inboxFile : ~ (Len(inboxFile[j]) > 1)
        <5>1. \A j \in DOMAIN inboxFile : inboxFile[j] = <<>> \/ \E m \in Mails : inboxFile[j] = <<m>>
          BY <4>1 DEF MailInv, LinesInv
        <5>2. Len(<<>>) = 0 /\ \A m : Len(<<m>>) = 1 OBVIOUS
        <5>3. ASSUME NEW j \in DOMAIN inboxFile PROVE ~ (Len(inboxFile[j]) > 1)
          <6>1. CASE inboxFile[j] = <<>> BY <6>1, <5>2
          <6>2. ASSUME NEW m, inboxFile[j] = <<m>> PROVE ~ (Len(inboxFile[j]) > 1)
            <7>1. Len(inboxFile[j]) = 1 BY <5>2, <6>2, Zenon
            <7> QED BY <7>1
          <6> QED BY <5>1, <6>1, <6>2
        <5> QED BY <5>3
      <4>4. i \in Nat BY DEF MailInv, MailTypes
      <4> QED BY <3>1, <4>2, <4>3, <4>4, FileClaim
    <3>2. CASE d[1] = "issue"
      <4>1. PICK i \in DOMAIN comments : comments[i] = d[2] BY <3>2 DEF MailInv, KeptInv
      <4>2. ~ d[2].fenced BY <3>2 DEF Legible
      <4>3. i \in Nat BY DEF MailInv, MailTypes
      <4> QED BY <3>2, <4>1, <4>2, <4>3, IssueClaim
    <3> QED BY <2>1, <3>1, <3>2
  <2>3. Placed(i, d[2]).msg = d[2] BY DEF Placed
  <2> QED BY <2>2, <2>3, OverlapSeen, ScopeSeen
<1> QED BY <1>2, <1>3, MailInitOK, PTL DEF MailSpec

-----------------------------------------------------------------------------
(* Parity.                                                                 *)

SkillLines == [form : {"cli", "direct", "other"}, mentions : Seq(Mentions)]
ParityTypes == skills \in [SkillFiles -> [name : Names, lines : Seq(SkillLines)]]

LEMMA MentionIs ==
  ASSUME NEW lines, NEW m
  PROVE  m \in Mentioned(lines) <=>
           \E i \in DOMAIN lines : Invokes(lines[i]) /\ \E k \in DOMAIN lines[i].mentions : m = <<i, k>>
BY DEF Mentioned, Sources

LEMMA MentionAtPlace ==
  ASSUME NEW lines \in Seq(SkillLines), NEW m \in Mentioned(lines)
  PROVE  /\ m[1] \in DOMAIN lines /\ m[1] \in Nat /\ Invokes(lines[m[1]])
         /\ m[2] \in DOMAIN lines[m[1]].mentions /\ m[2] \in Nat /\ m = <<m[1], m[2]>>
<1>0. PICK i \in DOMAIN lines :
        Invokes(lines[i]) /\ \E k \in DOMAIN lines[i].mentions : m = <<i, k>>
  BY MentionIs
<1>1. PICK k \in DOMAIN lines[i].mentions : m = <<i, k>> BY <1>0
<1>2. i \in Nat /\ lines[i] \in SkillLines OBVIOUS
<1>3. lines[i].mentions \in Seq(Mentions) BY <1>2 DEF SkillLines
<1>4. k \in Nat BY <1>3
<1> QED BY <1>0, <1>1, <1>2, <1>4

\* Of two mentions one is sooner.
LEMMA SoonerIsTotal ==
  ASSUME NEW lines \in Seq(SkillLines), NEW m \in Mentioned(lines), NEW n \in Mentioned(lines), m # n
  PROVE  Sooner(lines, m, n) \/ Sooner(lines, n, m)
<1>1. m[1] \in Nat /\ m[2] \in Nat /\ n[1] \in Nat /\ n[2] \in Nat /\ (m[1] # n[1] \/ m[2] # n[2])
  BY MentionAtPlace
<1> QED BY <1>1 DEF Sooner

\* Every flag that is mentioned is extracted, where it is mentioned first.
LEMMA FirstIsExtracted ==
  ASSUME NEW lines \in Seq(SkillLines), NEW m \in Mentioned(lines)
  PROVE  \E n \in ExtractSkillFlags(lines) : MentionAt(lines, n).flag = MentionAt(lines, m).flag
<1> DEFINE S == {n \in Mentioned(lines) : MentionAt(lines, n).flag = MentionAt(lines, m).flag}
           C == {n \in S : lines[n[1]].form = "cli"}
           T == IF C = {} THEN S ELSE C
           I == {n[1] : n \in T}
<1>1. T # {} /\ T \subseteq S /\ S \subseteq Mentioned(lines) OBVIOUS
<1>2. \A n \in S : n[1] \in Nat /\ n[2] \in Nat BY MentionAtPlace
<1>3. I # {} /\ I \in SUBSET Nat BY <1>1, <1>2
<1>4. PICK i \in I : \A j \in I : ~ (j < i) BY <1>3, LeastOf
<1> DEFINE K == {n[2] : n \in {o \in T : o[1] = i}}
<1>5. K # {} /\ K \in SUBSET Nat BY <1>1, <1>2, <1>4
<1> HIDE DEF K
<1>6. PICK k \in K : \A j \in K : ~ (j < k) BY <1>5, LeastOf
<1>7. PICK n \in T : n[1] = i /\ n[2] = k BY <1>6 DEF K
<1>8. ASSUME NEW o \in S, Sooner(lines, o, n)
      PROVE  FALSE
  <2>1. o \in T
    <3>1. CASE C = {} BY <3>1
    <3>2. CASE C # {}
      <4>1. n \in C BY <3>2
      <4>2. lines[o[1]].form = "cli" BY <1>8, <4>1 DEF Sooner
      <4> QED BY <4>2, <3>2
    <3> QED BY <3>1, <3>2
  <2>2. ~ (lines[o[1]].form = "cli" /\ lines[n[1]].form # "cli")
    <3>1. CASE C = {} BY <3>1
    <3>2. CASE C # {} BY <3>2
    <3> QED BY <3>1, <3>2
  <2>3. o[1] < n[1] \/ (o[1] = n[1] /\ o[2] < n[2]) BY <1>8, <2>2 DEF Sooner
  <2>4. ~ (o[1] < n[1]) BY <1>4, <1>7, <2>1
  <2>5. o[1] = i => o[2] \in K BY <2>1 DEF K
  <2>6. ~ (o[1] = n[1] /\ o[2] < n[2]) BY <1>6, <1>7, <2>5
  <2> QED BY <2>3, <2>4, <2>6
<1>9. n \in S BY <1>1
<1> HIDE DEF T, C, I
<1>10. n \in ExtractSkillFlags(lines) BY <1>8, <1>9 DEF ExtractSkillFlags
<1> QED BY <1>9, <1>10

LEMMA CollectedAreFiles == CollectSkills \subseteq SkillFiles
BY DEF CollectSkills

LEMMA ParityTyped == ParitySpec => []ParityTypes
<1>1. ParityInit => ParityTypes
  <2>1. <<>> \in Seq(SkillLines) OBVIOUS
  <2>2. [name : Names, lines : {<<>>}] \subseteq [name : Names, lines : Seq(SkillLines)] BY <2>1
  <2> QED BY <2>2 DEF ParityInit, ParityTypes
<1>2. ParityTypes /\ [ParityNext]_parityVars => ParityTypes'
  <2> SUFFICES ASSUME ParityTypes, [ParityNext]_parityVars PROVE ParityTypes' OBVIOUS
  <2>1. ASSUME NEW d \in SkillFiles, NEW form \in {"cli", "direct", "other"}, NEW ms \in Seq(Mentions),
               WriteLine(d, form, ms)
        PROVE  ParityTypes'
    <3>1. Line(form, ms) \in SkillLines BY DEF Line, SkillLines
    <3>2. skills[d].lines \in Seq(SkillLines) /\ skills[d].name \in Names BY DEF ParityTypes
    <3> DEFINE new == Append(skills[d].lines, Line(form, ms))
    <3>3. new \in Seq(SkillLines) BY <3>1, <3>2
    <3>4. skills' = [skills EXCEPT ![d].lines = new] BY <2>1 DEF WriteLine
    <3> HIDE DEF new
    <3> QED BY <3>3, <3>4 DEF ParityTypes
  <2>2. ASSUME NEW d \in SkillFiles, NEW form \in {"cli", "direct", "other"},
               NEW ms \in {<<m>> : m \in Mentions} \cup {<<m, n>> : m, n \in Mentions}
        PROVE  ms \in Seq(Mentions)
    <3>1. ASSUME NEW m \in Mentions PROVE <<m>> \in Seq(Mentions) OBVIOUS
    <3>2. ASSUME NEW m \in Mentions, NEW n \in Mentions PROVE <<m, n>> \in Seq(Mentions) OBVIOUS
    <3>3. CASE ms \in {<<m>> : m \in Mentions}
      <4>1. PICK m \in Mentions : ms = <<m>> BY <3>3
      <4> QED BY <3>1, <4>1
    <3>4. CASE ms \in {<<m, n>> : m, n \in Mentions}
      <4>1. PICK m \in Mentions, n \in Mentions : ms = <<m, n>> BY <3>4
      <4> QED BY <3>2, <4>1
    <3> QED BY <3>3, <3>4
  <2>3. ASSUME NEW f \in Flags, NEW kind \in Kinds, AddFlag(f, kind) PROVE ParityTypes'
    BY <2>3 DEF AddFlag, ParityTypes
  <2>4. ASSUME NEW f \in Flags, DropFlag(f) PROVE ParityTypes' BY <2>4 DEF DropFlag, ParityTypes
  <2>5. CASE UNCHANGED parityVars BY <2>5 DEF parityVars, ParityTypes
  <2> QED BY <2>1, <2>2, <2>3, <2>4, <2>5 DEF ParityNext
<1> QED BY <1>1, <1>2, PTL DEF ParitySpec

\* However the skills and the flags came about: where the scan finds nothing, the
\* skill names a command and only flags that clap has, and it finds nothing twice.
THEOREM NoFindingIsParity == ParitySpec => []CleanIsParity
<1>1. ASSUME ParityTypes PROVE CleanIsParity
  <2> SUFFICES ASSUME NEW d \in CollectSkills
               PROVE  LET found == CheckCliSkillParity[d]
                          named == {skills[d].lines[i] : i \in {j \in DOMAIN skills[d].lines :
                                                                  Invokes(skills[d].lines[j])}}
                      IN  /\ IsInjective(found)
                          /\ found = <<>> =>
                               /\ skills[d].name = "command"
                               /\ \A line \in named : \A k \in DOMAIN line.mentions :
                                    LET f == line.mentions[k].flag
                                    IN  /\ f \in DOMAIN clap
                                        /\ \E o \in named : [flag |-> f, kind |-> clap[f]] \in Range(o.mentions)
    BY DEF CleanIsParity
  <2> DEFINE found == CheckCliSkillParity[d]
             lines == skills[d].lines
             extra == {m \in ExtractSkillFlags(lines) : MentionAt(lines, m).flag \notin DOMAIN clap}
             typed == {m \in ExtractSkillFlags(lines) \ extra :
                         clap[MentionAt(lines, m).flag] # MentionAt(lines, m).kind}
             named == {lines[i] : i \in {j \in DOMAIN lines : Invokes(lines[j])}}
             finding == [m \in extra \cup typed |->
                           <<IF m \in extra THEN "flag-extra" ELSE "flag-type", skills[d].name,
                             MentionAt(lines, m).flag>>]
  <2>1. lines \in Seq(SkillLines)
    <3>1. d \in SkillFiles BY CollectedAreFiles
    <3>2. skills[d] \in [name : Names, lines : Seq(SkillLines)] BY <1>1, <3>1 DEF ParityTypes
    <3> QED BY <3>2
  <2>2. CASE skills[d].name # "command"
    <3>1. found = << <<"skill-without-cli", skills[d].name>> >> BY <2>2 DEF CheckCliSkillParity
    <3>2. IsInjective(found) /\ found # <<>> BY <3>1 DEF IsInjective
    <3> QED BY <3>2
  <2>3. CASE skills[d].name = "command"
    <3>1. found = finding BY <2>3 DEF CheckCliSkillParity
    <3>2. extra \cup typed \subseteq ExtractSkillFlags(lines) /\ ExtractSkillFlags(lines) \subseteq Mentioned(lines)
      BY DEF ExtractSkillFlags
    <3>3. DOMAIN finding = extra \cup typed
          /\ \A m \in extra \cup typed : finding[m][3] = MentionAt(lines, m).flag
      OBVIOUS
    <3>4. ASSUME NEW m \in extra \cup typed, NEW n \in extra \cup typed,
                 MentionAt(lines, m).flag = MentionAt(lines, n).flag
          PROVE  m = n
      <4> HIDE DEF extra, typed
      <4>1. m \in ExtractSkillFlags(lines) /\ n \in ExtractSkillFlags(lines) BY <3>2
      <4>2. m \in Mentioned(lines) /\ n \in Mentioned(lines) BY <3>2
      <4>3. ~ Sooner(lines, m, n) /\ ~ Sooner(lines, n, m) BY <3>4, <4>1, <4>2 DEF ExtractSkillFlags
      <4> QED BY <2>1, <4>2, <4>3, SoonerIsTotal
    <3>5. IsInjective(finding)
      <4> HIDE DEF finding, extra, typed
      <4> QED BY <3>3, <3>4 DEF IsInjective
    <3>6. ASSUME finding = <<>>, NEW line \in named, NEW k \in DOMAIN line.mentions
          PROVE  /\ line.mentions[k].flag \in DOMAIN clap
                 /\ \E o \in named :
                      [flag |-> line.mentions[k].flag, kind |-> clap[line.mentions[k].flag]] \in Range(o.mentions)
      <4>1. PICK i \in DOMAIN lines : Invokes(lines[i]) /\ line = lines[i] OBVIOUS
      <4>2. <<i, k>> \in Mentioned(lines) /\ MentionAt(lines, <<i, k>>) = line.mentions[k]
        BY <4>1, MentionIs DEF MentionAt
      <4>3. PICK n \in ExtractSkillFlags(lines) : MentionAt(lines, n).flag = line.mentions[k].flag
        BY <2>1, <4>2, FirstIsExtracted
      <4>4. n \in Mentioned(lines) BY <3>2
      <4>5. n \notin extra /\ n \notin typed BY <3>3, <3>6
      <4>6. MentionAt(lines, n).flag \in DOMAIN clap
            /\ clap[MentionAt(lines, n).flag] = MentionAt(lines, n).kind
        BY <4>3, <4>5
      <4>7. n[1] \in DOMAIN lines /\ Invokes(lines[n[1]]) /\ n[2] \in DOMAIN lines[n[1]].mentions
        BY <2>1, <4>4, MentionAtPlace
      <4>8. lines[n[1]] \in named BY <4>7
      <4> DEFINE src == lines[n[1]]
      <4>a. src \in SkillLines BY <2>1, <4>7
      <4>b. src.mentions \in Seq(Mentions) BY <4>a DEF SkillLines
      <4>9. lines[n[1]].mentions \in Seq(Mentions) BY <4>b
      <4>10. MentionAt(lines, n) \in Mentions /\ MentionAt(lines, n) \in Range(lines[n[1]].mentions)
        BY <4>7, <4>9 DEF MentionAt, Range
      <4>11. MentionAt(lines, n) = [flag |-> line.mentions[k].flag, kind |-> clap[line.mentions[k].flag]]
        BY <4>3, <4>6, <4>10 DEF Mentions
      <4> QED BY <4>3, <4>6, <4>8, <4>10, <4>11
    <3> HIDE DEF finding
    <3> QED BY <2>3, <3>1, <3>5, <3>6
  <2> QED BY <2>2, <2>3
<1> QED BY <1>1, ParityTyped, PTL

-----------------------------------------------------------------------------
(* IdleScan.                                                               *)

LEMMA GreatestOf ==
  ASSUME NEW n \in Nat, NEW S \in SUBSET (1..n), S # {}
  PROVE  \E k \in S : \A j \in S : j <= k
<1> DEFINE T == {i \in Nat : n - i \in S}
<1>1. T # {}
  <2>1. PICK x \in S : TRUE OBVIOUS
  <2>2. n - x \in Nat /\ n - (n - x) = x OBVIOUS
  <2> QED BY <2>1, <2>2
<1>2. PICK k \in T : \A j \in T : ~ (j < k) BY <1>1, LeastOf
<1>3. \A j \in S : n - j \in T OBVIOUS
<1>4. \A j \in S : j <= n - k
  <2> TAKE j \in S
  <2>1. ~ (n - j < k) BY <1>2, <1>3
  <2> QED BY <2>1
<1> QED BY <1>2, <1>4

-----------------------------------------------------------------------------
(* Uncovered ranges.                                                       *)

Segments == [line : Nat \ {0}, bare : BOOLEAN]
InOrder(segs) == segs \in Seq(Segments) /\ \A i, j \in DOMAIN segs : i < j => segs[i].line <= segs[j].line
Accs == [ranges : Seq(Nat \X Nat), start : Nat, prev : Nat]
NoRange == [ranges |-> <<>>, start |-> 0, prev |-> 0]

LEMMA SegmentsIs ==
  ASSUME NEW segs \in Seq(Segments), NEW i \in 1..Len(segs)
  PROVE  segs[i].line \in Nat /\ segs[i].line # 0 /\ segs[i].bare \in BOOLEAN /\ segs[i] \in Segments
<1>1. segs[i] \in Segments OBVIOUS
<1> QED BY <1>1 DEF Segments

\* One turn: a run that a covered segment ends is a range, if it has a line.
Ends(acc, seg) == ~ seg.bare /\ acc.start # 0 /\ seg.line - 1 >= acc.start

LEMMA StepIs ==
  ASSUME NEW acc \in Accs, NEW seg \in Segments
  PROVE  LET next == Step(acc, seg) IN
         /\ next \in Accs /\ next.prev = seg.line
         /\ next.ranges = IF Ends(acc, seg) THEN Append(acc.ranges, <<acc.start, seg.line - 1>>) ELSE acc.ranges
         /\ next.start = IF ~ seg.bare THEN 0 ELSE IF acc.start = 0 THEN seg.line ELSE acc.start
<1>1. acc.ranges \in Seq(Nat \X Nat) /\ acc.start \in Nat /\ seg.line \in Nat /\ seg.line # 0
  BY DEF Accs, Segments
<1>2. <<acc.start, seg.line - 1>> \in Nat \X Nat BY <1>1
<1>3. Append(acc.ranges, <<acc.start, seg.line - 1>>) \in Seq(Nat \X Nat) BY <1>1, <1>2
<1> DEFINE next == Step(acc, seg)
<1>4. /\ next.prev = seg.line
      /\ next.ranges = IF Ends(acc, seg) THEN Append(acc.ranges, <<acc.start, seg.line - 1>>) ELSE acc.ranges
      /\ next.start = IF ~ seg.bare THEN 0 ELSE IF acc.start = 0 THEN seg.line ELSE acc.start
  BY DEF Step, Ends
<1>5. next = [ranges |-> next.ranges, start |-> next.start, prev |-> next.prev] BY DEF Step
<1> HIDE DEF next
<1>6. next.ranges \in Seq(Nat \X Nat) /\ next.start \in Nat /\ next.prev \in Nat
  BY <1>1, <1>3, <1>4
<1>7. next \in Accs BY <1>5, <1>6 DEF Accs
<1> QED BY <1>4, <1>7 DEF next

Loops(segs, m) ==
  {f \in [0..m -> Accs] : \A n \in 0..m : f[n] = IF n = 0 THEN NoRange ELSE Step(f[n - 1], segs[n])}

LEMMA NoRangeIs == NoRange \in Accs
<1>1. <<>> \in Seq(Nat \X Nat) OBVIOUS
<1> QED BY <1>1 DEF NoRange, Accs

LEMMA LoopsExist ==
  ASSUME NEW segs \in Seq(Segments)
  PROVE  \A m \in 0..Len(segs) : Loops(segs, m) # {}
<1> DEFINE None == {m \in Nat : m <= Len(segs) /\ Loops(segs, m) = {}}
<1>0. Len(segs) \in Nat OBVIOUS
<1>1. SUFFICES ASSUME None # {} PROVE FALSE BY <1>0
<1>2. PICK m \in None : \A j \in None : ~ (j < m) BY <1>1, LeastOf
<1>3. m # 0
  <2> DEFINE g == [n \in 0..0 |-> NoRange]
  <2>1. g \in [0..0 -> Accs] BY NoRangeIs
  <2>2. \A n \in 0..0 : n = 0 /\ g[n] = NoRange OBVIOUS
  <2>3. g \in Loops(segs, 0) BY <2>1, <2>2, Zenon DEF Loops
  <2> QED BY <2>3
<1>4. m \in Nat /\ m <= Len(segs) /\ m - 1 \in Nat /\ m - 1 \notin None BY <1>2, <1>3
<1>5. PICK g : g \in Loops(segs, m - 1) BY <1>0, <1>4
<1> DEFINE h == [n \in 0..m |-> IF n = m THEN Step(g[m - 1], segs[m]) ELSE g[n]]
<1>6. g \in [0..(m - 1) -> Accs]
      /\ \A n \in 0..(m - 1) : g[n] = IF n = 0 THEN NoRange ELSE Step(g[n - 1], segs[n])
  BY <1>5 DEF Loops
<1>7. Step(g[m - 1], segs[m]) \in Accs
  <2>1. segs[m] \in Segments BY <1>0, <1>3, <1>4
  <2>2. g[m - 1] \in Accs BY <1>4, <1>6
  <2> QED BY <2>1, <2>2, StepIs
<1>8. h \in [0..m -> Accs]
  <2>1. \A n \in 0..m : n # m => n \in 0..(m - 1) BY <1>4
  <2> QED BY <2>1, <1>6, <1>7
<1>9. ASSUME NEW n \in 0..m
      PROVE  h[n] = IF n = 0 THEN NoRange ELSE Step(h[n - 1], segs[n])
  <2>1. CASE n = m
    <3>1. h[m - 1] = g[m - 1] BY <1>4
    <3> QED BY <2>1, <3>1, <1>3
  <2>2. CASE n # m
    <3>1. n \in 0..(m - 1) BY <2>2, <1>4
    <3>2. h[n] = g[n] BY <2>2
    <3>3. n # 0 => n - 1 \in 0..m /\ n - 1 # m /\ h[n - 1] = g[n - 1] BY <1>4, <3>1
    <3> QED BY <3>1, <3>2, <3>3, <1>6
  <2> QED BY <2>1, <2>2
<1>10. h \in Loops(segs, m) BY <1>8, <1>9 DEF Loops
<1> QED BY <1>10, <1>2

LEMMA TurnsIs ==
  ASSUME NEW segs \in Seq(Segments)
  PROVE  LET f == Turns(segs) IN
         /\ f \in [0..Len(segs) -> Accs] /\ f[0] = NoRange
         /\ \A n \in 1..Len(segs) : f[n] = Step(f[n - 1], segs[n])
<1> DEFINE F(f) == [n \in 0..Len(segs) |-> IF n = 0 THEN NoRange ELSE Step(f[n - 1], segs[n])]
<1>1. Turns(segs) = CHOOSE f : f = F(f) BY DEF Turns, NoRange
<1>2. Len(segs) \in Nat /\ Len(segs) \in 0..Len(segs) OBVIOUS
<1>3. PICK g : g \in Loops(segs, Len(segs)) BY <1>2, LoopsExist
<1>4. g = F(g) BY <1>3 DEF Loops
<1>5. Turns(segs) = F(Turns(segs)) BY <1>1, <1>4, Zenon
<1> DEFINE f == Turns(segs)
<1>6. ASSUME NEW h, h = F(h) PROVE h = g
  <2> DEFINE Off == {n \in Nat : n <= Len(segs) /\ h[n] # g[n]}
  <2>1. Off = {}
    <3> SUFFICES ASSUME Off # {} PROVE FALSE OBVIOUS
    <3>1. PICK n \in Off : \A j \in Off : ~ (j < n) BY LeastOf
    <3>2. n \in 0..Len(segs) /\ (n # 0 => n - 1 \in Nat /\ n - 1 < n /\ n - 1 <= Len(segs)) BY <1>2, <3>1
    <3>3. n # 0 => h[n - 1] = g[n - 1] BY <3>1, <3>2
    <3>4. h[n] = IF n = 0 THEN NoRange ELSE Step(h[n - 1], segs[n]) BY <1>6, <3>2
    <3>5. g[n] = IF n = 0 THEN NoRange ELSE Step(g[n - 1], segs[n]) BY <1>4, <3>2
    <3> QED BY <3>1, <3>3, <3>4, <3>5
  <2>2. DOMAIN h = 0..Len(segs) /\ h = [n \in 0..Len(segs) |-> h[n]] BY <1>6
  <2>3. DOMAIN g = 0..Len(segs) /\ g = [n \in 0..Len(segs) |-> g[n]] BY <1>4
  <2>4. \A n \in 0..Len(segs) : h[n] = g[n] BY <2>1
  <2> QED BY <2>2, <2>3, <2>4
<1>7. f = g BY <1>5, <1>6
<1>8. g \in [0..Len(segs) -> Accs]
      /\ \A n \in 0..Len(segs) : g[n] = IF n = 0 THEN NoRange ELSE Step(g[n - 1], segs[n])
  BY <1>3 DEF Loops
<1> HIDE DEF f, F
<1>9. /\ f \in [0..Len(segs) -> Accs] /\ f[0] = NoRange
      /\ \A n \in 1..Len(segs) : f[n] = Step(f[n - 1], segs[n])
  BY <1>2, <1>7, <1>8
<1> QED BY <1>9 DEF f

\* Of the first n segments: a run of bare ones that goes on, a run that ended, and
\* a bare one that is in a run of either kind.
GoesOn(segs, n, start) == \E a \in 1..n : start = segs[a].line /\ \A j \in a..n : segs[j].bare
Ended(segs, n, r) ==
  \E a \in 1..n : \E c \in 1..n :
    a < c /\ r = <<segs[a].line, segs[c].line - 1>> /\ \A j \in a..c - 1 : segs[j].bare
InOpen(segs, n, i, start) == start # 0 /\ start <= segs[i].line /\ \A j \in i..n : segs[j].bare
InEnded(segs, n, i, ranges) ==
  \E c \in i + 1..n :
    /\ ~ segs[c].bare
    /\ segs[c].line - 1 < segs[i].line
         \/ \E k \in DOMAIN ranges : ranges[k][1] <= segs[i].line /\ ranges[k][2] = segs[c].line - 1

LoopInv(segs, n, acc) ==
  /\ acc \in Accs /\ acc.prev = IF n = 0 THEN 0 ELSE segs[n].line
  /\ acc.start # 0 => GoesOn(segs, n, acc.start)
  /\ \A k \in DOMAIN acc.ranges : Ended(segs, n, acc.ranges[k])
  /\ \A i \in 1..n : segs[i].bare => InOpen(segs, n, i, acc.start) \/ InEnded(segs, n, i, acc.ranges)

LEMMA AppendIs ==
  ASSUME NEW R \in Seq(Nat \X Nat), NEW r \in Nat \X Nat
  PROVE  /\ Len(R) \in Nat /\ DOMAIN R = 1..Len(R)
         /\ DOMAIN Append(R, r) = 1..Len(R) + 1
         /\ Append(R, r)[Len(R) + 1] = r
         /\ \A k \in 1..Len(R) : Append(R, r)[k] = R[k]
         /\ \A k \in DOMAIN Append(R, r) : k \in DOMAIN R \/ k = Len(R) + 1
<1>1. Len(R) \in Nat /\ DOMAIN R = 1..Len(R) OBVIOUS
<1>2. Append(R, r) \in Seq(Nat \X Nat) /\ Len(Append(R, r)) = Len(R) + 1 OBVIOUS
<1>3. DOMAIN Append(R, r) = 1..Len(R) + 1 BY <1>2
<1>4. Append(R, r)[Len(R) + 1] = r BY <1>1
<1>5. \A k \in 1..Len(R) : Append(R, r)[k] = R[k] BY <1>1
<1> QED BY <1>1, <1>3, <1>4, <1>5

LEMMA LoopStep ==
  ASSUME NEW segs, InOrder(segs), NEW n \in 1..Len(segs), NEW acc, LoopInv(segs, n - 1, acc)
  PROVE  LoopInv(segs, n, Step(acc, segs[n]))
<1> DEFINE seg == segs[n]
           next == Step(acc, seg)
<1>1. segs \in Seq(Segments) /\ Len(segs) \in Nat /\ DOMAIN segs = 1..Len(segs) BY DEF InOrder
<1>2. \A i \in 1..n : segs[i].line \in Nat /\ segs[i].line # 0 /\ segs[i].bare \in BOOLEAN
                      /\ segs[i].line <= segs[n].line
  <2> TAKE i \in 1..n
  <2>1. i \in 1..Len(segs) BY <1>1
  <2>2. segs[i].line \in Nat /\ segs[i].line # 0 /\ segs[i].bare \in BOOLEAN BY <1>1, <2>1, SegmentsIs
  <2>3. i < n \/ i = n BY <1>1
  <2> QED BY <1>1, <2>1, <2>2, <2>3 DEF InOrder
<1>3. seg \in Segments /\ acc \in Accs BY <1>1, SegmentsIs DEF LoopInv
<1>4. /\ next \in Accs /\ next.prev = seg.line
      /\ next.ranges = IF Ends(acc, seg) THEN Append(acc.ranges, <<acc.start, seg.line - 1>>) ELSE acc.ranges
      /\ next.start = IF ~ seg.bare THEN 0 ELSE IF acc.start = 0 THEN seg.line ELSE acc.start
  BY <1>3, StepIs
<1>5. acc.ranges \in Seq(Nat \X Nat) /\ acc.start \in Nat BY <1>3 DEF Accs
<1>6. n \in Nat /\ n - 1 \in Nat /\ n # 0 BY <1>1
<1> HIDE DEF next
<1>7. next.start # 0 => GoesOn(segs, n, next.start)
  <2> SUFFICES ASSUME next.start # 0 PROVE GoesOn(segs, n, next.start) OBVIOUS
  <2>1. seg.bare BY <1>4
  <2>2. CASE acc.start = 0
    <3>1. next.start = segs[n].line BY <1>4, <2>1, <2>2
    <3>2. n \in 1..n /\ \A j \in n..n : segs[j].bare BY <1>6, <2>1
    <3> QED BY <3>1, <3>2 DEF GoesOn
  <2>3. CASE acc.start # 0
    <3>1. next.start = acc.start BY <1>4, <2>1, <2>3
    <3>2. PICK a \in 1..n - 1 : acc.start = segs[a].line /\ \A j \in a..n - 1 : segs[j].bare
      BY <2>3 DEF LoopInv, GoesOn
    <3>3. a \in 1..n /\ \A j \in a..n : j \in a..n - 1 \/ j = n BY <1>6
    <3> QED BY <2>1, <3>1, <3>2, <3>3 DEF GoesOn
  <2> QED BY <2>2, <2>3
<1>8. \A r : Ended(segs, n - 1, r) => Ended(segs, n, r)
  <2>1. 1..n - 1 \subseteq 1..n BY <1>6
  <2> QED BY <2>1 DEF Ended
<1>9. Ends(acc, seg) => Ended(segs, n, <<acc.start, seg.line - 1>>)
  <2> SUFFICES ASSUME Ends(acc, seg) PROVE Ended(segs, n, <<acc.start, seg.line - 1>>) OBVIOUS
  <2>1. PICK a \in 1..n - 1 : acc.start = segs[a].line /\ \A j \in a..n - 1 : segs[j].bare
    BY DEF LoopInv, GoesOn, Ends
  <2>2. a \in 1..n /\ n \in 1..n /\ a < n BY <1>6
  <2> QED BY <2>1, <2>2 DEF Ended
<1> DEFINE new == <<acc.start, seg.line - 1>>
           R == acc.ranges
           Q == next.ranges
<1>a. seg.line \in Nat /\ seg.line # 0 /\ new \in Nat \X Nat
  <2>1. n \in 1..n BY <1>6
  <2>2. seg.line \in Nat /\ seg.line # 0 BY <1>2, <2>1
  <2>3. \A x \in Nat : x # 0 => x - 1 \in Nat OBVIOUS
  <2>4. seg.line - 1 \in Nat BY <2>2, <2>3
  <2> HIDE DEF seg
  <2> QED BY <1>5, <2>2, <2>4
<1>b. /\ R \in Seq(Nat \X Nat)
      /\ Ends(acc, seg) => Q = Append(R, new)
      /\ ~ Ends(acc, seg) => Q = R
  BY <1>4, <1>5
<1>c. Ended(segs, n, new) \/ ~ Ends(acc, seg) BY <1>9
<1> HIDE DEF new, R, Q
<1>10. \A k \in DOMAIN R : k \in DOMAIN Q /\ Q[k] = R[k]
  <2>1. CASE Ends(acc, seg)
    <3>1. Q = Append(R, new) /\ new \in Nat \X Nat BY <2>1, <1>a, <1>b
    <3>2. DOMAIN R = 1..Len(R) /\ DOMAIN Q = 1..Len(R) + 1 /\ Len(R) \in Nat
          /\ \A k \in 1..Len(R) : Q[k] = R[k]
      BY <1>b, <3>1, AppendIs
    <3> QED BY <3>2
  <2>2. CASE ~ Ends(acc, seg) BY <2>2, <1>b
  <2> QED BY <2>1, <2>2
<1>d. Ends(acc, seg) => Len(R) + 1 \in DOMAIN Q /\ Q[Len(R) + 1] = new
                        /\ \A k \in DOMAIN Q : k \in DOMAIN R \/ k = Len(R) + 1
  <2> SUFFICES ASSUME Ends(acc, seg)
               PROVE  Len(R) + 1 \in DOMAIN Q /\ Q[Len(R) + 1] = new
                      /\ \A k \in DOMAIN Q : k \in DOMAIN R \/ k = Len(R) + 1
    OBVIOUS
  <2>1. Q = Append(R, new) /\ new \in Nat \X Nat BY <1>a, <1>b
  <2>2. Len(R) \in Nat /\ DOMAIN Q = 1..Len(R) + 1 /\ Q[Len(R) + 1] = new
        /\ \A k \in DOMAIN Q : k \in DOMAIN R \/ k = Len(R) + 1
    BY <1>b, <2>1, AppendIs
  <2> QED BY <2>2
<1>11. \A k \in DOMAIN next.ranges : Ended(segs, n, next.ranges[k])
  <2>1. \A k \in DOMAIN R : Ended(segs, n, R[k]) BY <1>8 DEF LoopInv, R
  <2>2. \A k \in DOMAIN Q : Ended(segs, n, Q[k])
    <3>1. CASE Ends(acc, seg) BY <3>1, <1>10, <1>c, <1>d, <2>1
    <3>2. CASE ~ Ends(acc, seg) BY <3>2, <1>b, <2>1
    <3> QED BY <3>1, <3>2
  <2> QED BY <2>2 DEF Q
<1>12. ASSUME NEW i \in 1..n, segs[i].bare
       PROVE  InOpen(segs, n, i, next.start) \/ InEnded(segs, n, i, next.ranges)
  <2>1. CASE i = n
    <3>1. next.start # 0 /\ next.start <= segs[n].line
      <4>1. next.start = IF acc.start = 0 THEN seg.line ELSE acc.start BY <1>4, <1>12, <2>1
      <4>2. CASE acc.start = 0 BY <4>1, <4>2, <1>2, <2>1
      <4>3. CASE acc.start # 0
        <5>1. PICK a \in 1..n - 1 : acc.start = segs[a].line BY <4>3 DEF LoopInv, GoesOn
        <5>2. a \in 1..n BY <1>6
        <5> QED BY <4>1, <4>3, <5>1, <5>2, <1>2
      <4> QED BY <4>2, <4>3
    <3>2. \A j \in i..n : segs[j].bare BY <1>12, <2>1, <1>6
    <3> QED BY <3>1, <3>2, <2>1 DEF InOpen
  <2>2. CASE i # n /\ InEnded(segs, n - 1, i, acc.ranges)
    <3>1. PICK c \in i + 1..n - 1 :
            /\ ~ segs[c].bare
            /\ segs[c].line - 1 < segs[i].line
                 \/ \E k \in DOMAIN acc.ranges :
                      acc.ranges[k][1] <= segs[i].line /\ acc.ranges[k][2] = segs[c].line - 1
      BY <2>2 DEF InEnded
    <3>2. c \in i + 1..n BY <1>6
    <3> QED BY <3>1, <3>2, <1>10 DEF InEnded, R, Q
  <2>3. CASE i # n /\ InOpen(segs, n - 1, i, acc.start)
    <3>1. acc.start # 0 /\ acc.start <= segs[i].line /\ \A j \in i..n - 1 : segs[j].bare
      BY <2>3 DEF InOpen
    <3>2. CASE seg.bare
      <4>1. next.start = acc.start BY <1>4, <3>1, <3>2
      <4>2. \A j \in i..n : j \in i..n - 1 \/ j = n BY <1>6
      <4> QED BY <3>1, <3>2, <4>1, <4>2 DEF InOpen
    <3>3. CASE ~ seg.bare
      <4>1. n \in i + 1..n BY <1>6, <2>3
      <4>2. CASE seg.line - 1 < segs[i].line BY <3>3, <4>1, <4>2 DEF InEnded
      <4>3. CASE ~ (seg.line - 1 < segs[i].line)
        <5>0. segs[i].line \in Nat /\ acc.start \in Nat /\ acc.start <= segs[i].line BY <3>1, <1>2, <1>5
        <5>1. seg.line - 1 >= acc.start
          <6>1. ASSUME NEW x \in Nat, NEW y \in Nat, NEW z \in Nat, z <= x, ~ (y - 1 < x) PROVE y - 1 >= z
            BY <6>1
          <6>2. seg.line \in Nat /\ ~ (seg.line - 1 < segs[i].line) BY <4>3, <1>a
          <6> HIDE DEF seg
          <6> QED BY <5>0, <6>1, <6>2
        <5>2. Ends(acc, seg) BY <3>1, <3>3, <5>1 DEF Ends
        <5>3. Len(R) + 1 \in DOMAIN Q /\ Q[Len(R) + 1] = new BY <1>d, <5>2
        <5>4. new[1] <= segs[i].line /\ new[2] = segs[n].line - 1 BY <5>0 DEF new
        <5>5. \E k \in DOMAIN next.ranges :
                next.ranges[k][1] <= segs[i].line /\ next.ranges[k][2] = segs[n].line - 1
          BY <5>3, <5>4 DEF Q
        <5> QED BY <3>3, <4>1, <5>5 DEF InEnded
      <4> QED BY <4>2, <4>3
    <3> QED BY <3>2, <3>3
  <2>4. i # n => i \in 1..n - 1 BY <1>6
  <2> QED BY <1>12, <2>1, <2>2, <2>3, <2>4 DEF LoopInv
<1>13. LoopInv(segs, n, next) BY <1>4, <1>6, <1>7, <1>11, <1>12 DEF LoopInv
<1> QED BY <1>13 DEF next

LEMMA LoopInvs ==
  ASSUME NEW segs, InOrder(segs)
  PROVE  LoopInv(segs, Len(segs), Turns(segs)[Len(segs)])
<1> DEFINE f == Turns(segs)
           Bad == {n \in Nat : n <= Len(segs) /\ ~ LoopInv(segs, n, f[n])}
<1>1. segs \in Seq(Segments) /\ Len(segs) \in Nat BY DEF InOrder
<1>2. f[0] = NoRange /\ \A n \in 1..Len(segs) : f[n] = Step(f[n - 1], segs[n]) BY <1>1, TurnsIs
<1> HIDE DEF f
<1>3. LoopInv(segs, 0, f[0])
  <2>1. NoRange.start = 0 /\ NoRange.prev = 0 /\ NoRange.ranges = <<>> BY DEF NoRange
  <2>2. DOMAIN NoRange.ranges = {} /\ 1..0 = {} BY <2>1
  <2> QED BY <1>2, <2>1, <2>2, NoRangeIs DEF LoopInv
<1>4. Bad = {}
  <2> SUFFICES ASSUME Bad # {} PROVE FALSE OBVIOUS
  <2>1. PICK n \in Bad : \A j \in Bad : ~ (j < n) BY LeastOf
  <2>2. n \in 1..Len(segs) /\ n - 1 \in Nat /\ n - 1 <= Len(segs) BY <1>1, <1>3, <2>1
  <2>3. LoopInv(segs, n - 1, f[n - 1]) BY <2>1, <2>2
  <2>4. LoopInv(segs, n, f[n]) BY <1>2, <2>2, <2>3, LoopStep
  <2> QED BY <2>1, <2>4
<1>5. LoopInv(segs, Len(segs), f[Len(segs)]) BY <1>1, <1>4
<1> QED BY <1>5 DEF f

LEMMA MaxIs ==
  ASSUME NEW n \in Nat, NEW S \in SUBSET (1..n), S # {}
  PROVE  Max(S) \in S /\ \A j \in S : j <= Max(S)
<1>1. \E k \in S : \A j \in S : j <= k BY GreatestOf
<1>2. \E k \in S : \A j \in S : k >= j BY <1>1
<1>3. Max(S) \in S /\ \A j \in S : Max(S) >= j BY <1>2 DEF Max
<1> QED BY <1>3

\* Where the report has no more ranges than are listed, all are.
LEMMA AllListed ==
  ASSUME NEW segs, AllRanges(segs) \in Seq(Nat \X Nat), Len(AllRanges(segs)) <= TopRanges
  PROVE  UncoveredRanges(segs) = {AllRanges(segs)[i] : i \in DOMAIN AllRanges(segs)}
<1> DEFINE all == AllRanges(segs)
           Size(r) == r[2] - r[1]
           ahead(i) == {j \in DOMAIN all : \/ Size(all[j]) > Size(all[i])
                                           \/ Size(all[j]) = Size(all[i]) /\ j < i}
           top == {i \in DOMAIN all : Cardinality(ahead(i)) < TopRanges}
<1>1. Len(all) \in Nat /\ DOMAIN all = 1..Len(all) /\ TopRanges \in Nat BY ScanAssumption
<1>2. IsFiniteSet(DOMAIN all) /\ Cardinality(DOMAIN all) = Len(all)
  <2> HIDE DEF all
  <2>1. ASSUME NEW m \in Nat PROVE IsFiniteSet(1..m) /\ Cardinality(1..m) = m
    <3>1. IsFiniteSet(1..m) /\ Cardinality(1..m) = IF 1 > m THEN 0 ELSE m - 1 + 1
      BY <2>1, 1 \in Int, m \in Int, FS_Interval, Zenon
    <3> QED BY <3>1
  <2> QED BY <1>1, <2>1
<1>a. \A i \in DOMAIN all : all[i][1] \in Nat /\ all[i][2] \in Nat
  <2>1. all \in Seq(Nat \X Nat) OBVIOUS
  <2> HIDE DEF all
  <2>2. \A i \in DOMAIN all : all[i] \in Nat \X Nat BY <1>1, <2>1
  <2> QED BY <2>2
<1>b. Len(all) <= TopRanges OBVIOUS
<1>3. UncoveredRanges(segs) = {all[i] : i \in top} BY DEF UncoveredRanges
<1> HIDE DEF all
<1>c. ASSUME NEW i \in DOMAIN all PROVE Cardinality(ahead(i)) < TopRanges
  <2>1. all[i][1] \in Nat /\ all[i][2] \in Nat BY <1>a
  <2>a. \A x \in Nat : \A y \in Nat : ~ (x - y > x - y) OBVIOUS
  <2>b. ~ (Size(all[i]) > Size(all[i])) BY <2>1, <2>a
  <2>c. i \in Nat BY <1>c, <1>1
  <2>d. ~ (i < i) BY <2>c
  <2>2. ~ (Size(all[i]) > Size(all[i])) /\ ~ (i < i) BY <2>b, <2>d
  <2>3. i \notin ahead(i) BY <2>2
  <2>4. ahead(i) \subseteq DOMAIN all \ {i} BY <2>3
  <2> HIDE DEF ahead
  <2>6. IsFiniteSet(DOMAIN all \ {i}) /\ Cardinality(DOMAIN all \ {i}) = Len(all) - 1
    BY <1>c, <1>2, FS_RemoveElement
  <2>7. Cardinality(ahead(i)) <= Len(all) - 1 /\ Cardinality(ahead(i)) \in Nat
    BY <2>4, <2>6, FS_Subset, FS_CardinalityType
  <2> QED BY <1>1, <1>b, <2>7
<1> HIDE DEF ahead
<1>4. top = DOMAIN all BY <1>c
<1> QED BY <1>3, <1>4 DEF all

\* Segments a to b are bare and whatever comes behind them is below line l.
Spans(segs, a, b, l) ==
  /\ a \in 1..Len(segs) /\ b \in 1..Len(segs) /\ a <= b /\ segs[a].line <= l
  /\ \A j \in a..b : segs[j].bare
  /\ \A j \in b + 1..Len(segs) : l < segs[j].line

Before(segs, l) == {i \in DOMAIN segs : segs[i].line < l}
BareLine(segs, l) ==
  /\ Before(segs, l) # {} /\ segs[Max(Before(segs, l))].bare
  /\ \A i \in DOMAIN segs : segs[i].line = l => segs[i].bare
Starts(segs, l) == \E i \in DOMAIN segs : segs[i].line = l /\ segs[i].bare

LEMMA InOrderIs ==
  ASSUME NEW segs, InOrder(segs)
  PROVE  /\ segs \in Seq(Segments) /\ Len(segs) \in Nat /\ DOMAIN segs = 1..Len(segs)
         /\ \A i \in 1..Len(segs) : segs[i].line \in Nat /\ segs[i].line # 0 /\ segs[i].bare \in BOOLEAN
         /\ \A i, j \in 1..Len(segs) : i <= j => segs[i].line <= segs[j].line
<1>1. segs \in Seq(Segments) /\ Len(segs) \in Nat /\ DOMAIN segs = 1..Len(segs) BY DEF InOrder
<1>2. \A i \in 1..Len(segs) : segs[i].line \in Nat /\ segs[i].line # 0 /\ segs[i].bare \in BOOLEAN
  BY <1>1, SegmentsIs
<1>3. ASSUME NEW i \in 1..Len(segs), NEW j \in 1..Len(segs), i <= j PROVE segs[i].line <= segs[j].line
  <2>1. CASE i < j BY <1>1, <2>1 DEF InOrder
  <2>2. CASE i = j BY <1>2, <2>2
  <2>3. i < j \/ i = j BY <1>1, <1>3
  <2> QED BY <2>1, <2>2, <2>3
<1> QED BY <1>1, <1>2, <1>3

LEMMA SpansBare ==
  ASSUME NEW segs, InOrder(segs), NEW l \in Nat, NEW a, NEW b, Spans(segs, a, b, l)
  PROVE  BareLine(segs, l) \/ Starts(segs, l)
<1>1. /\ Len(segs) \in Nat /\ DOMAIN segs = 1..Len(segs)
      /\ \A i \in 1..Len(segs) : segs[i].line \in Nat
      /\ \A i, j \in 1..Len(segs) : i <= j => segs[i].line <= segs[j].line
  BY InOrderIs
<1>2. a \in 1..Len(segs) /\ b \in 1..Len(segs) /\ a <= b /\ segs[a].line <= l BY DEF Spans
<1>3. \A j \in 1..Len(segs) : b < j => l < segs[j].line BY <1>1, <1>2 DEF Spans
<1>4. \A j \in 1..Len(segs) : a <= j /\ j <= b => segs[j].bare BY <1>1, <1>2 DEF Spans
<1>5. SUFFICES ASSUME ~ Starts(segs, l) PROVE BareLine(segs, l) OBVIOUS
<1>6. \A j \in 1..Len(segs) : a <= j /\ j <= b => segs[j].line # l BY <1>1, <1>4, <1>5 DEF Starts
<1>7. segs[a].line < l BY <1>1, <1>2, <1>6
<1>8. a \in Before(segs, l) /\ Before(segs, l) \in SUBSET (1..Len(segs)) BY <1>1, <1>2, <1>7 DEF Before
<1> DEFINE p == Max(Before(segs, l))
<1>9. p \in Before(segs, l) /\ a <= p BY <1>1, <1>8, MaxIs
<1> HIDE DEF p
<1>10. p \in 1..Len(segs) /\ segs[p].line < l BY <1>1, <1>9 DEF Before
<1>11. p <= b
  <2>1. ~ (l < segs[p].line) BY <1>1, <1>10
  <2> QED BY <1>1, <1>2, <1>3, <1>10, <2>1
<1>12. segs[p].bare BY <1>4, <1>9, <1>10, <1>11
<1>13. \A i \in 1..Len(segs) : segs[i].line # l
  <2> TAKE i \in 1..Len(segs)
  <2>1. CASE i < a
    <3>1. segs[i].line <= segs[a].line BY <1>1, <1>2, <2>1
    <3>2. segs[i].line \in Nat /\ segs[a].line \in Nat BY <1>1, <1>2
    <3> QED BY <3>1, <3>2, <1>7
  <2>2. CASE a <= i /\ i <= b BY <2>2, <1>6
  <2>3. CASE b < i
    <3>1. l < segs[i].line /\ segs[i].line \in Nat BY <1>1, <1>3, <2>3
    <3> QED BY <3>1
  <2>4. i \in Nat /\ a \in Nat /\ b \in Nat BY <1>1, <1>2
  <2> QED BY <2>1, <2>2, <2>3, <2>4
<1> QED BY <1>1, <1>8, <1>12, <1>13 DEF BareLine, p

\* What the loop leaves: every range is a run of bare segments, and a bare segment
\* is in the run that is still open or in one that ended.
LEMMA AllRangesIs ==
  ASSUME NEW segs, InOrder(segs)
  PROVE  /\ AllRanges(segs) \in Seq(Nat \X Nat)
         /\ \A k \in DOMAIN AllRanges(segs) :
              \/ Ended(segs, Len(segs), AllRanges(segs)[k])
              \/ \E start \in Nat : /\ GoesOn(segs, Len(segs), start)
                                    /\ AllRanges(segs)[k] = <<start, segs[Len(segs)].line>>
         /\ \A i \in 1..Len(segs) : segs[i].bare =>
              \/ \E k \in DOMAIN AllRanges(segs) : /\ AllRanges(segs)[k][1] <= segs[i].line
                                                   /\ AllRanges(segs)[k][2] = segs[Len(segs)].line
              \/ InEnded(segs, Len(segs), i, AllRanges(segs))
<1> DEFINE len == Len(segs)
           acc == Turns(segs)[len]
           new == <<acc.start, acc.prev>>
           all == AllRanges(segs)
           R == acc.ranges
<1>1. LoopInv(segs, len, acc) BY LoopInvs
<1>2. len \in Nat /\ \A i \in 1..len : segs[i].line \in Nat BY InOrderIs
<1>3. all = IF acc.start = 0 THEN R ELSE Append(R, new) BY DEF AllRanges
<1> HIDE DEF acc, all
<1>4. acc \in Accs /\ acc.prev = IF len = 0 THEN 0 ELSE segs[len].line BY <1>1 DEF LoopInv
<1>5. R \in Seq(Nat \X Nat) /\ acc.start \in Nat /\ acc.prev \in Nat BY <1>4 DEF Accs
<1>6. new \in Nat \X Nat BY <1>5
<1>7. acc.start # 0 => GoesOn(segs, len, acc.start) BY <1>1 DEF LoopInv
<1>8. acc.start # 0 => acc.prev = segs[len].line
  <2>1. GoesOn(segs, len, acc.start) => len # 0 BY <1>2 DEF GoesOn
  <2> QED BY <1>4, <1>7, <2>1
<1>9. \A k \in DOMAIN R : Ended(segs, len, R[k]) BY <1>1 DEF LoopInv
<1>10. ASSUME NEW i \in 1..len, segs[i].bare
       PROVE  InOpen(segs, len, i, acc.start) \/ InEnded(segs, len, i, R)
  BY <1>1, <1>10 DEF LoopInv
<1> HIDE DEF len, new, R
<1>11. CASE acc.start = 0
  <2>1. all = R BY <1>3, <1>11
  <2>2. \A i \in 1..len : ~ InOpen(segs, len, i, acc.start) BY <1>11 DEF InOpen
  <2> QED BY <1>5, <1>9, <1>10, <2>1, <2>2 DEF all, len
<1>12. CASE acc.start # 0
  <2>1. all = Append(R, new) BY <1>3, <1>12
  <2>2. /\ Len(R) \in Nat /\ DOMAIN R = 1..Len(R) /\ DOMAIN all = 1..Len(R) + 1
        /\ all[Len(R) + 1] = new /\ \A k \in 1..Len(R) : all[k] = R[k]
        /\ \A k \in DOMAIN all : k \in DOMAIN R \/ k = Len(R) + 1
    BY <1>5, <1>6, <2>1, AppendIs
  <2>3. all \in Seq(Nat \X Nat) BY <1>5, <1>6, <2>1
  <2>4. new = <<acc.start, segs[len].line>> BY <1>8, <1>12 DEF new
  <2>5. ASSUME NEW k \in DOMAIN all
        PROVE  \/ Ended(segs, len, all[k])
               \/ \E start \in Nat : GoesOn(segs, len, start) /\ all[k] = <<start, segs[len].line>>
    <3>1. CASE k \in DOMAIN R BY <3>1, <1>9, <2>2
    <3>2. CASE k = Len(R) + 1 BY <3>2, <1>5, <1>7, <1>12, <2>2, <2>4
    <3> QED BY <3>1, <3>2, <2>2
  <2>6. ASSUME NEW i \in 1..len, segs[i].bare
        PROVE  \/ \E k \in DOMAIN all : all[k][1] <= segs[i].line /\ all[k][2] = segs[len].line
               \/ InEnded(segs, len, i, all)
    <3>1. CASE InOpen(segs, len, i, acc.start)
      <4>1. acc.start <= segs[i].line BY <3>1 DEF InOpen
      <4>2. Len(R) + 1 \in DOMAIN all BY <2>2
      <4>3. all[Len(R) + 1][1] = acc.start /\ all[Len(R) + 1][2] = segs[len].line BY <2>2, <2>4
      <4> QED BY <4>1, <4>2, <4>3
    <3>2. CASE InEnded(segs, len, i, R)
      <4>1. \A k \in DOMAIN R : k \in DOMAIN all /\ all[k] = R[k] BY <2>2
      <4> QED BY <3>2, <4>1 DEF InEnded
    <3> QED BY <1>10, <2>6, <3>1, <3>2
  <2> QED BY <2>3, <2>5, <2>6 DEF all, len
<1> QED BY <1>11, <1>12

LEMMA ListedIsBare ==
  ASSUME NEW segs, InOrder(segs), NEW k \in DOMAIN AllRanges(segs),
         NEW l \in AllRanges(segs)[k][1]..AllRanges(segs)[k][2]
  PROVE  BareLine(segs, l) \/ Starts(segs, l)
<1> DEFINE r == AllRanges(segs)[k]
           len == Len(segs)
<1>1. r \in Nat \X Nat BY AllRangesIs
<1>2. /\ len \in Nat /\ \A i \in 1..len : segs[i].line \in Nat /\ segs[i].line # 0
      /\ \A i, j \in 1..len : i <= j => segs[i].line <= segs[j].line
  BY InOrderIs
<1>3. \/ Ended(segs, len, r)
      \/ \E start \in Nat : GoesOn(segs, len, start) /\ r = <<start, segs[len].line>>
  BY AllRangesIs
<1>4. l \in r[1]..r[2] OBVIOUS
<1> HIDE DEF r
<1>5. l \in Nat /\ r[1] <= l /\ l <= r[2] /\ r[2] \in Nat
  <2>1. r[1] \in Nat /\ r[2] \in Nat BY <1>1
  <2> QED BY <1>4, <2>1
<1>6. CASE Ended(segs, len, r)
  <2>1. PICK a \in 1..len : \E c \in 1..len :
          a < c /\ r = <<segs[a].line, segs[c].line - 1>> /\ \A j \in a..c - 1 : segs[j].bare
    BY <1>6 DEF Ended
  <2>2. PICK c \in 1..len :
          a < c /\ r = <<segs[a].line, segs[c].line - 1>> /\ \A j \in a..c - 1 : segs[j].bare
    BY <2>1
  <2>3. segs[a].line <= l /\ l <= segs[c].line - 1 BY <1>5, <2>2
  <2>4. c - 1 \in 1..len /\ a <= c - 1 BY <1>2, <2>2
  <2>5. ASSUME NEW j \in (c - 1) + 1..len PROVE l < segs[j].line
    <3>1. j \in 1..len /\ c <= j BY <1>2, <2>2
    <3>2. segs[c].line <= segs[j].line /\ segs[c].line \in Nat /\ segs[j].line \in Nat BY <1>2, <3>1
    <3>3. \A x, y, z \in Nat : x <= y - 1 /\ y <= z => x < z OBVIOUS
    <3>4. l \in Nat /\ l <= segs[c].line - 1 BY <1>5, <2>3
    <3> QED BY <3>2, <3>3, <3>4
  <2>6. Spans(segs, a, c - 1, l) BY <2>2, <2>3, <2>4, <2>5 DEF Spans
  <2> QED BY <1>5, <2>6, SpansBare
<1>7. CASE \E start \in Nat : GoesOn(segs, len, start) /\ r = <<start, segs[len].line>>
  <2>1. PICK start \in Nat : GoesOn(segs, len, start) /\ r = <<start, segs[len].line>> BY <1>7
  <2>2. PICK a \in 1..len : start = segs[a].line /\ \A j \in a..len : segs[j].bare BY <2>1 DEF GoesOn
  <2>3. segs[a].line <= l BY <1>5, <2>1, <2>2
  <2>4. len \in 1..len /\ a <= len /\ len + 1..len = {} BY <1>2
  <2>5. Spans(segs, a, len, l) BY <2>2, <2>3, <2>4 DEF Spans
  <2> QED BY <1>5, <2>5, SpansBare
<1> QED BY <1>3, <1>6, <1>7

LEMMA BareIsListed ==
  ASSUME NEW segs, InOrder(segs), NEW l \in Nat, segs # <<>>, l <= segs[Len(segs)].line, BareLine(segs, l)
  PROVE  \E k \in DOMAIN AllRanges(segs) : l \in AllRanges(segs)[k][1]..AllRanges(segs)[k][2]
<1> DEFINE all == AllRanges(segs)
           len == Len(segs)
           p == Max(Before(segs, l))
<1>1. /\ len \in Nat /\ DOMAIN segs = 1..len
      /\ \A i \in 1..len : segs[i].line \in Nat /\ segs[i].line # 0
      /\ \A i, j \in 1..len : i <= j => segs[i].line <= segs[j].line
  BY InOrderIs
<1>2. Before(segs, l) \in SUBSET (1..len) /\ Before(segs, l) # {} BY <1>1 DEF Before, BareLine
<1>3. p \in Before(segs, l) /\ \A j \in Before(segs, l) : j <= p BY <1>1, <1>2, MaxIs
<1>4. segs[p].bare /\ \A i \in 1..len : segs[i].line = l => segs[i].bare BY <1>1 DEF BareLine
<1>5. all \in Seq(Nat \X Nat) BY AllRangesIs
<1>6. \A k \in DOMAIN all : all[k][1] \in Nat /\ all[k][2] \in Nat
  <2> HIDE DEF all
  <2>1. \A k \in DOMAIN all : all[k] \in Nat \X Nat BY <1>5
  <2> QED BY <2>1
<1> HIDE DEF p
<1>7. p \in 1..len /\ segs[p].line \in Nat /\ segs[p].line < l BY <1>1, <1>3 DEF Before
<1>8. \/ \E k \in DOMAIN all : all[k][1] <= segs[p].line /\ all[k][2] = segs[len].line
      \/ InEnded(segs, len, p, all)
  BY <1>4, <1>7, AllRangesIs
<1>9. l <= segs[len].line OBVIOUS
<1> HIDE DEF all
<1>10. CASE \E k \in DOMAIN all : all[k][1] <= segs[p].line /\ all[k][2] = segs[len].line
  <2>1. PICK k \in DOMAIN all : all[k][1] <= segs[p].line /\ all[k][2] = segs[len].line BY <1>10
  <2>2. all[k][1] \in Nat /\ all[k][2] \in Nat BY <1>6
  <2>3. l \in all[k][1]..all[k][2] BY <1>7, <1>9, <2>1, <2>2
  <2> QED BY <2>3 DEF all
<1>11. CASE InEnded(segs, len, p, all)
  <2>1. PICK c \in p + 1..len :
          /\ ~ segs[c].bare
          /\ segs[c].line - 1 < segs[p].line
               \/ \E k \in DOMAIN all : all[k][1] <= segs[p].line /\ all[k][2] = segs[c].line - 1
    BY <1>11 DEF InEnded
  <2>2. c \in 1..len /\ segs[c].line \in Nat /\ p < c /\ c \in Nat /\ p \in Nat BY <1>1, <1>7
  <2>3. segs[c].line # l BY <1>4, <2>1, <2>2
  <2>4. ~ (segs[c].line < l)
    <3>1. c \notin Before(segs, l) BY <1>3, <2>2
    <3> QED BY <1>1, <2>2, <3>1 DEF Before
  <2>5. l <= segs[c].line - 1 BY <2>2, <2>3, <2>4
  <2>6. ~ (segs[c].line - 1 < segs[p].line) BY <1>7, <2>2, <2>5
  <2>7. PICK k \in DOMAIN all : all[k][1] <= segs[p].line /\ all[k][2] = segs[c].line - 1
    BY <2>1, <2>6
  <2>8. all[k][1] \in Nat /\ all[k][2] \in Nat BY <1>6
  <2>a. all[k][1] <= l BY <1>7, <2>7, <2>8
  <2>b. l <= all[k][2] BY <2>5, <2>7
  <2>9. l \in all[k][1]..all[k][2] BY <2>8, <2>a, <2>b
  <2> QED BY <2>9 DEF all
<1> QED BY <1>8, <1>10, <1>11

LEMMA RangesAre ==
  ASSUME scan.kind = "coverage" => InOrder(scan.segments)
  PROVE  RangesExact
<1> SUFFICES ASSUME scan.kind = "coverage", Len(AllRanges(scan.segments)) <= TopRanges
             PROVE  RangesExact
  BY DEF RangesExact
<1> DEFINE segs == scan.segments
           all == AllRanges(segs)
           listed == UNION {r[1]..r[2] : r \in UncoveredRanges(segs)}
           end == IF segs = <<>> THEN 0 ELSE segs[Len(segs)].line
           BeforeLine(l) == {i \in DOMAIN segs : segs[i].line < l}
           Bare(l) == /\ BeforeLine(l) # {} /\ segs[Max(BeforeLine(l))].bare
                      /\ \A i \in DOMAIN segs : segs[i].line = l => segs[i].bare
<1>1. InOrder(segs) OBVIOUS
<1>2. all \in Seq(Nat \X Nat) BY <1>1, AllRangesIs
<1>3. UncoveredRanges(segs) = {all[k] : k \in DOMAIN all} BY <1>2, AllListed
<1>4. \A l : Bare(l) <=> BareLine(segs, l) BY DEF BareLine, Before
<1> HIDE DEF segs, all, BeforeLine, Bare
<1>5. ASSUME NEW l \in 1..end, Bare(l) PROVE l \in listed
  <2>1. segs # <<>> BY <1>5
  <2>2. segs \in Seq(Segments) /\ Len(segs) \in Nat /\ segs[Len(segs)].line \in Nat
    <3>1. segs \in Seq(Segments) /\ Len(segs) \in Nat BY <1>1, InOrderIs
    <3>2. Len(segs) \in 1..Len(segs) BY <2>1, <3>1
    <3> QED BY <1>1, <3>1, <3>2, InOrderIs
  <2>3. l \in Nat /\ l <= segs[Len(segs)].line BY <1>5, <2>1, <2>2
  <2>4. PICK k \in DOMAIN all : l \in all[k][1]..all[k][2] BY <1>1, <1>4, <1>5, <2>1, <2>3, BareIsListed DEF all
  <2> QED BY <1>3, <2>4
<1>6. ASSUME NEW l \in listed PROVE Bare(l) \/ \E i \in DOMAIN segs : segs[i].line = l /\ segs[i].bare
  <2>1. PICK k \in DOMAIN all : l \in all[k][1]..all[k][2] BY <1>3, <1>6
  <2>2. BareLine(segs, l) \/ Starts(segs, l) BY <1>1, <2>1, ListedIsBare DEF all
  <2> QED BY <1>4, <2>2 DEF Starts
<1> QED BY <1>5, <1>6 DEF RangesExact, segs, BeforeLine, Bare

\* Patterns.
\* The rest of the path, from segment s, falls to the rest of the pattern, from part p.
Takes(pattern, path, i, cut) ==
  /\ cut[i - 1] <= cut[i]
  /\ pattern[i] # "**" => cut[i] = cut[i - 1] + 1 /\ SegmentMatch(pattern[i], path[cut[i]])
Cuts(pattern, path, p, s) ==
  {cut \in [p - 1..Len(pattern) -> 0..Len(path)] :
     /\ cut[p - 1] = s - 1 /\ cut[Len(pattern)] = Len(path)
     /\ \A i \in p..Len(pattern) : Takes(pattern, path, i, cut)}
Fits(pattern, path, p, s) == Cuts(pattern, path, p, s) # {}

\* What the code takes for a match of the rests, in terms of shorter ones.
Rests(pattern, path, p, s, g) ==
  IF p > Len(pattern) \/ s > Len(path)
  THEN \/ p > Len(pattern) /\ s > Len(path)
       \/ p = Len(pattern) /\ pattern[p] = "**"
  ELSE IF pattern[p] = "**" THEN g[<<p + 1, s>>] \/ g[<<p, s + 1>>]
  ELSE SegmentMatch(pattern[p], path[s]) /\ g[<<p + 1, s + 1>>]
Positions(pattern, path) == (1..Len(pattern) + 1) \X (1..Len(path) + 1)

LEMMA FitsEnd ==
  ASSUME NEW pattern, NEW path, Len(pattern) \in Nat, Len(path) \in Nat,
         \A i \in 2..Len(pattern) : ~ (pattern[i - 1] = "**" /\ pattern[i] = "**"),
         NEW p \in 1..Len(pattern) + 1, NEW s \in 1..Len(path) + 1,
         p > Len(pattern) \/ s > Len(path)
  PROVE  Fits(pattern, path, p, s) <=> \/ p > Len(pattern) /\ s > Len(path)
                                       \/ p = Len(pattern) /\ pattern[p] = "**"
<1> DEFINE P == Len(pattern)
           S == Len(path)
<1>1. P \in Nat /\ S \in Nat /\ p \in Nat /\ s \in Nat /\ 1 <= p /\ p <= P + 1 /\ 1 <= s /\ s <= S + 1 OBVIOUS
<1>2. p > P \/ s > S OBVIOUS
<1>3. \A i \in 2..P : ~ (pattern[i - 1] = "**" /\ pattern[i] = "**") OBVIOUS
<1>4. Cuts(pattern, path, p, s) =
        {cut \in [p - 1..P -> 0..S] :
           /\ cut[p - 1] = s - 1 /\ cut[P] = S /\ \A i \in p..P : Takes(pattern, path, i, cut)}
  BY DEF Cuts
<1> HIDE DEF P, S
<1>5. CASE p > P
  <2>1. p - 1 = P BY <1>1, <1>5
  <2>2. ASSUME NEW cut \in Cuts(pattern, path, p, s) PROVE s > S
    <3>1. cut[p - 1] = s - 1 /\ cut[P] = S BY <1>4
    <3> QED BY <2>1, <3>1, <1>1
  <2>3. ASSUME s > S PROVE Fits(pattern, path, p, s)
    <3> DEFINE cut == [i \in p - 1..P |-> S]
    <3>1. cut \in [p - 1..P -> 0..S] BY <1>1
    <3>2. P \in p - 1..P /\ p..P = {} /\ s - 1 = S BY <1>1, <2>1, <2>3
    <3>3. cut[p - 1] = s - 1 /\ cut[P] = S BY <2>1, <3>2
    <3>4. cut \in Cuts(pattern, path, p, s) BY <1>4, <3>1, <3>2, <3>3
    <3> QED BY <3>4 DEF Fits
  <2>4. p # P BY <1>1, <1>5
  <2> QED BY <1>5, <2>2, <2>3, <2>4 DEF Fits, P, S
<1>6. CASE ~ (p > P)
  <2>1. s > S /\ s - 1 = S /\ p \in p..P BY <1>1, <1>2, <1>6
  <2>2. ASSUME NEW cut \in Cuts(pattern, path, p, s) PROVE p = P /\ pattern[p] = "**"
    <3>1. /\ cut \in [p - 1..P -> 0..S] /\ cut[p - 1] = S
          /\ \A i \in p..P : Takes(pattern, path, i, cut)
      BY <1>4, <2>1
    <3>2. \A i \in p - 1..P : cut[i] \in Nat /\ cut[i] <= S
      <4>1. \A i \in p - 1..P : cut[i] \in 0..S BY <3>1
      <4>2. \A x \in 0..S : x \in Nat /\ x <= S BY <1>1
      <4> QED BY <4>1, <4>2
    <3>3. cut[p] = S /\ pattern[p] = "**"
      <4>1. cut[p - 1] <= cut[p] /\ (pattern[p] # "**" => cut[p] = cut[p - 1] + 1)
        BY <2>1, <3>1 DEF Takes
      <4>2. p \in p - 1..P BY <1>1, <1>6
      <4>3. cut[p] \in Nat /\ cut[p] <= S BY <3>2, <4>2
      <4>4. \A x \in Nat : x <= S => x # S + 1 /\ (S <= x => x = S) BY <1>1
      <4>5. S <= cut[p] /\ (pattern[p] # "**" => cut[p] = S + 1) BY <3>1, <4>1
      <4> QED BY <4>3, <4>4, <4>5
    <3>4. ASSUME p # P PROVE FALSE
      <4>1. p + 1 \in p..P /\ p + 1 \in p - 1..P /\ p + 1 \in 2..P /\ p + 1 - 1 = p BY <1>1, <1>6, <3>4
      <4>2. cut[p] <= cut[p + 1] /\ (pattern[p + 1] # "**" => cut[p + 1] = cut[p] + 1)
        BY <3>1, <4>1 DEF Takes
      <4>3. cut[p + 1] \in Nat /\ cut[p + 1] <= S BY <3>2, <4>1
      <4>a. \A x \in Nat : x <= S => x # S + 1 BY <1>1
      <4>b. pattern[p + 1] # "**" => cut[p + 1] = S + 1 BY <3>3, <4>2
      <4>4. pattern[p + 1] = "**" BY <4>3, <4>a, <4>b
      <4> QED BY <1>3, <3>3, <4>1, <4>4
    <3> QED BY <3>3, <3>4
  <2>3. ASSUME p = P, pattern[p] = "**" PROVE Fits(pattern, path, p, s)
    <3> DEFINE cut == [i \in p - 1..P |-> S]
    <3>1. cut \in [p - 1..P -> 0..S] BY <1>1
    <3>2. p - 1 \in p - 1..P /\ P \in p - 1..P BY <1>1, <2>3
    <3>3. cut[p - 1] = s - 1 /\ cut[P] = S BY <2>1, <3>2
    <3>4. ASSUME NEW i \in p..P PROVE Takes(pattern, path, i, cut)
      <4>1. i = p BY <1>1, <2>3
      <4>2. cut[p - 1] = S /\ cut[p] = S BY <2>3, <3>2
      <4> QED BY <1>1, <2>3, <4>1, <4>2 DEF Takes
    <3>5. cut \in Cuts(pattern, path, p, s) BY <1>4, <3>1, <3>3, <3>4
    <3> QED BY <3>5 DEF Fits
  <2> QED BY <1>6, <2>2, <2>3 DEF Fits, P, S
<1> QED BY <1>5, <1>6

\* A cut of the rest behind part p, put behind a cut of part p.
LEMMA CutMore ==
  ASSUME NEW pattern, NEW path, Len(pattern) \in Nat, Len(path) \in Nat,
         NEW p \in 1..Len(pattern), NEW s \in 1..Len(path) + 1, NEW t \in 1..Len(path) + 1, s <= t,
         pattern[p] # "**" => t = s + 1 /\ SegmentMatch(pattern[p], path[s]),
         Fits(pattern, path, p + 1, t)
  PROVE  Fits(pattern, path, p, s)
<1> DEFINE P == Len(pattern)
           S == Len(path)
<1>1. P \in Nat /\ S \in Nat /\ p \in Nat /\ 1 <= p /\ p <= P /\ s \in Nat /\ 1 <= s /\ s <= t
      /\ t \in Nat /\ t <= S + 1 /\ s <= S + 1
  OBVIOUS
<1>2. pattern[p] # "**" => t = s + 1 /\ SegmentMatch(pattern[p], path[s]) OBVIOUS
<1>3. \A q, u : Cuts(pattern, path, q, u) =
        {cut \in [q - 1..P -> 0..S] :
           /\ cut[q - 1] = u - 1 /\ cut[P] = S /\ \A i \in q..P : Takes(pattern, path, i, cut)}
  BY DEF Cuts
<1>4. PICK old : old \in Cuts(pattern, path, p + 1, t) BY DEF Fits
<1> HIDE DEF P, S
<1>5. p + 1 - 1 = p /\ p - 1 \in Nat BY <1>1
<1>6. /\ old \in [p..P -> 0..S] /\ old[p] = t - 1 /\ old[P] = S
      /\ \A i \in p + 1..P : Takes(pattern, path, i, old)
  BY <1>3, <1>4, <1>5
<1> DEFINE cut == [i \in p - 1..P |-> IF i = p - 1 THEN s - 1 ELSE old[i]]
<1>7. cut[p - 1] = s - 1 /\ \A i \in p..P : cut[i] = old[i]
  <2>1. p - 1 \in p - 1..P BY <1>1
  <2>2. \A i \in p..P : i \in p - 1..P /\ i # p - 1 BY <1>1
  <2> QED BY <2>1, <2>2
<1>8. cut \in [p - 1..P -> 0..S]
  <2>1. s - 1 \in 0..S BY <1>1
  <2>2. \A i \in p - 1..P : i # p - 1 => i \in p..P BY <1>1
  <2> QED BY <1>6, <2>1, <2>2
<1>9. cut[P] = S BY <1>1, <1>6, <1>7
<1> HIDE DEF cut
<1>10. ASSUME NEW i \in p..P PROVE Takes(pattern, path, i, cut)
  <2>1. CASE i = p
    <3>1. cut[i - 1] = s - 1 /\ cut[i] = t - 1 BY <1>1, <1>6, <1>7, <2>1
    <3>2. cut[i - 1] <= cut[i] BY <1>1, <3>1
    <3>3. ASSUME pattern[i] # "**"
          PROVE  cut[i] = cut[i - 1] + 1 /\ SegmentMatch(pattern[i], path[cut[i]])
      <4>1. t = s + 1 /\ SegmentMatch(pattern[p], path[s]) BY <1>2, <2>1, <3>3
      <4>2. cut[i] = s /\ s = (s - 1) + 1 BY <1>1, <3>1, <4>1
      <4> QED BY <2>1, <3>1, <4>1, <4>2
    <3> QED BY <3>2, <3>3 DEF Takes
  <2>2. CASE i # p
    <3>1. i \in p + 1..P /\ i - 1 \in p..P BY <1>1, <2>2
    <3>2. cut[i] = old[i] /\ cut[i - 1] = old[i - 1] BY <1>7, <3>1
    <3> QED BY <1>6, <3>1, <3>2 DEF Takes
  <2> QED BY <2>1, <2>2
<1>b. Cuts(pattern, path, p, s) =
        {c \in [p - 1..P -> 0..S] :
           /\ c[p - 1] = s - 1 /\ c[P] = S /\ \A i \in p..P : Takes(pattern, path, i, c)}
  BY <1>3
<1>11. cut \in Cuts(pattern, path, p, s) BY <1>b, <1>7, <1>8, <1>9, <1>10
<1> QED BY <1>11 DEF Fits

LEMMA CutLess ==
  ASSUME NEW pattern, NEW path, Len(pattern) \in Nat, Len(path) \in Nat,
         NEW p \in 1..Len(pattern), NEW s \in 1..Len(path) + 1,
         Fits(pattern, path, p, s)
  PROVE  \E t \in 1..Len(path) + 1 :
           /\ s <= t /\ Fits(pattern, path, p + 1, t)
           /\ pattern[p] # "**" => t = s + 1 /\ SegmentMatch(pattern[p], path[s])
<1> DEFINE P == Len(pattern)
           S == Len(path)
<1>1. P \in Nat /\ S \in Nat /\ p \in Nat /\ 1 <= p /\ p <= P /\ s \in Nat /\ 1 <= s /\ s <= S + 1
  OBVIOUS
<1>3. \A q, u : Cuts(pattern, path, q, u) =
        {cut \in [q - 1..P -> 0..S] :
           /\ cut[q - 1] = u - 1 /\ cut[P] = S /\ \A i \in q..P : Takes(pattern, path, i, cut)}
  BY DEF Cuts
<1>4. PICK old : old \in Cuts(pattern, path, p, s) BY DEF Fits
<1> DEFINE t == old[p] + 1
<1> HIDE DEF P, S
<1>6. /\ old \in [p - 1..P -> 0..S] /\ old[p - 1] = s - 1 /\ old[P] = S
      /\ \A i \in p..P : Takes(pattern, path, i, old)
  BY <1>3, <1>4
<1>7. p \in p - 1..P /\ p \in p..P /\ p + 1 - 1 = p BY <1>1
<1>8. old[p] \in 0..S BY <1>6, <1>7
<1>9. t \in 1..S + 1 /\ t - 1 = old[p]
  <2>1. \A x \in 0..S : x + 1 \in 1..S + 1 /\ (x + 1) - 1 = x BY <1>1
  <2> QED BY <1>8, <2>1
<1>10. Takes(pattern, path, p, old) BY <1>6, <1>7
<1>11. s - 1 <= old[p] /\ (pattern[p] # "**" => old[p] = (s - 1) + 1 /\ SegmentMatch(pattern[p], path[old[p]]))
  BY <1>6, <1>10 DEF Takes
<1>12. s <= t BY <1>1, <1>8, <1>11
<1>13. pattern[p] # "**" => t = s + 1 /\ SegmentMatch(pattern[p], path[s])
  <2>1. (s - 1) + 1 = s BY <1>1
  <2> QED BY <1>11, <2>1
<1> DEFINE cut == [i \in p..P |-> old[i]]
<1>14. Fits(pattern, path, p + 1, t)
  <2>1. cut \in [p..P -> 0..S]
    <3>1. \A i \in p..P : i \in p - 1..P BY <1>1
    <3> QED BY <1>6, <3>1
  <2>2. cut[p] = t - 1 /\ cut[P] = S
    <3>1. P \in p..P BY <1>1
    <3> QED BY <1>6, <1>7, <1>9, <3>1
  <2>3. ASSUME NEW i \in p + 1..P PROVE Takes(pattern, path, i, cut)
    <3>1. i \in p..P /\ i - 1 \in p..P BY <1>1
    <3>2. cut[i] = old[i] /\ cut[i - 1] = old[i - 1] BY <3>1
    <3> QED BY <1>6, <3>1, <3>2 DEF Takes
  <2> HIDE DEF cut, t
  <2>5. Cuts(pattern, path, p + 1, t) =
          {c \in [p + 1 - 1..P -> 0..S] :
             /\ c[p + 1 - 1] = t - 1 /\ c[P] = S /\ \A i \in p + 1..P : Takes(pattern, path, i, c)}
    BY <1>3
  <2>4. cut \in Cuts(pattern, path, p + 1, t) BY <2>5, <1>7, <2>1, <2>2, <2>3
  <2> QED BY <2>4 DEF Fits
<1> HIDE DEF t
<1> QED BY <1>9, <1>12, <1>13, <1>14 DEF S

\* What is left matches as the code says.
LEMMA FitsIs ==
  ASSUME NEW pattern, NEW path, Len(pattern) \in Nat, Len(path) \in Nat,
         \A i \in 2..Len(pattern) : ~ (pattern[i - 1] = "**" /\ pattern[i] = "**"),
         NEW g, \A q \in 1..Len(pattern) + 1 : \A u \in 1..Len(path) + 1 : g[<<q, u>>] = Fits(pattern, path, q, u),
         NEW p \in 1..Len(pattern) + 1, NEW s \in 1..Len(path) + 1
  PROVE  Fits(pattern, path, p, s) <=> Rests(pattern, path, p, s, g)
<1> DEFINE P == Len(pattern)
           S == Len(path)
<1>1. P \in Nat /\ S \in Nat /\ p \in Nat /\ s \in Nat /\ 1 <= p /\ p <= P + 1 /\ 1 <= s /\ s <= S + 1 OBVIOUS
<1>2. CASE p > P \/ s > S BY <1>2, FitsEnd DEF Rests
<1>3. CASE ~ (p > P \/ s > S)
  <2>1. p \in 1..P /\ s + 1 \in 1..S + 1 /\ p + 1 \in 1..P + 1 BY <1>1, <1>3
  <2>2. g[<<p + 1, s>>] = Fits(pattern, path, p + 1, s) /\ g[<<p, s + 1>>] = Fits(pattern, path, p, s + 1)
        /\ g[<<p + 1, s + 1>>] = Fits(pattern, path, p + 1, s + 1)
    BY <2>1
  <2>3. CASE pattern[p] = "**"
    <3>1. Rests(pattern, path, p, s, g)
            <=> Fits(pattern, path, p + 1, s) \/ Fits(pattern, path, p, s + 1)
      BY <1>3, <2>2, <2>3 DEF Rests
    <3>2. ASSUME Fits(pattern, path, p + 1, s) PROVE Fits(pattern, path, p, s)
      BY <1>1, <2>1, <2>3, <3>2, CutMore
    <3>3. ASSUME Fits(pattern, path, p, s + 1) PROVE Fits(pattern, path, p, s)
      <4>1. PICK t \in 1..S + 1 : s + 1 <= t /\ Fits(pattern, path, p + 1, t)
        BY <2>1, <3>3, CutLess
      <4>2. s <= t BY <1>1, <4>1
      <4> QED BY <2>1, <2>3, <4>1, <4>2, CutMore
    <3>4. ASSUME Fits(pattern, path, p, s)
          PROVE  Fits(pattern, path, p + 1, s) \/ Fits(pattern, path, p, s + 1)
      <4>1. PICK t \in 1..S + 1 : s <= t /\ Fits(pattern, path, p + 1, t) BY <2>1, <3>4, CutLess
      <4>2. t = s \/ s + 1 <= t BY <1>1, <4>1
      <4>3. CASE t = s BY <4>1, <4>3
      <4>4. CASE s + 1 <= t BY <2>1, <2>3, <4>1, <4>4, CutMore
      <4> QED BY <4>2, <4>3, <4>4
    <3> QED BY <3>1, <3>2, <3>3, <3>4
  <2>4. CASE pattern[p] # "**"
    <3>1. Rests(pattern, path, p, s, g)
            <=> SegmentMatch(pattern[p], path[s]) /\ Fits(pattern, path, p + 1, s + 1)
      BY <1>3, <2>2, <2>4 DEF Rests
    <3>2. ASSUME SegmentMatch(pattern[p], path[s]), Fits(pattern, path, p + 1, s + 1)
          PROVE  Fits(pattern, path, p, s)
      <4>1. s <= s + 1 BY <1>1
      <4> QED BY <2>1, <3>2, <4>1, CutMore
    <3>3. ASSUME Fits(pattern, path, p, s)
          PROVE  SegmentMatch(pattern[p], path[s]) /\ Fits(pattern, path, p + 1, s + 1)
      <4>1. PICK t \in 1..S + 1 :
              /\ s <= t /\ Fits(pattern, path, p + 1, t)
              /\ pattern[p] # "**" => t = s + 1 /\ SegmentMatch(pattern[p], path[s])
        BY <2>1, <3>3, CutLess
      <4> QED BY <2>4, <4>1
    <3> QED BY <3>1, <3>2, <3>3
  <2> QED BY <2>3, <2>4
<1> QED BY <1>2, <1>3

LEMMA GlobIs ==
  ASSUME NEW pattern, NEW path, Len(pattern) \in Nat, Len(path) \in Nat,
         \A i \in 2..Len(pattern) : ~ (pattern[i - 1] = "**" /\ pattern[i] = "**")
  PROVE  GlobMatch(pattern, path) = Fits(pattern, path, 1, 1)
<1> DEFINE D == Positions(pattern, path)
           F(g) == [at \in D |-> Rests(pattern, path, at[1], at[2], g)]
           fits == [at \in D |-> Fits(pattern, path, at[1], at[2])]
           glob == CHOOSE g : g = F(g)
<1>1. GlobMatch(pattern, path) = glob[<<1, 1>>] BY DEF GlobMatch, Rests, Positions
<1>2. \A p \in 1..Len(pattern) + 1 : \A s \in 1..Len(path) + 1 :
        <<p, s>> \in D /\ fits[<<p, s>>] = Fits(pattern, path, p, s)
  BY DEF Positions
<1>3. \A at \in D : at[1] \in 1..Len(pattern) + 1 /\ at[2] \in 1..Len(path) + 1 /\ at = <<at[1], at[2]>>
  BY DEF Positions
<1> HIDE DEF D
<1>4. \A at \in D : Fits(pattern, path, at[1], at[2]) \in BOOLEAN
                    /\ Rests(pattern, path, at[1], at[2], fits) \in BOOLEAN
                    /\ (Fits(pattern, path, at[1], at[2]) <=> Rests(pattern, path, at[1], at[2], fits))
  <2> TAKE at \in D
  <2>1. at[1] \in 1..Len(pattern) + 1 /\ at[2] \in 1..Len(path) + 1 BY <1>3
  <2> HIDE DEF fits
  <2>2. \A q \in 1..Len(pattern) + 1 : \A u \in 1..Len(path) + 1 : fits[<<q, u>>] = Fits(pattern, path, q, u) BY <1>2, Zenon
  <2>3. Fits(pattern, path, at[1], at[2]) <=> Rests(pattern, path, at[1], at[2], fits)
    BY <2>1, <2>2, FitsIs
  <2>4. Fits(pattern, path, at[1], at[2]) \in BOOLEAN BY DEF Fits
  <2>5. Rests(pattern, path, at[1], at[2], fits) \in BOOLEAN
    <3>1. CASE at[1] > Len(pattern) \/ at[2] > Len(path) BY <3>1 DEF Rests
    <3>2. CASE ~ (at[1] > Len(pattern) \/ at[2] > Len(path)) /\ pattern[at[1]] = "**" BY <3>2 DEF Rests
    <3>3. CASE ~ (at[1] > Len(pattern) \/ at[2] > Len(path)) /\ pattern[at[1]] # "**" BY <3>3 DEF Rests
    <3> QED BY <3>1, <3>2, <3>3
  <2> QED BY <2>3, <2>4, <2>5
<1>5. fits = F(fits)
  <2>1. \A at \in D : Fits(pattern, path, at[1], at[2]) = Rests(pattern, path, at[1], at[2], fits) BY <1>4
  <2> QED BY <2>1
<1>6. glob = F(glob) BY <1>5
<1> HIDE DEF glob
<1>7. \A p \in 1..Len(pattern) + 1 : \A s \in 1..Len(path) + 1 : glob[<<p, s>>] = Fits(pattern, path, p, s)
  <2> DEFINE Left(p, s) == (Len(pattern) + 1 - p) + (Len(path) + 1 - s)
             Off == {m \in Nat : \E p \in 1..Len(pattern) + 1 : \E s \in 1..Len(path) + 1 :
                       m = Left(p, s) /\ glob[<<p, s>>] # Fits(pattern, path, p, s)}
  <2>1. ASSUME Off # {} PROVE FALSE
    <3>1. PICK m \in Off : \A j \in Off : ~ (j < m) BY <2>1, LeastOf
    <3>2. PICK p \in 1..Len(pattern) + 1 : \E s \in 1..Len(path) + 1 :
            m = Left(p, s) /\ glob[<<p, s>>] # Fits(pattern, path, p, s)
      BY <3>1
    <3>3. PICK s \in 1..Len(path) + 1 : m = Left(p, s) /\ glob[<<p, s>>] # Fits(pattern, path, p, s)
      BY <3>2
    <3>4. ASSUME NEW q \in 1..Len(pattern) + 1, NEW u \in 1..Len(path) + 1, Left(q, u) < Left(p, s)
          PROVE  glob[<<q, u>>] = Fits(pattern, path, q, u)
      <4>1. Left(q, u) \in Nat OBVIOUS
      <4>2. Left(q, u) \notin Off BY <3>1, <3>3, <3>4
      <4> HIDE DEF Left
      <4> QED BY <4>1, <4>2
    <3>5. glob[<<p, s>>] = Rests(pattern, path, p, s, glob)
      <4>1. <<p, s>> \in D BY <1>2
      <4> QED BY <1>6, <4>1
    <3>6. Fits(pattern, path, p, s) = Rests(pattern, path, p, s, fits)
      <4>1. <<p, s>> \in D BY <1>2
      <4>2. fits[<<p, s>>] = Fits(pattern, path, p, s) BY <1>2
      <4> HIDE DEF fits
      <4>3. fits[<<p, s>>] = Rests(pattern, path, p, s, fits) BY <1>5, <4>1
      <4> QED BY <4>2, <4>3
    <3>7. Rests(pattern, path, p, s, glob) = Rests(pattern, path, p, s, fits)
      <4>1. CASE p > Len(pattern) \/ s > Len(path) BY <4>1 DEF Rests
      <4>2. CASE ~ (p > Len(pattern) \/ s > Len(path))
        <5>1. p + 1 \in 1..Len(pattern) + 1 /\ s + 1 \in 1..Len(path) + 1 BY <4>2
        <5>2. Left(p + 1, s) < Left(p, s) /\ Left(p, s + 1) < Left(p, s) /\ Left(p + 1, s + 1) < Left(p, s)
          BY <5>1
        <5> HIDE DEF Left
        <5>3. glob[<<p + 1, s>>] = fits[<<p + 1, s>>] /\ glob[<<p, s + 1>>] = fits[<<p, s + 1>>]
              /\ glob[<<p + 1, s + 1>>] = fits[<<p + 1, s + 1>>]
          <6> HIDE DEF fits
          <6> QED BY <1>2, <3>4, <5>1, <5>2
        <5> HIDE DEF fits
        <5> QED BY <4>2, <5>3 DEF Rests
      <4> QED BY <4>1, <4>2
    <3> QED BY <3>3, <3>5, <3>6, <3>7
  <2> SUFFICES ASSUME NEW p \in 1..Len(pattern) + 1, NEW s \in 1..Len(path) + 1
               PROVE  glob[<<p, s>>] = Fits(pattern, path, p, s)
    BY Zenon
  <2>2. glob[<<p, s>>] = Fits(pattern, path, p, s)
    <3>1. Left(p, s) \in Nat OBVIOUS
    <3> HIDE DEF Left
    <3>2. Left(p, s) \notin Off BY <2>1
    <3> QED BY <3>1, <3>2
  <2> QED BY <2>2
<1>8. 1 \in 1..Len(pattern) + 1 /\ 1 \in 1..Len(path) + 1 OBVIOUS
<1> QED BY <1>1, <1>7, <1>8

LEMMA GlobsAre ==
  ASSUME scan.kind = "glob" => Len(scan.pattern) \in Nat /\ Len(scan.path) \in Nat
                               /\ DOMAIN scan.pattern = 1..Len(scan.pattern)
  PROVE  GlobAgrees
<1> SUFFICES ASSUME scan.kind = "glob",
                    \A i \in 2..Len(scan.pattern) : ~ (scan.pattern[i - 1] = "**" /\ scan.pattern[i] = "**")
             PROVE  GlobMatch(scan.pattern, scan.path) <=> Matches(scan.pattern, scan.path)
  BY DEF GlobAgrees
<1> DEFINE pattern == scan.pattern
           path == scan.path
<1>1. Len(pattern) \in Nat /\ Len(path) \in Nat /\ DOMAIN pattern = 1..Len(pattern) OBVIOUS
<1>2. \A i \in 2..Len(pattern) : ~ (pattern[i - 1] = "**" /\ pattern[i] = "**") OBVIOUS
<1> HIDE DEF pattern, path
<1>3. GlobMatch(pattern, path) = Fits(pattern, path, 1, 1) BY <1>1, <1>2, GlobIs
<1>4. Fits(pattern, path, 1, 1) <=> Matches(pattern, path)
  <2>1. 1 - 1 = 0 OBVIOUS
  <2>2. Cuts(pattern, path, 1, 1) =
          {cut \in [0..Len(pattern) -> 0..Len(path)] :
             /\ cut[0] = 0 /\ cut[Len(pattern)] = Len(path)
             /\ \A i \in 1..Len(pattern) : Takes(pattern, path, i, cut)}
    BY <2>1 DEF Cuts
  <2> QED BY <1>1, <2>2 DEF Matches, Takes, Fits
<1> QED BY <1>3, <1>4 DEF pattern, path

-----------------------------------------------------------------------------
(* Stale panes.                                                            *)

Short == {<<d>> : d \in Nat}
LowerOf(S, a) == {b \in S : b[1] < a[1]}
Kept(S, k) == {a \in S : Cardinality(LowerOf(S, a)) < k}
Smaller(n, k) == IF n < k THEN n ELSE k

LEMMA ShortIs ==
  ASSUME NEW a \in Short, NEW b \in Short
  PROVE  /\ a[1] \in Nat
         /\ a[1] = b[1] => a = b
         /\ Higher(a, b) <=> b[1] < a[1]
         /\ IndexOf(a) = a[1]
<1>1. PICK c \in Nat, d \in Nat : a = <<c>> /\ b = <<d>> BY DEF Short
<1>2. Higher(a, b) <=> d < c
  <2>1. DOMAIN a = {1} /\ DOMAIN b = {1} /\ Len(a) = 1 /\ Len(b) = 1 BY <1>1
  <2>2. \A k \in DOMAIN a \cap DOMAIN b : k = 1 /\ 1..k - 1 = {} BY <2>1
  <2>3. 1 \in DOMAIN a \cap DOMAIN b /\ ~ (Len(a) > Len(b)) BY <2>1
  <2>4. Higher(a, b) <=> a[1] > b[1] BY <2>2, <2>3 DEF Higher
  <2> QED BY <1>1, <2>4
<1>3. IndexOf(a) = c
  <2> DEFINE F(v) == [k \in 0..Len(a) |-> IF k = 0 THEN 0 ELSE 10 * v[k - 1] + a[k]]
             g == [k \in 0..1 |-> IF k = 0 THEN 0 ELSE c]
             v == CHOOSE v : v = F(v)
  <2>1. g = F(g) BY <1>1
  <2>2. v = F(v) BY <2>1
  <2> HIDE DEF v
  <2>a. Len(a) = 1 /\ a[1] = c BY <1>1
  <2>b. v[0] = 0 BY <2>2, <2>a
  <2>c. v[1] = 10 * v[0] + a[1] BY <2>2, <2>a
  <2>3. v[1] = c BY <2>a, <2>b, <2>c
  <2> USE DEF v
  <2>4. IndexOf(a) = v[Len(a)] BY DEF IndexOf
  <2> QED BY <2>a, <2>3, <2>4
<1> QED BY <1>1, <1>2, <1>3

\* Of finitely many panes as many are kept as there are issues in flight, or all.
LEMMA KeptCount ==
  \A n \in Nat : \A S \in SUBSET Short, k \in Nat :
    IsFiniteSet(S) /\ Cardinality(S) = n => Cardinality(Kept(S, k)) = Smaller(n, k)
<1> DEFINE Good(n) == \A S \in SUBSET Short, k \in Nat :
             IsFiniteSet(S) /\ Cardinality(S) = n => Cardinality(Kept(S, k)) = Smaller(n, k)
           Bad == {n \in Nat : ~ Good(n)}
<1>1. SUFFICES ASSUME Bad # {} PROVE FALSE OBVIOUS
<1>2. PICK n \in Bad : \A j \in Bad : ~ (j < n) BY <1>1, LeastOf
<1>3. n \in Nat /\ \A j \in Nat : j < n => Good(j) BY <1>2
<1>4. ASSUME NEW S \in SUBSET Short, NEW k \in Nat, IsFiniteSet(S), Cardinality(S) = n
      PROVE  Cardinality(Kept(S, k)) = Smaller(n, k)
  <2>1. \A a \in S : IsFiniteSet(LowerOf(S, a)) /\ Cardinality(LowerOf(S, a)) \in Nat
    BY <1>4, FS_Subset, FS_CardinalityType DEF LowerOf
  <2>2. CASE n = 0
    <3>1. S = {} BY <1>4, <2>2, FS_EmptySet
    <3>2. Kept(S, k) = {} BY <3>1 DEF Kept
    <3> QED BY <2>2, <3>2, FS_EmptySet DEF Smaller
  <2>3. CASE k = 0
    <3>1. Kept(S, k) = {} BY <2>1, <2>3 DEF Kept
    <3> QED BY <1>3, <2>3, <3>1, FS_EmptySet DEF Smaller
  <2>4. CASE n # 0 /\ k # 0
    <3>1. S # {} BY <1>4, <2>4, FS_EmptySet
    <3>2. {a[1] : a \in S} \in SUBSET Nat BY ShortIs
    <3>3. PICK m \in S : \A a \in S : ~ (a[1] < m[1])
      <4>1. {a[1] : a \in S} # {} BY <3>1
      <4>2. PICK i \in {a[1] : a \in S} : \A j \in {a[1] : a \in S} : ~ (j < i) BY <3>2, <4>1, LeastOf
      <4> QED BY <4>2
    <3> DEFINE T == S \ {m}
    <3>4. IsFiniteSet(T) /\ Cardinality(T) = n - 1 /\ n - 1 \in Nat /\ n - 1 < n
      BY <1>3, <1>4, <2>4, FS_RemoveElement
    <3>5. LowerOf(S, m) = {} BY <3>3 DEF LowerOf
    <3>6. \A a \in T : m[1] < a[1]
      <4> TAKE a \in T
      <4>1. a[1] \in Nat /\ m[1] \in Nat /\ a[1] # m[1] BY ShortIs
      <4> QED BY <3>3, <4>1
    <3>7. ASSUME NEW a \in T PROVE Cardinality(LowerOf(S, a)) = Cardinality(LowerOf(T, a)) + 1
      <4>1. LowerOf(S, a) = LowerOf(T, a) \cup {m} BY <3>6 DEF LowerOf
      <4>2. IsFiniteSet(LowerOf(T, a)) BY <3>4, FS_Subset DEF LowerOf
      <4>3. m \notin LowerOf(T, a) BY DEF LowerOf
      <4> QED BY <4>1, <4>2, <4>3, FS_AddElement
    <3>8. \A a \in T : Cardinality(LowerOf(T, a)) \in Nat
      BY <3>4, FS_Subset, FS_CardinalityType DEF LowerOf
    <3>9. Kept(S, k) = Kept(T, k - 1) \cup {m}
      <4>1. Cardinality(LowerOf(S, m)) < k BY <2>4, <3>5, FS_EmptySet
      <4>2. \A a \in T : Cardinality(LowerOf(S, a)) < k <=> Cardinality(LowerOf(T, a)) < k - 1
        BY <3>7, <3>8
      <4> QED BY <4>1, <4>2 DEF Kept
    <3> HIDE DEF T
    <3>10. Cardinality(Kept(T, k - 1)) = Smaller(n - 1, k - 1)
      <4>1. T \in SUBSET Short /\ k - 1 \in Nat BY <2>4 DEF T
      <4> QED BY <1>3, <3>4, <4>1
    <3>11. IsFiniteSet(Kept(T, k - 1)) /\ m \notin Kept(T, k - 1)
      BY <3>4, FS_Subset DEF Kept, T
    <3> DEFINE old == Kept(T, k - 1)
    <3>a. Cardinality(old \cup {m}) = Cardinality(old) + 1 BY <3>11, FS_AddElement
    <3>12. Cardinality(Kept(S, k)) = Smaller(n - 1, k - 1) + 1 BY <3>9, <3>10, <3>a
    <3> QED BY <1>3, <2>4, <3>12 DEF Smaller
  <2> QED BY <2>2, <2>3, <2>4
<1>5. Good(n) BY <1>4
<1> QED BY <1>2, <1>5

LEMMA FreedAmong ==
  ASSUME NEW names \in SUBSET Short, IsFiniteSet(names), NEW inFlight \in Nat
  PROVE  HighestFreedAmong(names, inFlight)
<1> DEFINE stale == StaleAgentPanes(names, inFlight)
<1>1. \A a \in names : {b \in names : Higher(a, b)} = LowerOf(names, a) BY ShortIs DEF LowerOf
<1>2. \A a \in names : IsFiniteSet(LowerOf(names, a)) /\ Cardinality(LowerOf(names, a)) \in Nat
  BY FS_Subset, FS_CardinalityType DEF LowerOf
<1>3. names \ stale = Kept(names, inFlight) BY <1>1, <1>2 DEF StaleAgentPanes, Kept
<1>4. Cardinality(names) \in Nat BY FS_CardinalityType
<1>5. Cardinality(names \ stale) = Smaller(Cardinality(names), inFlight) BY <1>3, <1>4, KeptCount
<1>6. Min({Cardinality(names), inFlight}) = Smaller(Cardinality(names), inFlight)
  BY <1>4 DEF Min, Smaller
<1>7. ASSUME NEW a \in stale, NEW b \in names \ stale PROVE IndexOf(b) < IndexOf(a)
  <2>1. a \in names /\ b \in names BY DEF StaleAgentPanes
  <2>2. Cardinality(LowerOf(names, a)) >= inFlight /\ Cardinality(LowerOf(names, b)) < inFlight
    <3>1. a \notin Kept(names, inFlight) /\ b \in Kept(names, inFlight) BY <1>3
    <3> QED BY <1>2, <2>1, <3>1 DEF Kept
  <2>3. a[1] \in Nat /\ b[1] \in Nat /\ IndexOf(a) = a[1] /\ IndexOf(b) = b[1] BY <2>1, ShortIs
  <2>4. a[1] <= b[1] => LowerOf(names, a) \subseteq LowerOf(names, b)
    <3>1. \A c \in names : c[1] \in Nat BY ShortIs
    <3> QED BY <2>3, <3>1 DEF LowerOf
  <2>5. LowerOf(names, a) \subseteq LowerOf(names, b)
          => Cardinality(LowerOf(names, a)) <= Cardinality(LowerOf(names, b))
    BY <1>2, <2>1, FS_Subset
  <2> QED BY <1>2, <2>1, <2>2, <2>3, <2>4, <2>5
<1> QED BY <1>5, <1>6, <1>7 DEF HighestFreedAmong

LEMMA IndicesAre ==
  /\ Indices \subseteq Seq(0..9)
  /\ \A a \in Indices : Len(a) = 1 => a[1] \in Nat /\ a = <<a[1]>>
<1>1. Indices \subseteq Seq(0..9)
  <2> SUFFICES ASSUME NEW a \in Indices PROVE a \in Seq(0..9) OBVIOUS
  <2>1. a \in SeqOf(Digits, MaxDigits) BY DEF Indices
  <2>2. PICK n \in 0..MaxDigits : a \in [1..n -> Digits] BY <2>1 DEF SeqOf
  <2>3. n \in Nat /\ Digits \subseteq 0..9 BY ScanAssumption
  <2>4. a \in [1..n -> 0..9] BY <2>2, <2>3
  <2> QED BY <2>3, <2>4, SeqDef
<1>2. ASSUME NEW a \in Indices, Len(a) = 1 PROVE a[1] \in Nat /\ a = <<a[1]>>
  <2>1. a \in Seq(0..9) BY <1>1
  <2>a. 1 \in 1..Len(a) BY <1>2
  <2>2. a[1] \in 0..9 BY <2>1, <2>a
  <2>3. a = <<a[1]>> BY <2>1, <1>2
  <2> QED BY <2>2, <2>3
<1> QED BY <1>1, <1>2


\* What is looked at: panes, a report in the order of the file, a pattern and a path.
Panes == [kind : {"panes"}, names : SUBSET Indices, inFlight : Nat]
Reports == [kind : {"coverage"}, segments : Seq(Segments)]
Globs == [kind : {"glob"}, pattern : Seq(Parts \cup {"*", "**"}), path : Seq(Parts)]

ScanTypes ==
  \/ scan \in Panes /\ IsFiniteSet(scan.names)
  \/ scan \in Reports /\ InOrder(scan.segments)
  \/ scan \in Globs

LEMMA KindsAre ==
  ASSUME ScanTypes
  PROVE  /\ scan.kind = "panes" => scan \in Panes /\ IsFiniteSet(scan.names)
         /\ scan.kind = "coverage" => scan \in Reports /\ InOrder(scan.segments)
         /\ scan.kind = "glob" => scan \in Globs
<1>1. scan \in Panes => scan.kind = "panes" BY DEF Panes
<1>2. scan \in Reports => scan.kind = "coverage" BY DEF Reports
<1>3. scan \in Globs => scan.kind = "glob" BY DEF Globs
<1> QED BY <1>1, <1>2, <1>3 DEF ScanTypes

LEMMA ScanInitTypes == ScanInit => ScanTypes
<1> SUFFICES ASSUME ScanInit PROVE ScanTypes OBVIOUS
<1>1. CASE scan = [kind |-> "panes", names |-> {}, inFlight |-> 0]
  <2>1. scan \in Panes BY <1>1 DEF Panes
  <2>2. IsFiniteSet(scan.names) BY <1>1, FS_EmptySet
  <2> QED BY <2>1, <2>2 DEF ScanTypes
<1>2. CASE scan = [kind |-> "coverage", segments |-> <<>>]
  <2>1. scan.segments = <<>> /\ scan.segments \in Seq(Segments) /\ DOMAIN scan.segments = {}
    <3>1. scan.segments = <<>> BY <1>2
    <3> QED BY <3>1
  <2>2. scan \in Reports BY <1>2, <2>1 DEF Reports
  <2>3. InOrder(scan.segments) BY <2>1 DEF InOrder
  <2> QED BY <2>2, <2>3 DEF ScanTypes
<1>3. CASE scan = [kind |-> "glob", pattern |-> <<>>, path |-> <<>>]
  <2>1. <<>> \in Seq(Parts \cup {"*", "**"}) /\ <<>> \in Seq(Parts) OBVIOUS
  <2>2. scan \in Globs BY <1>3, <2>1 DEF Globs
  <2> QED BY <2>2 DEF ScanTypes
<1> QED BY <1>1, <1>2, <1>3 DEF ScanInit

LEMMA SegmentTypes ==
  ASSUME ScanTypes, NEW line \in 1..MaxLine, NEW bare \in BOOLEAN, Segment(line, bare)
  PROVE  ScanTypes'
<1> DEFINE old == scan.segments
           seg == [line |-> line, bare |-> bare]
<1>1. scan \in Reports /\ InOrder(old) BY KindsAre DEF Segment
<1>2. seg \in Segments
  <2>1. line \in Nat /\ line # 0 BY ScanAssumption
  <2> QED BY <2>1 DEF Segments
<1>3. old \in Seq(Segments) /\ Len(old) \in Nat /\ DOMAIN old = 1..Len(old) BY <1>1, InOrderIs
<1>4. scan' = [scan EXCEPT !.segments = Append(old, seg)] BY DEF Segment
<1> DEFINE new == Append(old, seg)
<1>5. scan'.segments = new /\ new \in Seq(Segments) BY <1>1, <1>2, <1>3, <1>4 DEF Reports
<1>6. scan' \in Reports BY <1>1, <1>4, <1>5 DEF Reports
<1>7. InOrder(new)
  <2>1. DOMAIN new = 1..Len(old) + 1 /\ new[Len(old) + 1] = seg /\ \A i \in 1..Len(old) : new[i] = old[i]
    BY <1>2, <1>3
  <2>2. old # <<>> => old[Len(old)].line <= line BY DEF Segment
  <2> HIDE DEF new, old
  <2>3. ASSUME NEW i \in DOMAIN new, NEW j \in DOMAIN new, i < j PROVE new[i].line <= new[j].line
    <3>1. i \in 1..Len(old) /\ new[i] = old[i] BY <1>3, <2>1, <2>3
    <3>2. CASE j = Len(old) + 1
      <4>1. Len(old) \in 1..Len(old) /\ old # <<>> BY <1>3, <3>1
      <4>2. old[i].line <= old[Len(old)].line BY <1>1, <1>3, <3>1, <4>1, InOrderIs
      <4>3. old[i].line \in Nat /\ old[Len(old)].line \in Nat /\ line \in Nat
        BY <1>1, <3>1, <4>1, ScanAssumption, InOrderIs
      <4>4. old[i].line <= line BY <2>2, <4>1, <4>2, <4>3
      <4>5. new[j].line = line BY <2>1, <3>2
      <4> QED BY <3>1, <4>4, <4>5
    <3>3. CASE j # Len(old) + 1
      <4>1. j \in 1..Len(old) /\ new[j] = old[j] BY <1>3, <2>1, <3>3
      <4>2. i <= j BY <1>3, <2>3, <3>1, <4>1
      <4> QED BY <1>1, <3>1, <4>1, <4>2, InOrderIs
    <3> QED BY <3>2, <3>3
  <2> QED BY <1>5, <2>3 DEF InOrder
<1> HIDE DEF new
<1> QED BY <1>5, <1>6, <1>7 DEF ScanTypes

LEMMA ScanNextTypes == ScanTypes /\ [ScanNext]_scan => ScanTypes'
<1> SUFFICES ASSUME ScanTypes, [ScanNext]_scan PROVE ScanTypes' OBVIOUS
<1>1. ASSUME NEW name \in Indices, SpawnPane(name) PROVE ScanTypes'
  <2>1. scan \in Panes /\ IsFiniteSet(scan.names) BY <1>1, KindsAre DEF SpawnPane
  <2>2. scan' = [scan EXCEPT !.names = scan.names \cup {name}] BY <1>1 DEF SpawnPane
  <2>3. scan' \in Panes /\ scan'.names = scan.names \cup {name} BY <2>1, <2>2 DEF Panes
  <2>4. IsFiniteSet(scan.names \cup {name}) BY <2>1, FS_AddElement
  <2> QED BY <2>3, <2>4 DEF ScanTypes
<1>2. ASSUME LabelIssue PROVE ScanTypes'
  <2>1. scan \in Panes /\ IsFiniteSet(scan.names) BY <1>2, KindsAre DEF LabelIssue
  <2>2. scan' = [scan EXCEPT !.inFlight = scan.inFlight + 1] BY <1>2 DEF LabelIssue
  <2>3. scan' \in Panes /\ scan'.names = scan.names BY <2>1, <2>2 DEF Panes
  <2> QED BY <2>1, <2>3 DEF ScanTypes
<1>3. ASSUME NEW line \in 1..MaxLine, NEW bare \in BOOLEAN, Segment(line, bare) PROVE ScanTypes'
  BY <1>3, SegmentTypes
<1>4. ASSUME NEW s \in Parts, LongerPath(s) PROVE ScanTypes'
  <2>1. scan \in Globs BY <1>4, KindsAre DEF LongerPath
  <2>2. scan' = [scan EXCEPT !.path = Append(scan.path, s)] BY <1>4 DEF LongerPath
  <2>3. scan.path \in Seq(Parts) BY <2>1 DEF Globs
  <2>4. Append(scan.path, s) \in Seq(Parts) BY <2>3
  <2>5. scan' \in Globs BY <2>1, <2>2, <2>4 DEF Globs
  <2> QED BY <2>5 DEF ScanTypes
<1>5. ASSUME NEW p \in Parts \cup {"*", "**"}, LongerPattern(p) PROVE ScanTypes'
  <2>1. scan \in Globs BY <1>5, KindsAre DEF LongerPattern
  <2>2. scan' = [scan EXCEPT !.pattern = Append(scan.pattern, p)] BY <1>5 DEF LongerPattern
  <2>3. scan.pattern \in Seq(Parts \cup {"*", "**"}) BY <2>1 DEF Globs
  <2>4. Append(scan.pattern, p) \in Seq(Parts \cup {"*", "**"}) BY <2>3
  <2>5. scan' \in Globs BY <2>1, <2>2, <2>4 DEF Globs
  <2> QED BY <2>5 DEF ScanTypes
<1>6. CASE UNCHANGED scan BY <1>6 DEF ScanTypes
<1> QED BY <1>1, <1>2, <1>3, <1>4, <1>5, <1>6 DEF ScanNext

LEMMA ScanTyped == ScanSpec => []ScanTypes
<1> QED BY ScanInitTypes, ScanNextTypes, PTL DEF ScanSpec

\* Whatever panes run and however many issues are in flight, the sessions that the idle
\* pass frees are the highest ones, and it keeps as many as there are issues, as long
\* as every index has one digit.
THEOREM HighestAreFreed == ScanSpec => []HighestFreedShort
<1>1. ScanTypes => HighestFreedShort
  <2> SUFFICES ASSUME ScanTypes, scan.kind = "panes", \A a \in scan.names : Len(a) = 1
               PROVE  HighestFreedAmong(scan.names, scan.inFlight)
    BY DEF HighestFreedShort
  <2>1. scan.names \subseteq Indices /\ IsFiniteSet(scan.names) /\ scan.inFlight \in Nat
    BY KindsAre DEF Panes
  <2>2. scan.names \subseteq Short
    <3> SUFFICES ASSUME NEW a \in scan.names PROVE a \in Short OBVIOUS
    <3>1. a[1] \in Nat /\ a = <<a[1]>> BY <2>1, IndicesAre
    <3> QED BY <3>1 DEF Short
  <2> QED BY <2>1, <2>2, FreedAmong
<1> QED BY <1>1, ScanTyped, PTL

\* For every report of llvm-cov in the order of the file, the ranges of a coverage
\* finding are the uncovered lines; and for every pattern and path, however long, the
\* recursion over their rests finds a match exactly if the segments of the path can be
\* dealt to the parts of the pattern.
THEOREM CoverageIsExact == ScanSpec => []CoverageExact
<1>1. ScanTypes => CoverageExact
  <2> SUFFICES ASSUME ScanTypes PROVE CoverageExact OBVIOUS
  <2>1. RangesExact BY KindsAre, RangesAre
  <2>2. scan.kind = "glob" => Len(scan.pattern) \in Nat /\ Len(scan.path) \in Nat
                               /\ DOMAIN scan.pattern = 1..Len(scan.pattern)
    <3> SUFFICES ASSUME scan.kind = "glob" PROVE Len(scan.pattern) \in Nat /\ Len(scan.path) \in Nat
                                                 /\ DOMAIN scan.pattern = 1..Len(scan.pattern)
      OBVIOUS
    <3>1. scan.pattern \in Seq(Parts \cup {"*", "**"}) /\ scan.path \in Seq(Parts) BY KindsAre DEF Globs
    <3> QED BY <3>1
  <2>3. GlobAgrees BY <2>2, GlobsAre
  <2> QED BY <2>1, <2>3 DEF CoverageExact
<1> QED BY <1>1, ScanTyped, PTL
=============================================================================
