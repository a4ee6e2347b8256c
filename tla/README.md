# conductr: verification project

TLA+ models of conductr, the TLC runs that check them and
the TLAPS proofs about them. conductr is a set of command-line tools, started by
cron and by people, that hand GitHub issues to coding agents, keep the agents'
tmux sessions alive, merge what comes back and keep schedules and calendars in
step. It has no server holding the truth: every command reads GitHub, tmux,
crontab, calendar or files, decides on what it read, and writes back with
separate calls. What can go wrong is almost always of that shape, so the models
make every external call a step of its own.

## 1. The system

Paths are relative to `src/crates/`.

### Orchestration loop: `conductr-orchestrate/src/orchestrator.rs`

*State.* In the process: `soft_chord_blocked_since` (kept between the passes of
one process), and during a pass the lists read from GitHub, the slot indices in
use, `dispatched_this_pass` and `bureaucratic_dispatched_this_pass`. Shared:
issues, labels, comments, pull requests, checks, tmux sessions.

*Operations.* `run_cycle`: list closed pull requests, open issues, closed
issues and open pull requests; take `conductr:in-flight` off issues with a pull
request; run local CI; scan comments; classify; list sessions; merge; open QA
sessions; dispatch (isolation, hard chord, caps, label, then comment or session
and prompt, with rollback); write tempo rows. `run_to_completion` repeats it.

*Interaction.* GitHub through `gh_cli.rs`, tmux through `tmux.rs`, `local_ci.rs`,
a mailbox, and agents that act on comments and prompts in their own time.

*Hard behaviour.* Nothing is atomic: cron and a terminal run it at once, any
call may fail or fail to report, the process may die anywhere, and the whole
pass acts on lists read at its start.

*Correct when* an issue has one worker, only after its dependencies; sessions
are not shared; a failed dispatch leaves no trace; serialised presets are
serialised; only good pull requests are merged; dry runs are dry; deferred work
is eventually done.

### Classifier, dispatch, isolation, presets: `classifier.rs`, `dispatch.rs`, `isolation.rs`, `conductr-core/src/safety.rs`

Pure decisions on a snapshot: the bucket of an issue, its runner, the next free
slot, the stale slots for the idle sweep, the effective preset, and dispatch,
defer or notice. Correct when total, and when precedence is as documented.

### Other components

| Component | State | Operations | What is hard | What makes it correct |
| --- | --- | --- | --- | --- |
| Dependency graph (`deps.rs`, `graph.rs`) | the graph under construction | fill in, `topo_batches`, `check_closed` | closed and foreign dependencies, cycles | batches partition the issues, each after its dependencies and as early as it can; a cycle is reported iff there is one |
| Merge gate (`ci_gate.rs`, not called by the loop; the roll-up of `gh_cli.rs`) | none | `can_merge` per preset, roll-up to a CI status | precedence of hard and transient failures; checks without a conclusion | stricter presets allow no more than laxer ones; Passing stands on good conclusions |
| Tempo (`tempo.rs`, `tempo_profile.rs`) | rows in `.conductr` | append rows; averages and maturity | read-modify-write of a shared file; a median over buckets | no row doubled; the maturity is the median it says |
| `.conductr` (`tempo.rs`, `idle.rs`, begin in `main.rs`) | the file | rows, `[idle]`, `[cadence]` | writers that read, change and truncate | who has the file for itself loses nothing |
| Pod (`conductr-pod`, `main.rs` heal, ensure-session, save-state) | tmux panes | diagnose, heal, ensure, wait for idle, save and restart | commands that overlap on one pane; a Claude that is starting looks crashed; tmux takes a prefix for a name | what is typed after a launch goes to Claude; Claude comes back |
| Skill commands (`main.rs` idle, change-overview, human-ticket, architect) | their sessions, the QA pool | look up, diagnose, create, launch, wait, send | a diagnosis is old when it is acted on; an idle QA session is chosen, not reserved | a skill goes to an idle Claude; a dry run says what a run would do |
| Provisioning (`setup_spawn.rs`, `registry.rs`) | checkouts, files, cron, sessions | clone, write, sync, create, launch | a step failing half way, composition with heal | repeatable, within the registry |
| Setup wizard (`conductr-setup`) | files of a repository, git, links | 14 checks, their fixes, levels | fixes that read what others wrote; people beside it | a fix overwrites nothing of a person and undoes no other fix |
| Cadence (`cadence.rs`, begin in `main.rs`) | crontab, LaunchAgents, `.conductr`, `.conductr-local` | begin, sync, remove | read-modify-write of one crontab by all, errors between two files, tags that are prefixes of one another | a well-formed crontab, other people's lines survive, the record tells what is installed |
| Calendar (`reconcile.rs`) | calendar events | keep, delete, create | slots taken by events created or kept in the same run, events that people drag | every open issue has a decision or is reported; drags are respected |
| Self update (`self_update.rs`) | checkout, binary, timestamp | fetch, pull, install | failure between pull and install | the binary follows the checkout |
| Mailbox (`conductr-mail`, `mail_fs.rs`, `mail_github.rs`) | a JSONL file, a sentinel issue | send, inbox, thread, scope check | torn lines, sends that are not reported | a claim is seen by everyone after it |
| Local CI (`local_ci.rs`) | clone, FETCH_HEAD, worktrees | fetch, worktree, run, remove | one FETCH_HEAD for all runs | a run tests the head it was asked for and clears up |
| Idle scans (`idle.rs`, `conductr-scan`) | the pass, fingerprints, `[idle]` | arch rules, clippy and coverage of one crate in turn, stale panes, parity | passes that die, a crate on file that is gone | every defect is filed when each crate had its turn |
| Dashboard (`conductr-dashboard-*`) | snapshot, broadcast channel | refresh, serve, stream | slow subscribers, change detection, reading and subscribing apart | who follows the events is not left behind |
| Schedule (`conductr-schedule`) | plan, pattern, text | read, batch, write, parse | lengths that do not divide | a plan is scheduled in order and comes back from its text |
| Task sync, config, model adapters, mocks | none or external | I/O and text | - | left out, see section 7 |

The hazards found in the survey, each at its line and with the properties that
are about it, are in `PROJECT.json`.

## 2. Plan

Done, in this order:

1. `Policy` (pure decisions), `Orchestrate` (the loop, which uses it),
   `WorkLedger` (the abstract specification it implements), `Pod`, `Cadence`.
2. Protocols of read, decide and write, with failures between the steps:
   `Calendar`, `SelfUpdate`, `ProjectFile`, `Skills`, `Mailbox`, `LocalCi`,
   `Setup`, `IdlePass`, `Dashboard`.
3. Algorithms against reference definitions: `DepGraph`, `Schedule`, `Tempo`,
   `IdleScan`, `MergeGate`, `Parity`.
4. `MCHost` and `MCTools`, which put the small modules into two runs, and
   `MCCalendar`, the calendars of `MCHost` and of a run of `Calendar` alone.
5. Proofs, in eight modules: `Orchestrate_proofs`, `Pod_proofs`,
   `Plan_proofs` (`DepGraph`, `Schedule`, `Tempo`), `Host_proofs` (`Skills`,
   `SelfUpdate`, `Dashboard`, `LocalCi`, `MergeGate`), `Calendar_proofs`, `Tools_proofs` (`Setup`,
   `IdlePass`, `Mailbox`, `Parity`, `IdleScan`), `Cadence_proofs` and
   `File_proofs` (`ProjectFile`).

Left:

- An abstract specification of `Cadence` (a map from project to entries) that it
  implements while commands do not overlap.
- The stale panes of `IdleScan` composed with `Orchestrate`, in place of the
  free-running environment that ends sessions today. Nothing in the repository
  calls the functions that list them; the idle skill does.
- The other sections of the dashboard, and `--dry-run`, `--no-restart` and
  `--pattern` of the pod commands.

## 3. Modules and their correspondence to the code

**`Policy`** is `resolve_preset`, `resolve_ci_mode`, `aggregate_sibling_status`
and `decide` as operators on value sets.

**`Orchestrate`** has one process per `conductr orchestrate`, and:

| Model | Code |
| --- | --- |
| `issueOpen`, `inFlight`, `commented`, `noticed`, `assigned`, `pr`, `ci` | what GitHub holds: open issues, the label, trigger and advisory comments, assignment, pull requests and their checks |
| `claims`, `yells` | the mailbox messages the loop reads and sends |
| `agent`, `qa`, `web` | sessions `agent<n>`, `qa<n>` and GitHub Actions runs; a slot holds `NoSession`, `Fresh` (created, not prompted), its issue or pull request (at work), or `Parked` (alive without work) |
| `pc` | the next external call of the pass |
| `snap` | `closed_prs`, `open_issues` and their labels, `closed`, `prs`, `triggered` |
| `todo` | what the current `for` loop has left |
| `agents`, `qas`, `beats`, `bureau` | `agent_indices_in_use`, `qa_indices_in_use`, `dispatched_this_pass`, `bureaucratic_dispatched_this_pass` |
| `cur`, `slot` | the loop variable and the chosen index between two calls |
| `held` | `soft_chord_blocked_since`: absent, running, past the timeout |
| `left` | the report has something triggered, merged, waiting or failing |

Actions, in the order of a pass: `Start`; `ReadClosedPrs`, `ReadOpenIssues`,
`ReadClosedIssues`, `ReadOpenPrs` (`SurveyFails` when one of the last three
errors); `ClearLabel`/`ClearDone`; `RunLocalCi`; `ReadComments`;
`ReadSessions`; `MergePr`/`MergeSkipped`/`MergeDone`;
`OpenQaSession`/`QaSkipped`/`PromptQa`/`QaDone`; for each issue `PassOver`,
`HoldBack`, `Defer` or `Choose`; after `Choose`, `ClaimIssue` (the label), then
`PostTrigger` or `OpenSession` and `SendPrompt`, with `RollBack` on failure;
`EndPass`. `Crash` may come anywhere. The environment: `AgentOpensPr`,
`AgentGivesUp`, `HumanOpensPr`, `ClosePr`, `CiReports`, `CloseIssue`,
`ClaimScope`, `AgentSessionEnds`, `QaSessionEnds`.

`Hazards` selects what may go wrong in a run: `apiError` (a call fails),
`replyLost` (it took effect and was reported as failed), `tmuxError`, `crash`,
`giveUp`, `localCiError`, `ciFails`, `abandon`, `humanPr`, `humanClose`,
`scopeClaim`. The proofs hold for every subset.

Points where the model departs from a line-by-line reading:

- One step covers a decision and the local bookkeeping up to the next external
  call. Advisory comments, yells and human assignments, which nothing reads
  again, are part of the step that decides them.
- The result of the first `send_line` of a new session (`claude ...`) is
  ignored by the code; it is folded into `SendPrompt`/`PromptQa`, which decide
  alone. A session is not killed between its creation and its prompt.
- The coordinator semaphore is always free where it is tried: `run_cycle` takes
  `&mut self` and the permit is dropped at once.
- `todo` loops go in any order; the code's order is the order of a list from
  GitHub, about which nothing is known.
- `PrIssue` stands for both ways a pull request is linked, by branch and by body.
- Issues and pull requests are not reopened. `DependenciesDone` depends on it: a
  reopened dependency is not noticed within a pass, nor afterwards.
- The shipped local CI adapter never returns an error (it reports Unknown);
  `localCiError` is there for the trait. No run enables it.
- List limits (500 issues, 200 pull requests, 100 closed ones) are left out.
- `PresetOf` uses maturity L0, as the loop does: maturity is never passed in.
- `RunLocalCi` and `ReadComments` are one step each, where the code makes one
  call per pull request or issue (`orchestrator.rs:151-187`, `191-197`) and the
  local runs take minutes. No other process comes in between two of them in the
  model; the statuses and lists they are judged by are those of the start of the
  pass in both.
- `HasMailbox` and the rows about tempo are what the library offers: the command
  (`main.rs:1995-2055`) gives the loop neither a mailbox nor the path of
  `.conductr`, so that yells, scope claims and rows inside a pass are reached by
  callers of the crate only.

**`WorkLedger`** says what the loop promises about work: an issue is assigned
only when nobody works on it and its dependencies are done. `Orchestrate` maps
closed issues to `done` and sessions at work plus Actions runs to `load`.

**`MCOrchestrate`** gives the small repositories; **`Orchestrate_proofs`** holds
the theorems.

**`Pod`** has the sessions of one tmux server and the commands that type into
them. A pane is abstracted to what runs in it (`none` for no session); `Shows`
is what `classify` can make of its screen, `Target` how tmux resolves a name.

| Model | Code |
| --- | --- |
| `pane`, `rc` | what runs in each session; where Remote Control is on |
| `cloned` | project paths that exist |
| `step`, `cmd`, `cur` | the next external call of a process, its arguments, the session it is at |
| `todo`, `seen` | what a loop has left; the diagnoses that `diagnose_all` has collected |
| `fresh` | `freshly_launched` in `run_heal` |
| `lost` | history only: processes whose session is not, or no more, the running Claude it showed |

Actions: `Invoke`; `EnsureLook`, `EnsureCreate`, `EnsureLaunch`, `EnsureWait`
(`wait_for_idle`), `EnsureRemote`, `EnsureEnable`, `EnsureThen`; `Provision`,
`ProvisionCreate`, `ProvisionLaunch`, `EndProvision`; `Capture`, `EndCapture`;
`Restart` (`heal_all`); `SaveState`, `Relaunch` (`restart_session`); `EndLoop`.
The sessions: `ShellPrompts`, `ClaudeStarts`, `ClaudeWorks`, `ClaudeAnswers`,
`ClaudeExits`, `ClaudeDies`, `SessionEnds`. `PodHazards`: a tmux call or a clone
or a tracker call fails, 120 s pass before Claude is up (`timeout`), the screen
of a Claude that is gone stays on (`remnants`).

- Text and Enter, two calls of `send_line`, are one step, and so are the list
  and the capture of `diagnose_one`.
- Two keystrokes of different commands are never mixed in one line.
- A cron line's `--then "conductr orchestrate ..."` runs beside the session; what
  it does is `Orchestrate`.
- The provision pass also syncs the cadence of a project: that is a sync of
  `Cadence`, whose result the pass reports and does not look at.
- `--dry-run`, `--no-restart` and `--pattern` are left out; a heal without a
  registry is one without a provision pass. The registry does not change.

**`Cadence`** has the crontab as a sequence of lines (a user's line, a marker,
a job), the LaunchAgents as a table per repository (`agents`: what a plist
schedules, loaded now or at the next login), `[cadence]` (`config`), the
`.conductr-local` file (`record`), and processes that each hold the crontab they
read (`base`), the `[cadence]` they read (`want`) and what a loop has left
(`rest`). A tag is a sequence of words, so that the prefix test of `merge` is
one on sequences: `Under` says which labels the prefix `tag-` takes for its own,
`Foreign` what lines are left, `Apart` of which repositories no other one takes
the lines for its own.
`StripLoop` is the loop of `merge` over the lines, as a function of the number of
lines it has passed; `StripLine` is its body. Actions follow the calls: `Run`, `Upsert` (begin),
`ReadConfig`, `ReadCrontab`, `WriteCrontab`, `InstallAgent`, `WriteRecord`,
`RemoveAgent`, `ReadForRemoval`, `StripEntry`, `DeleteRecord`, `Dies`; edits by
hand are `EditConfig` and `EditCrontab`. `alone` and `dirty` are history: a
command that nothing overlapped with, a repository with a command cut short or
overlapped since its last undisturbed sync.

- `CrontabRead`: `read_crontab` takes every failure of `crontab -l` for an empty
  crontab, and so does the model.
- Adding an entry to `.conductr` (read, insert, write) is one step; two begins
  at once in one repository are not what the module is about.
- An error that leaves no trace (a plist path that cannot be written, a
  schedule that does not parse) is a death at that point.
- The README banner and the plist text are left out.

**`MCPod`**, **`MCCadence`** give the small hosts; in `MCCadence` the second
repository is synced with one mechanism per behaviour. **`Pod_proofs`** holds
the pod's theorems.

The modules that follow are small: one file or one protocol each.

**`Calendar`** is a run of `conductr sync` call by call: `StartSync` lists the
events that have not ended, `ReadHumanIssues` the issues, then one issue at a
time, the most urgent first, is kept (`KeepSlot`) or its event deleted and
another created, and at last decisions of issues that are gone are dropped. `syncRun` holds what the run has
read (`seen`, `open`), which of its events count as taken (`occupied`), and
which moved away (`undone`, `removed`); `lastRun` is history, and stands for as
long as the same repository is synced again and nobody else does anything. People move and
delete events and close issues between the calls, a call fails, the clock
ticks. The schedule test is the same machine with a tag of its own. Slots are
half hours from the start of a window, time is in quarters of an hour. The text
of events and the time zone are left out. `Taken` is `occupied_ids`: the events
that a run has kept or created, whose half hours the code does not count as
taken. `CreatedWhereAllowed` says what holds of slots nevertheless,
`NoDoubleBooking` what the comments promise.

**`SelfUpdate`** numbers the commits of a branch: `upstream`, `headOf` of each
checkout, `installed`, `stamp` (hours since the recorded check). A pass resolves
its checkout, tests the interval and the tree, fetches, reads HEAD, pulls, reads
HEAD again, installs, writes the state file. `UpdFault` is what leaves a
checkout ahead of the binary (a failing install, a death, a pull by hand); it is
outside `UpdSpec`, about which `PulledIsInstalled` speaks, and inside
`FairFaultyUpdSpec`, which `UpdateReaches` is refuted under.

**`ProjectFile`** is `.conductr` as a sequence of table headers and keys, and its
writers: rows about closed pull requests (`WriteBack`), `[idle].last_module`
(`WriteIdleState`), `begin`, and a person. A writer holds the text it has read
(`read`) and the text it will write (`out`); `fs::write` is `Truncate` then
`Fill`, so that a reader or a death may come in between. `TableOf` is the table a
line is in as a TOML parser has it; the writers look for lines themselves, and
take arrays after a table for part of it. `closed` begins with the pull requests
that have rows already; `alone` is history.

**`Skills`** has the sessions that commands hand a skill to (`shown`: the health
that `diagnose` would find) and one record per process: `LookUp`, `Diagnose`,
`Create`, `Launch`, `AwaitIdle`, `SendSkill`, and `Diagram`, which takes a session
out of the QA pool; the pool may hold sessions with numbers beyond `max_qa`
(`BeyondCap`), which the code takes when they are idle. `DryDiagramSlot` is the
dry run of diagram, to be compared with what the command decides; the other dry
runs are left out (section 7). The waits of each command are one wait
that ends with Claude idle or is given up. That a pane may mislead is `Pod`'s
subject and left out here.

**`Mailbox`** has `inbox.jsonl` as lines (a message and its newline are two
writes), the comments on the sentinel issue, and what each agent is sending.
`torn` is history: two writes to the file came between one another, or one was
cut short. Every read may fail, whatever the store holds (`up`, an argument of
`ReadJsonl` and `ListComments`): `gh` fails or answers with what does not parse,
the file does not open, and whoever asks is then told Clear.
`CheckScopeOverlap` and `CheckScope` are operators on what the stores hold; the
loop uses the first. A message may be a claim on an issue and files, a note, or
carry a fence that breaks its comment; a send may die half way or be delivered
and reported as failed.

**`LocalCi`** has the clone's one `fetchHead`, `worktrees` by path, and a run per
process: fetch, worktree add of FETCH_HEAD, the commands one by one, removal.
The removal may fail and nobody learns of it, as `WorktreeGuard::drop` throws
git's result away: `Conclude` takes the path away or leaves it. So a tree may
stay after a run that nobody killed, and a later run that gets its path fails.
Paths are named after the clock, and two runs within a tick have the same one.
Fetches by hand, pushes, failures and deaths come in between.

**`Setup`** is the fourteen checks as a function of a repository
(`project.files`, which of them are a person's, the lines of .gitignore and
whether it reads as UTF-8 (`ignored`, `utf8`), links, git), a wizard that
applies the fixes of those that failed at its start, and people beside it. The
level a check belongs to and the report are operators.

**`IdlePass`** takes the use-case crates in turn from `[idle].last_module`, checks
the rules everywhere and clippy and coverage in one crate, files what has no
issue yet, and writes down the crate last. `turns` is history. Filing itself is
the idle skill's text and modelled from it. **`IdleScan`** has the helpers: stale
panes by name, uncovered ranges of llvm-cov segments, patterns that exclude.
**`Parity`** compares the flags that the text of a skill names with those of clap.

**`Dashboard`** has the panes, the poll loop (`ListSessions`, `LookAt`,
`DiagnoseFails`, `WriteSnapshot`), the broadcast channel as an inbox per client
that drops its oldest entries at `ChannelCap`, and clients that subscribe, read,
take events and hang up. `after`, `early` and `lagged` are history: the client
read after it subscribed, read in the middle of a refresh, lost an entry.

**`DepGraph`** fills in a graph (`AddIssue`, `AddDep`, `EnterDep`) and runs Kahn's
algorithm batch by batch (`Sort`, `TakeBatch`, `Finish`). **`Schedule`** reads a
plan line by line, batches it into bars, writes the pattern as the text DSL and
parses it, or a text typed by hand. The loops within one call (the order of the
items a batch frees, the rests of a bar, the sum of a bar) are recursive functions
on the number of turns, and the beats in brackets are taken level by level, up to
`MaxNesting`. **`Tempo`** has the `[[tempo.prs]]` rows in the order in which they
were recorded, one accumulator per bucket that takes them row by row, and the
maturity as a weighted median of time-decayed averages, over the buckets in the
order of a stable sort.
**`MergeGate`** has the checks of a branch and the roll-up of a pull request, and
`CanMerge` per preset.

**`MCHost`** (with **`MCCalendar`**) and **`MCTools`** extend several of these. Their parts share no state:
a behaviour is one of a single part (`part`), and the others stay as they
began, so that the states add up instead of multiplying. **`Plan_proofs`**,
**`Host_proofs`**, **`Calendar_proofs`**, **`Tools_proofs`**, **`Cadence_proofs`**
and **`File_proofs`** hold the theorems; each extends the modules it is about, and
its inductive invariants are there, not in the models.

## 4. Runs

| Run | Checks | Shows |
| --- | --- | --- |
| `Contend` | `TypeOK`, `DependenciesDone`, `OwnSession`, `LabelMeansWork` | two processes call by call on a chain of issues and one slot, and tmux may fail: stale snapshots give out no blocked work, no session is shared, the loser of a slot takes its label back |
| `Chord` | `BureaucraticAlone`, `NoDoubleWork`, `LocalModeMergesPassing` | serialised issues, abandoned pull requests, local CI deciding alone |
| `Progress` | `EveryIssueCloses` | liveness of the polling loop |
| `Pod` | `PodTypeOK`, `EnsureReady`, `ComesBack` | a cron line beside ensure-session, heal or save-state by hand, on two sessions of which one name begins the other: nothing is typed after a launch before Claude is up, and Claude comes back |
| `Host` | | what conductr keeps on a host, part by part: |
| - loop | `DryRunSilent` | every kind of issue, nothing written in a dry run |
| - `Cadence` | `WellFormed`, `OthersSurvive`, `RecordMatches` | begin and remove in one repository, sync and remove in another, with every error, deaths and an edit by hand |
| - `Calendar` | `RunReconciles`, `CreatedWhereAllowed`, `DragsRespected` | runs on three calendars, beside a person who moves, deletes or closes |
| - `Skills` | `LoneSkillToIdle`, `DryPlanTells` | two commands on a session and a pool of two with a session beyond the cap, while Claudes die |
| - `ProjectFile` | `RowsOnce`, `LoneWriteLands` | two writers and a person on one file, cut off anywhere |
| - `SelfUpdate` | `PulledIsInstalled` | two passes at once, forced ones included |
| - `Dashboard` | `OutletsAreTold` | the poll loop and a client that hangs up and lags |
| `Tools` | | what conductr computes and does in a repository, part by part: |
| - loop | `ImplementsLedger` | one process at a time, with failing calls, deaths and agents that give up, implements the ledger |
| - `DepGraph` | `SortSound` | every graph on three issues, with every set of closed ones |
| - `Schedule` | `PlanIsOrdered`, `RoundTrip` | plans and texts of five lines |
| - `Tempo` | `MaturityIsMedian` | histories of three rows |
| - `IdleScan` | `HighestFreedShort`, `CoverageExact` | three panes, five segments, paths and patterns of three parts |
| - `IdlePass` | `EveryDefectFiled` | three crates, a defect of each kind that comes and goes, passes that die |
| - `MergeGate` | `StricterAllowsLess`, `RollupTells` | three checks of every status and conclusion |
| - `Parity` | `CleanIsParity` | two lines of a skill, two flags that come and go |
| - `LocalCi` | `LoneVerdict`, `TreeIsOwn` | two runs in one clone, on two branches that are pushed to; a removal may fail |
| - `Mailbox` | `ClaimIsSeen` | three messages by two agents to both stores; a read may fail |
| - `Setup` | `FullRunFixes`, `LoneWizardKeepsOwn` | a wizard on three repositories, one of them with a .gitignore that does not read, beside a person |
| `RaceTwo` | `LabelIsLock` | violated: the label is not a lock |
| `DoubleBooked` | `NoDoubleBooking` | violated: one undisturbed sync gives two issues the same half hour |
| `CrashLabel` | `CrashReconciled` | violated: after the last crash passes run for ever and skip the issue it left labelled |
| `HealTwice` | `RestartPassScope` | violated: heal types before it looks at its scope |
| `CadenceOrphan` | `RemoveUninstalls` | violated: synced with crontab, then with launchd, then removed: the crontab lines stay |
| `UpdateLost` | `UpdateReaches` | violated: one install fails; every later pass fetches, pulls and installs nothing |

**Bounds.** Two issues give every relation between issues the code
distinguishes (dependency, sibling, competitor for a slot, chord partner); the
dry run and `Progress` have a third so that a human issue, a dependency and a
ready issue coexist. Two processes: the guards compare a snapshot with the
shared state, and one other writer is enough to make it stale at any point. One
pull request per issue; `MaxBeats` 1 where slots are contended, 2 where a pass must dispatch twice.
`MaxRuns` = 2 saturates the number of Actions runs of an issue: two already
violate what is claimed. `Contend` treats its two processes as
interchangeable. `Pod` has a cron process and one that is given any command,
which is all a pane can be contended by call by call; `MaxUpsets` = 1 puts one
death, tmux failure or save-state at any point (each can happen again from any
state it leads back to, since a pane has few states). `Cadence` has two
repositories with two tasks and two processes, `MaxEdits` = 1 edit by hand at
any point, and no bound on errors and deaths. No bound cuts a command short; the
counters below bound how many are begun.

In `Host` and `Tools`: the calendar has two issues, a horizon of six quarters
(three slots) and one thing that people do (`MaxMoves`), at any point of a run,
and seven event numbers, which is enough for every issue to be moved in two
runs. `.conductr` sees three jobs (`MaxStarts`): two that overlap and one that
reads what they left. Self update has two passes, an interval of two hours and
three commits, so that a pass can be overtaken once between any two of its
steps. A client of the dashboard with a channel of two entries lags after
three. `Numbers` = 3 issues give every cycle up to length three and a chain of
three batches. `Schedule` has three tickets and five lines; `PlanNotes` are a
whole bar and an eighth of one, the second of which is the one that does not
divide; `MaxNesting` is 2, the depth of the deepest bar in `HandBars`. `IdleScan` has indices of two digits, because the names sort otherwise
than the numbers from ten on; `TopRanges` is 2 where the code has 5, so that
there are more ranges than are listed. Two runs of local CI and one tick of the
clock give the same path and another one; one push to a branch makes a head
stale. Three messages give a claim, another claim and something in between.
`Setup` starts from a repository without anything, one where what there is is wrong, and one that lacks little.

The refuted runs are small, since they need one behaviour: `DoubleBooked` has two
issues, no people and no failures; `CrashLabel` one issue, one process and no
failure but the crash; `UpdateLost` one pass at a time, two commits and no
failure but that of the install.

`CHECK_DEADLOCK` is left on where a process can always be started again, and is
off in `Host` and `Tools`, whose parts stop when their counters have run out.

**Mutants.** The modules hold a plausible mistake for each property next to the
definition it alters (`Mutant:` comments); `PROJECT.json` pairs them. They are
not part of any specification.

## 5. Fairness

`FairSpec` assumes: a process keeps taking steps and is started again (cron and
the poll timer); time passes while it sleeps (`SF` on `SoftChordExpires`, which
is only enabled between two passes; the proviso is a poll interval that is
not negligible against the timeout); agents at work open their pull request,
or end if there is one; checks report; people close their own issues. `Reaper`
assumes that finished sessions are killed: nothing in the repository does it
(the functions that list stale panes are called by tests only; the documents
give the killing to an idle skill), and without it a single slot is filled once and for ever. `EveryIssueCloses` is
therefore a property of the loop together with an operator.

`CrashReconciled` is refuted under the same fairness. Fairness alone would not
do: a process that crashes for ever before it gets anywhere refutes every
program. The property therefore presupposes `CrashesCease` (from some point on,
whatever takes a process down is the end of its pass), and the trace shows one
crash after the label is added, and after it passes that run from the survey to
their end, again and again, and skip the issue.

`FairPodSpec` assumes that a command takes its steps (`WF`), that shells and
Claudes come up and go down in finite time (`WF`), and that cron starts its line
again and again (`SF` on `Invoke`: its process is not always free, since it is
the one cron line in the model). Nothing is assumed of people: Claude may work
for ever, and other commands may be typed at any rate. save-state typed by hand
is counted among the upsets, since run for ever it would end Claude for ever.

`FairFaultyUpdSpec` assumes that hours pass and that the idle pass comes round
(`WF` on `Begin`), that a pass takes its steps (`WF`), and that a pull and an
install that are tried again and again succeed in the end (`SF`). It is as much
as can be asked for. `UpdateLost` enables no fault but a failing install
(`UpdHazards`), so that no pass dies and every fetch and pull succeeds: its
trace is one failed install, and passes for ever after that find HEAD where they
left it and install nothing.

## 6. Proofs

All invariants below were checked with TLC on small instances before they were
proved.

`Orchestrate_proofs` proves, from `ConstantsAssumption` (types of the constants,
distinct marker values; no bound on any set), for every choice of hazards that
the theorem or its property does not exclude:

- **`TypeCorrect`**, `Spec => []TypeOK`. `TypeOK` is not inductive: a slot index
  is applied to `agent` in `SendPrompt`, so the proof needs that it is a slot.
  `TypeInv` adds `Focused(o)`: at each step of a dispatch the issue and slot
  held are of the right kind, and during the QA loop what is left are pull
  requests.
- **`WorkIsUnblocked`**, `Spec => []DependenciesDone`. Inductive with
  `SnapshotsSound` (no snapshot takes an open issue for closed, however old:
  issues only ever get closed) and `ChoicesSound` (from `Choose` to the call
  that starts the worker, the chosen issue's dependencies are closed). Staleness
  is harmless here because the one fact relied on is stable.
- **`SessionsAreOwned`**, `Spec => []OwnSession`, inductive as it stands given
  `TypeInv`: tmux refuses a name that exists, so a `Fresh` session has exactly
  one process at its prompt step.
- **`DryRunsAreDry`**, `Spec => []DryRunSilent`. `DryInv` says that in a dry run
  no process ever gets to a step of `Writing`.
- **`LabelsMeanWork`**, `Spec => []LabelMeansWork`, for any number of processes.
  A label is backed by a worker, a pull request or a process in `Holding`; a
  step either backs the label it adds or keeps whatever backed it
  (`LabelStep`). It needs `OwnSession`: a prompt that overwrote a session at
  work would take the worker from under another issue's label.
- **`MergesAreLocal`**, `LocalModeMergesPassing` under `LocalDecides` (local CI
  runs on every pull request and decides alone), for any number of processes.
  `Judged` says what the merge step relies on: from local CI to the end of the
  merges every status in the snapshot is a verdict, and what is left to merge
  has one that is not `Failing`.

Three more are about a process alone (`Single`: one process, and no call that
takes effect while it reports an error), and rest on `OnceInv`:

- **`OneWorkerEach`**, `Spec => []NoDoubleWork`. `NoDoubleWork` is far from
  inductive. `WorkersCounted` adds that an issue at work has its label or a pull
  request; `Told` follows a pass from its first listing on: each worker on an
  issue the pass may still choose is known to it by the label it read or by an
  open pull request, first the one that is open on GitHub, then the one in the
  snapshot; `Held` and `Claimed` say that the issue that has been chosen has
  nobody at work and keeps its label. An issue one of whose pull requests has
  been closed is `Excused`.
- **`WorkIsLedgered`**, `Spec => ImplementsLedger` under `Closing` (pull requests
  are only closed by merges that close their issue, and have a largest number).
  Nobody is excused then, so that the load of an issue is 1 if somebody is at
  work on it and else 0 (`SoleLoad`), and a step is seen to move the work of one
  issue (`WorkMoves`), to close one (`IssueCloses`) or to stutter
  (`NothingMoves`). That work begins only on unblocked issues is
  `WorkIsUnblocked`. `LinkedPr` is a `CHOOSE` of the largest number, hence the
  bound and the well-founded order of the naturals (`LinkedPrIsLinked`).
- **`StrictOneByOne`**, `Spec => []BureaucraticAlone` under `Serial` (nobody
  closes by hand the issues agents work on). `SerialInv`: an issue that is
  closed is a person's or has a pull request (`ClosedForCause`), so a Bureaucratic
  issue at work without one is in the listing of open issues with its label, and
  the pass has that label or has dispatched the issue itself (`ChordSeen`).

`Pod_proofs` proves, from `PodAssumption` alone, for every set of sessions,
processes, command lines and hazards (`remnants` included):

- **`PodTypeCorrect`**, `PodSpec => []PodTypeOK`, and **`ReadyIsReady`**,
  `PodSpec => []EnsureReady`. The inductive invariant `PodInv` adds to the types
  what a process is at in each step (`Minds`): a session where it types, a
  project of the registry where it provisions. Every step is shown to split into
  a step of the host that keeps the types and marks whoever it disappoints
  (`HostStep`) and a step of one process's mind (`Others`), and `SoundStep` puts
  the two together; each command then has one lemma.

`Host_proofs` proves of `LocalCi` **`VerdictIsOnHead`** (`LoneVerdict`) and
**`TreesAreOwn`** (`TreeIsOwn`), for any processes and branches. The
invariant `CiInv` says what a run knows at each of its steps: between its fetch
and its checkout, FETCH_HEAD is what it asked for unless its `alone` is lost,
and from the checkout to the end its path is in `worktrees` with that commit. A
run that finds its path taken ends, so no two runs are at work in one path. Both
hold with removals that fail: nothing is proved of trees that stay, and they do.

`Host_proofs` proves **`BinaryFollows`** (`PulledIsInstalled`), under
`Checkouts = {Home}`: with two checkouts, passes on one and on the other install
in turn. The invariant `UpdInv` says that HEAD only moves forward past what a
pass read before (`HeadMovesOn`), and that while the binary is not the one of
the checkout, some pass that saw an older HEAD is on its way to an install
(`SomebodyInstalls`): whoever moved HEAD, or one that it overtook.

`Host_proofs` also proves **`TheToldAreCurrent`** (`OutletsAreTold`), from
`ChannelHolds` (the channel has a place). The invariant follows, for each
session, what a client last read, what is in its inbox, and what the refresh has
taken and announced so far.

`Plan_proofs` is about the algorithms on graphs, plans and histories. Its loops are
recursive functions of the number of turns. What holds after every turn is proved
by the least turn after which it would not (`LeastOf`), since induction over an
operator is not to be had; `LoopIs` gives such a function its two equations.

- **`BatchesAreSound`** (`SortSound`), for every set of issue numbers. The invariant
  parts the graph into issues that wait, that are ready and that have a batch, says
  that those that wait have an open dependency that is not in an earlier batch, and
  that a batch is the first possible.
- **`PlanOrdered`**, `ScoreSpec => []PlanIsOrdered`, for plans of any length,
  from `ScoreAssumption` (tickets are positive numbers, estimates are note values,
  brackets end at `MaxNesting`). `PlanIsOrdered` says nothing before the last batch
  and is not inductive. `BatchInv` is: the plan is `Valid`, the queue and the bars
  hold an item once at most (`QueuedOnce`, `PlacedOnce`), `in_degree` counts the
  dependencies without a bar (`CountsOpen`), the queue is exactly what has no bar and
  no such dependency (`QueuesFree`), and what has a bar has its dependencies in
  earlier ones (`DepsFirst`). A dependency that is listed twice counts twice, on both sides
  (`UsedCounts`). `FreedAre` is the heart: an item is queued while a batch is
  popped at the one position at which its count runs out, hence once.
- **`PlanComesBack`**, `ScoreSpec => []RoundTrip`. `TextInv` follows the pattern from
  bars to text to parse. `RestsIs` is the loop of the rests: they fill the room that is
  left, whatever it is, because the largest note that fits is never 0; so all bars have
  the length of the longest (`BarIs`). If that is a whole number of quarters the text
  is read, and whatever is read is the plan. `LeavesParse` says that
  what a plan writes has no brackets and is read line by line.
- **`MaturityMedian`**, `TempoSpec => []MaturityIsMedian`, for any history. The
  averages are fractions and `Before` compares them by cross products: that it orders
  the buckets strictly and totally (`BelowIs`, `BeforeIs`) needs that their
  denominators are positive, which the accumulator keeps (`AccumulatedIs`). Then the
  last bucket has the whole count below it, so that half of it is reached
  (`Ends`, `ReachedIs`), and what comes before the first bucket that reaches half is
  less than half, what comes behind it at most half (`CountGrows`).

`Host_proofs` proves of `MergeGate` **`DetentsInOrder`** (`StricterAllowsLess`), which needs
no invariant, and **`PassingStandsOnGood`** (`RollupTells`), from the assumption
that "none", which stands for a check without a conclusion, is not among
`Conclusions`.

`Host_proofs` proves of `Skills` **`SkillsGoToIdle`** (`LoneSkillToIdle`), from
`SkillAssumption` (the commands have a session, the pool a size). The invariant
`SkillInv` says of a command that is alone that no other one is at its session
(`Alone`), and what it knows of it (`Expects`). `CallMoves` is the frame: a step of
one command that touches no session but its own keeps what all expect.
`SlotIsFree` is the one fact about the choice out of the pool, by the least
number, and rests on the well-founded order of the naturals. **`DryRunTells`**
(`DryPlanTells`) is about the dry run of diagram, which counts the QA sessions,
and the run, which looks for the first free number: where a session is idle or no
number is missing below the last one (`NoGap`), and the cap is not 0, they name
the same session. Without a gap the sessions are exactly 1 to their number, so
the first number that is free is the one behind it.

`Calendar_proofs` is about any repositories, issues, first calendars and moves
(`CalAssumption`: events of a first calendar are numbered, no two with one
number, and end after they start; issues are numbers and depend on finitely
many). `IdsInv` has events known by their number, in the calendar and in a
listing; `ReadInv` what a run that is under way may still rely on, whoever acts
beside it.

- **`SlotsAreAllowed`**, `CalSpec => CreatedWhereAllowed`, an action property:
  whatever a run or a schedule test creates lies in a window it listed that takes
  its tag, on no blocker it listed, not before its clock, and on no event it
  listed other than a decision it keeps. The exception is what the code makes of
  `occupied_ids`; that there is none is `NoDoubleBooking`, which `DoubleBooked`
  refutes.
- **`DragsStay`**, `CalSpec => DragsRespected`, an action property: a run deletes
  no decision of an open issue that was dragged when it read it, and a dry run
  deletes nothing.
- **`SyncReconciles`**, `CalSpec => []RunReconciles`, which needs all of `CalInv`:
  `CalmInv` says that an undisturbed run knows the calendar but for what it did
  itself (what it created is of issues it is done with, and what it deleted it
  meant to), `DoneInv` that the issues it is done with have their decision or no
  slot is free for them, and `StandsInv` that a result stands while the same
  repository is synced again. That a later event of the run takes no slot that
  an earlier issue was denied is why `NoneFree` must be kept and not only found.
  The next issue and the first slot are `CHOOSE`s of a least element
  (`MostUrgentIsOne`, `LeastOf`).

`Tools_proofs` is about `Setup`, `IdlePass` and `Mailbox`:

- **`LoneKeeps`** (`LoneWizardKeepsOwn`, an action property) and **`FullRun`**
  (`FullRunFixes`), for any repositories to begin with whose own files are among
  their files, and any files people write (`SetupAssumption`). `LoneInv`: what a
  lone wizard has left to fix is no file that a person wrote (`LoneKeeps` also has
  that no line of a .gitignore that reads as UTF-8 is lost); `FixedInv`, check by
  check: what it has not left to fix passes, but for what no fix can do.
- **`DefectsFiled`** (`EveryDefectFiled`), for any number of crates and defects.
  `IdleAssumption` says that crates have different names and that a defect is one
  of a rule or of a crate, in clippy or in coverage. The count of turns is bounded
  by the distance in the rotation: `TurnInv` adds to the turns of a defect the
  passes to wait until its crate comes round (`Wait`), and `SeenInv` says that a
  pass that has gone by the step of a defect has found it, or has it slipped in
  behind.
- **`ClaimsSeen`** (`ClaimIsSeen`), for any agents and messages. `LinesInv`: as long
  as no writes were torn, no line holds two messages, and the last one is open
  for one sender at most; `KeptInv`: what was delivered stands in its store. `FailOpen`:
  a read that fails is answered Clear, so the answer tells the read, and nothing else,
  from its failure.
- **`NoFindingIsParity`** (`CleanIsParity`), for any skills and flags. `Sooner` orders
  the mentions as the code looks at them (`SoonerIsTotal`), so every flag that is
  mentioned has one that is extracted (`FirstIsExtracted`), and only one (`OnePlace`).
- **`HighestAreFreed`** (`HighestFreedShort`), for any number of panes of one digit.
  `KeptCount` takes the lowest pane away: of `n` panes `min(n, k)` have fewer than `k`
  below them.
- **`CoverageIsExact`** (`CoverageExact`), for any report, pattern and path.
  `ScanAssumption` says that digits are digits and that lines are numbered.
  `LoopInv` is the invariant of the loop over the segments: a run that is open
  started at a bare segment and has been bare since (`GoesOn`), a range is a run that
  ended (`Ended`), and every bare segment is in the one or the other, or had no
  line. For patterns, `FitsIs` shows that what the recursion says of two rests is true of
  the cuts of these rests, and `GlobIs` that it is the only function for which
  that holds.

`Cadence_proofs` is about any repositories, tags, tables, processes and failures.
`CadenceAssumption` says that tags are sequences of words, that the tasks are
finitely many, and that the marks for no file and no time are no values of the
code. Nothing is said of how tags relate to each other.

- `StripLoop` is a recursive function on the number of lines passed. What it
  leaves is proved without induction over data, by the least line at which it
  would not hold (`LeastOf`): no job is left without its marker, nothing foreign
  is lost and the order stays.
- **`CrontabFormed`**, `CadSpec => []WellFormed`. The crontab that a process read
  may be as old as it likes (`AllFormed` says of each that it is formed): what is
  written is `merge` of a formed crontab. `Upsert`, errors and deaths are included.
- **`OthersKept`**, `CadSpec => OthersSurvive`, an action property: a write on the
  crontab as it was read keeps every line that is not under the tag, in order.
- **`RecordKept`**, `CadSpec => []RecordMatches`, for repositories whose tag
  does not begin with another's (`Apart`). `RecInv`: a process does what it was invoked for
  (`MechFits`), nobody runs beside one that is alone (`AloneOff`), `Undisturbed`
  follows an undisturbed command from its reading of `[cadence]` to the record,
  and `Steady` says of a repository that no command is at and none was cut short
  at that its record is what is scheduled, and that whoever else is about to write
  the crontab has read what is in it for that repository. The last part is what
  makes it inductive: without it a sync of another repository could bring old
  lines back.

`File_proofs` is about any processes, pull requests and files to begin with.
`FileAssumption` says that a first file parses, has its rows by the keys that
`append_rows` writes and each once, and `last_module` only in `[idle]`; and that no
command is named like a key of a row, which `begin` makes sure of by its list of
commands.

- **`RowsStayOnce`**, `FileSpec => []RowsOnce`. `RowsOnce` says nothing of what
  processes hold and is not inductive. `FileInv` has every text in order (`Good`),
  in the file and in the hands of any process: each row once, `[idle]` opened
  once. It is a fact about texts that every writer keeps (`AppendRowsGood`,
  `PatchGood`, `InsertCadenceGood`), and so it does not matter which of them is
  written last or read half-written.
- **`LoneWrites`**, `FileSpec => LoneWriteLands`, an action property. `Knows` says
  what a process has made of what it read, and `Current` that one that was never
  overlapped with knows every row there is; the rest is what the writers keep of
  the entries of a text. The lemmas under it are about `TableOf`: a line keeps its
  table when lines are inserted behind that table's header (`TableInserted`),
  appended (`TableBehind`) or changed in place (`TableChanged`).

**Only model-checked.** Liveness (`EveryIssueCloses`, `ComesBack`, and the refuted
`UpdateReaches`), which needs fairness and ENABLED and is out of this proof
system's reach. Every invariant and every action property of the passing runs has a
theorem. The theorems have the hypotheses that are named with them, each of
which the run that checks the property satisfies.

## 7. Limits, and what was seen on the way

Properties that hold only under a condition, which is part of their run or of
their statement:

- `ImplementsLedger` is for one process, without lost replies and abandoned pull
  requests, where every merge closes its issue. With two, `RaceTwo` is the counterexample.
- `NoDoubleWork` exempts issues one of whose pull requests has been closed: from
  then on every pass takes the label off (`orchestrator.rs:132-148`).
- `BureaucraticAlone` needs one process, calls whose failure means they did not
  happen, and that nobody closes an agent's issue by hand: its label is only
  read off open issues. It ends for an issue when its pull request opens.
- `LabelMeansWork` needs calls to GitHub that succeed: a failed rollback is
  ignored (`orchestrator.rs:472`).
- `EnsureReady` exempts a process whose Claude ended after it was seen, or whose
  session only showed what Claude had left (going down, or `remnants`).
- `ComesBack` needs that a Claude that is gone leaves no screen: `classify` looks
  for its marks anywhere in the pane (`diagnose.rs:95-107`), so a dead Claude
  that still shows activity is taken for working by every command for ever.
  TLC finds that behaviour when `remnants` is added to the run.
- `OthersSurvive` speaks of a write on the crontab as it was read: with another
  write in between, that one is lost (`cadence.rs:386-397`, no lock).
- `RecordMatches` speaks of repositories whose last sync was undisturbed, and
  where launchd is in use only says that what is recorded is installed. It
  exempts repositories whose tag begins with another's and a dash (`Apart`):
  `merge` knows its own lines by the prefix (`cadence.rs:764-776`). For the same
  reason `OthersSurvive` speaks of the lines that are not under the tag.
- `LoneVerdict`, `LoneSkillToIdle`, `LoneWriteLands` and `LoneWizardKeepsOwn` speak
  of who is not disturbed, call by call, while anybody else may run beside it
  elsewhere. Nothing locks the clone's FETCH_HEAD, a session, `.conductr` or a
  repository: with a fetch in between, local CI tests another branch
  (`local_ci.rs:5-7` promises the pull request's); two commands on one session
  may type into one Claude; two writers of `.conductr` lose one's rows or a
  person's edit.
- `RunReconciles` speaks of a run in which nothing else happened. It says nothing
  of two decisions on one half hour.
- `CreatedWhereAllowed` excepts the events that the run keeps, and says nothing of
  those it created. In the code neither holds its half hour: their numbers go into
  `occupied_ids` (`reconcile.rs:169`, `216`), and a slot is only refused for an event
  of the list that is not among them (`reconcile.rs:281-284`). So two issues may
  share a half hour, which the comment at `reconcile.rs:125` and
  `skills/sync/SKILL.md:63` rule out; `DoubleBooked` shows it.
- An event that has started and not ended is listed, kept, moved or deleted like any
  other: the code tests the end of an event. `docs/calendar.md:59-61` and
  `skills/sync/SKILL.md:43` say that what has started is never read or modified; no
  property claims it.
- `DragsRespected` speaks of the repository that is synced. Where repositories
  share a calendar, a sync takes the decisions of the others for orphans and
  deletes them, dragged or not (`reconcile.rs:233-247`). The run has one
  repository per calendar, the theorem any number.
- `OutletsAreTold` exempts sessions that vanish, which are not announced, and
  clients that read in the middle of a refresh: an event is sent before the
  snapshot is replaced, so a client that follows `docs/dashboard-api.md` and
  reads on an event may read the old section. A client that lagged is not told.
- `HighestFreedShort` holds for indices of one digit: `agent9` sorts after
  `agent10` (`dispatch.rs:90`).
- `RoundTrip` claims that a text is read only where the longest bar is a whole
  number of quarters. The comment on `pattern_to_dsl` ("Render a `Pattern` as the
  text DSL that `parse()` can re-read", `from_plan.rs:240`) has no such condition,
  and of other bars it is wrong: parse refuses the text. Of a text that is read the
  property claims in every case that it is the plan.
- `PlanIsOrdered` says nothing of the order within a bar. The comment on
  `topo_batches` ("Items within a batch maintain their original order from the plan",
  `from_plan.rs:195`) holds for the first bar only: later ones have their items in
  the order in which the last dependency of each is popped. With A, B, C after
  B and D after A, the second bar is D, C.
- `ClaimIsSeen` exempts what was torn or carries a fence; "return all messages in
  the inbox", as the port has it, does not hold for those. Of the rest it
  says that a claim is seen exactly when the read succeeds: a `gh` that fails or
  answers with what does not parse (`mail_github.rs:67-80`) and a file that does
  not open make the inbox an error, for which `dedup.rs:31-34` answers Clear and
  the loop (`orchestrator.rs:87`, `.ok()?`) finds no overlap. The check is
  fail-open, and the property states that too.
- `DryPlanTells` is about diagram. With `max_qa` 0 its dry run says that it would
  create `qa1` where the run says that there is no slot, and with a gap in the
  numbers the two name different sessions. The dry run of change-overview and
  human-ticket (`run_claude_skill_dry`, `main.rs:3208-3237`) does not diagnose: it
  says "would send" of a session that is busy or crashed, where the run sends
  nothing or launches Claude first. The help promises "what would happen"
  (`main.rs:2981`, `3059`). It is not modelled.
- `TreeIsOwn` does not say that trees go away. The result of the removal is thrown
  away (`local_ci.rs:191-198`), and when a command times out only its `sh` is killed
  (`local_ci.rs:160-166`), whose children may go on writing to the tree.
- `LoneWizardKeepsOwn` speaks of a .gitignore that reads as UTF-8. One that does not
  counts as not covering the line (`checks.rs:47`, `64-66`) and is then taken for
  empty and written over with that one line (`fixes.rs:36`, `112`): the lines that a
  person wrote are gone, with nobody else about. The wizard has no check for it.
- `FullRunFixes` leaves out linked worktrees, where `.git` is a file.
- `RollupTells` is about the conclusions that the code lists.

Seen, and not kept as runs.

In the loop: a pull request whose status is Pending or Unknown is merged, since the
classifier puts every open one that does not fail into one bucket, and the merge
asks no more (`orchestrator.rs:215-222`), where the comment over it says "passing CI"; `can_merge` of
`MergeGate` is not what the loop calls. A Bureaucratic issue is dispatched while one of
another preset, dispatched earlier in the same pass, is at work, since what is in
flight is read from the labels listed at the start (`orchestrator.rs:398-408`); a pull request merged in a pass still gets a QA
session in it (the loop uses the list read earlier), and a pull request may get
a second one in a later pass; an issue given to GitHub Actions whose pull
request is closed unmerged waits for ever, since its comment stays; advisory
comments are repeated every pass in which the issue is capped; yells are sent in
a dry run; `--once` never lets the soft chord time out, since the timer dies with
the process; classification is not repeated after each merge, as
`operations/cadence/orchestration-cycle.md:104` has it; a loop that makes no
progress but has issues waiting polls for ever, where line 117 of the same page
announces a stall.

On the host: with tags `foo` and `foo-bar`, a sync of `foo` strips the entries of
`foo-bar` (`cadence.rs:765`); the provision pass takes the session of `foo` for
present when only that of `foo-bar` is (`setup_spawn.rs:340`); begin puts its
entry at the end of `[cadence]` as it finds it, which may be after an array
table (`main.rs:613`); the dashboard's cron section looks for
`# conductr-cron:` at the end of a line, while cadence writes it on a line of
its own; the capacity of its channel is a constant twice; reconnecting clients
are not replayed anything; `reconcile.rs:137` knows one event per issue, so
duplicates of an issue that is open stay; `find_or_spawn_qa_session` sends to a
session that became busy since it was chosen.

In a repository: `conductr setup` never reports level L5, which `README.md:419-420`
describes; the parity that `docs/cli-skill-parity.md:34-44` asks for is universal, while the
scan does not look for commands without a skill and never finds a difference in
meaning, since no description is read from a skill; `tasks sync-to-notion` creates
a page for every task each time it runs, since the adapter's `upsert_task` never
looks for one.

**Not modelled.** The wording of comments, prompts, issues and reports;
argument and JSON handling of the adapters; regular expressions (dependencies,
scopes, manifests, clippy lines), which are taken for what they find; task sync,
one loop of upserts between two external tools without state of its own;
configuration parsing; the crontab adapter behind the dashboard and its other
sections; model adapters, mocks and the stub crate, which keep no state that two
steps could disagree about.
