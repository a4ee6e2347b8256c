---------------------------- MODULE Orchestrate -----------------------------
(***************************************************************************)
(* The orchestration loop of conductr-orchestrate: any number of processes *)
(* (cron fires, terminals) run the pass survey -> clear labels -> local CI *)
(* -> merge -> QA slots -> dispatch against one GitHub repository and one  *)
(* tmux server, while agents, CI and people change both under them.        *)
(*                                                                         *)
(* Every call to GitHub or tmux is a step of its own, because another      *)
(* process may act, the process may die, or the call may fail before the   *)
(* next one.  A pass decides on what it read: the snapshot is process      *)
(* state, and nothing refreshes it before the pass ends.                   *)
(*                                                                         *)
(* Left out: the wording of comments and prompts, the reports printed at   *)
(* the end of a pass beyond what ends the loop, max_cycles (the command    *)
(* line never sets it), and the tempo write-back, which touches none of    *)
(* this state.                                                             *)
(***************************************************************************)
EXTENDS Integers, FiniteSets, Policy

CONSTANTS
  Issues,        \* issue numbers
  PRs,           \* pull request numbers, larger is newer
  Orchs,         \* orchestrator processes
  PrIssue,       \* the issue a pull request links to, or NoIssue
  Deps,          \* the issues an issue's body depends on
  HumanIssues,   \* issues labelled `human'
  TmuxIssues,    \* issues labelled `runner:tmux'
  SafetyLabel,   \* the safety:<preset> label of an issue, or NoPreset
  CfgPreset,     \* config.safety_preset, or NoPreset
  ForkPRs,       \* pull requests from forks
  ClosingPRs,    \* pull requests whose merge makes GitHub close their issue
  MaxBeats,      \* config.max_parallel_beats
  MaxQa,         \* config.max_parallel_qa
  CiMode,        \* config.ci_mode
  HasLocalCi, HasTmux, HasMailbox,   \* which adapters are attached
  AllowFork,     \* config.allow_fork_local_ci
  AssignHumans,  \* config.default_human_assignee is set
  DryRun,        \* config.dry_run
  Once,          \* one pass per process (--once) or run_to_completion
  Hazards,       \* what may go wrong or happen unasked, see AllHazards
  NoIssue, NoSession, Fresh, Parked

\* What the environment may do beyond letting every call succeed and every
\* agent finish: GitHub, tmux or local CI calls that fail, calls that take effect but
\* report an error, processes that die, agents that give up, and people who
\* close or open pull requests or issues themselves.
AllHazards == {"apiError", "replyLost", "tmuxError", "crash", "giveUp",
               "localCiError", "ciFails", "abandon", "humanPr", "humanClose",
               "scopeClaim"}

ASSUME ConstantsAssumption ==
  /\ Issues \subseteq Nat /\ PRs \subseteq Nat
  /\ PrIssue \in [PRs -> Issues \cup {NoIssue}]
  /\ Deps \in [Issues -> SUBSET Issues]
  /\ HumanIssues \subseteq Issues /\ TmuxIssues \subseteq Issues
  /\ SafetyLabel \in [Issues -> Presets \cup {NoPreset}]
  /\ CfgPreset \in Presets \cup {NoPreset}
  /\ ForkPRs \subseteq PRs /\ ClosingPRs \subseteq PRs
  /\ MaxBeats \in Nat /\ MaxQa \in Nat
  /\ CiMode \in CiModes
  /\ {HasLocalCi, HasTmux, HasMailbox, AllowFork, AssignHumans, DryRun, Once}
       \subseteq BOOLEAN
  /\ Hazards \subseteq AllHazards
  /\ NoIssue \notin Issues
  /\ {NoSession, Fresh, Parked} \cap (Issues \cup PRs) = {}
  /\ NoSession # Fresh /\ NoSession # Parked /\ Fresh # Parked

VARIABLES
  (* GitHub *)
  issueOpen,   \* issues that are open
  inFlight,    \* issues carrying conductr:in-flight
  commented,   \* issues carrying an @claude trigger comment
  noticed,     \* issues carrying an advisory comment
  assigned,    \* issues assigned to the configured human
  pr,          \* state of each pull request
  ci,          \* GitHub check status of each pull request
  (* the mailbox *)
  claims,      \* issues with a ScopeClaim message
  yells,       \* <<issue, sibling pull request>> of the Yell messages
  (* tmux and the agents *)
  agent,       \* agent[n]: what session agent<n> is doing
  qa,          \* qa[n]: what session qa<n> is doing
  web,         \* GitHub Actions runs working on an issue, at most MaxRuns
  (* each orchestrator process *)
  pc,          \* where the process is in its pass
  snap,        \* what the pass read
  todo,        \* what the current loop of the pass has left
  agents, qas, \* agent_indices_in_use, qa_indices_in_use
  beats,       \* dispatched_this_pass
  bureau,      \* bureaucratic_dispatched_this_pass
  cur,         \* the issue or pull request being acted on
  slot,        \* the tmux slot chosen for it (0 = none)
  held,        \* soft_chord_blocked_since: "no", "waiting" or "expired"
  left         \* the report holds something that keeps the loop going

github == <<issueOpen, inFlight, commented, noticed, assigned, pr, ci>>
mail == <<claims, yells>>
tmux == <<agent, qa>>
pass == <<snap, todo, agents, qas, beats, bureau, cur, slot>>
proc == <<pc, pass, held, left>>
vars == <<github, mail, tmux, web, proc>>

\* Bound: two runs on one issue stand for any larger number of them.
MaxRuns == 2

AgentSlots == 1..MaxBeats
QaSlots == 1..MaxQa

PassSteps == {"closedPrs", "openIssues", "closedIssues", "openPrs", "clear",
              "localCi", "comments", "sessions", "merge", "qa", "qaPrompt",
              "dispatch", "claim", "trigger", "session", "prompt", "rollback"}

Snapshot == [closedPrs: SUBSET PRs, open: SUBSET Issues, label: SUBSET Issues,
             closed: SUBSET Issues, prs: SUBSET PRs, ci: [PRs -> CiStatuses],
             triggered: SUBSET Issues]

NoSnapshot == [closedPrs |-> {}, open |-> {}, label |-> {}, closed |-> {},
               prs |-> {}, ci |-> [p \in PRs |-> "Unknown"], triggered |-> {}]

GithubOK ==
  /\ issueOpen \subseteq Issues
  /\ inFlight \subseteq Issues /\ commented \subseteq Issues
  /\ noticed \subseteq Issues /\ assigned \subseteq Issues
  /\ pr \in [PRs -> {"none", "open", "closed", "merged"}]
  /\ ci \in [PRs -> CiStatuses]

WorkersOK ==
  /\ claims \subseteq Issues /\ yells \subseteq Issues \X PRs
  /\ agent \in [AgentSlots -> Issues \cup {NoSession, Fresh, Parked}]
  /\ qa \in [QaSlots -> PRs \cup {NoSession, Fresh, Parked}]
  /\ web \in [Issues -> 0..MaxRuns]

ProcessOK ==
  /\ pc \in [Orchs -> PassSteps \cup {"down"}]
  /\ todo \in [Orchs -> SUBSET (Issues \cup PRs)]
  /\ agents \in [Orchs -> SUBSET AgentSlots]
  /\ qas \in [Orchs -> SUBSET QaSlots]
  /\ beats \in [Orchs -> Nat]
  /\ bureau \in [Orchs -> BOOLEAN]
  /\ cur \in [Orchs -> Issues \cup PRs \cup {NoIssue}]
  /\ slot \in [Orchs -> {0} \cup AgentSlots \cup QaSlots]
  /\ held \in [Orchs -> [Issues -> {"no", "waiting", "expired"}]]
  /\ left \in [Orchs -> BOOLEAN]

\* The types of the variables, from the structs of types.rs and the adapters.
TypeOK == GithubOK /\ WorkersOK /\ ProcessOK /\ snap \in [Orchs -> Snapshot]

Init ==
  /\ issueOpen = Issues
  /\ inFlight = {} /\ commented = {} /\ noticed = {} /\ assigned = {}
  /\ pr = [p \in PRs |-> "none"] /\ ci = [p \in PRs |-> "Unknown"]
  /\ claims = {} /\ yells = {}
  /\ agent = [n \in AgentSlots |-> NoSession]
  /\ qa = [n \in QaSlots |-> NoSession]
  /\ web = [i \in Issues |-> 0]
  /\ pc = [o \in Orchs |-> "down"]
  /\ snap = [o \in Orchs |-> NoSnapshot]
  /\ todo = [o \in Orchs |-> {}]
  /\ agents = [o \in Orchs |-> {}] /\ qas = [o \in Orchs |-> {}]
  /\ beats = [o \in Orchs |-> 0] /\ bureau = [o \in Orchs |-> FALSE]
  /\ cur = [o \in Orchs |-> NoIssue] /\ slot = [o \in Orchs |-> 0]
  /\ held = [o \in Orchs |-> [i \in Issues |-> "no"]]
  /\ left = [o \in Orchs |-> FALSE]

May(hazard) == hazard \in Hazards

\* The outcomes of a call to GitHub: it is done, it fails, or it is done but
\* the caller is told that it failed.
Outcomes == {"done"} \cup {r \in {"failed"} : May("apiError")}
                     \cup {r \in {"lost"} : May("replyLost")}
TookEffect(r) == r # "failed"
ReportedOk(r) == r = "done"

\* Control moves on.
Goto(o, step) == pc' = [pc EXCEPT ![o] = step]

-----------------------------------------------------------------------------
(* Reading a snapshot s.                                                   *)

\* The open pull requests of issue i, and the one `find' meets first.
LinkedPrs(s, i) == {p \in s.prs : PrIssue[p] = i}
LinkedPr(s, i) == CHOOSE p \in LinkedPrs(s, i) :
                    \A q \in LinkedPrs(s, i) : q <= p

\* Mutant: a dependency that is in flight counts as done.
BucketPipelined(s, i) ==
  CASE i \in HumanIssues -> "Human"
    [] i \notin HumanIssues /\ LinkedPrs(s, i) # {} ->
         IF s.ci[LinkedPr(s, i)] = "Failing" THEN "PrFailing" ELSE "PrOpen"
    [] OTHER -> IF ~(Deps[i] \subseteq s.closed \cup s.label)
                THEN "Blocked"
                ELSE IF i \in s.triggered THEN "TriggeredWaiting" ELSE "Ready"

\* The bucket of open issue i.
Bucket(s, i) ==
  CASE i \in HumanIssues -> "Human"
    [] i \notin HumanIssues /\ LinkedPrs(s, i) # {} ->
         IF s.ci[LinkedPr(s, i)] = "Failing" THEN "PrFailing" ELSE "PrOpen"
    [] OTHER -> IF ~(Deps[i] \subseteq s.closed) THEN "Blocked"
                ELSE IF i \in s.triggered THEN "TriggeredWaiting" ELSE "Ready"

Siblings(s, i) == {p \in s.prs : PrIssue[p] # i}

PresetOf(i) == ResolvePreset("L0", CfgPreset, SafetyLabel[i])

\* `tmux' issues go to a local session, the others to GitHub Actions.
Runner(i) == IF i \in TmuxIssues /\ HasTmux THEN "Tmux" ELSE "Web"

FreeSlots(used, cap) == (1..cap) \ used
FirstFree(used, cap) == {n \in FreeSlots(used, cap) :
                           \A m \in FreeSlots(used, cap) : n <= m}

-----------------------------------------------------------------------------
(* A process starts, dies or ends a pass.                                  *)

ForgetPass(o) ==
  /\ snap' = [snap EXCEPT ![o] = NoSnapshot]
  /\ todo' = [todo EXCEPT ![o] = {}]
  /\ agents' = [agents EXCEPT ![o] = {}] /\ qas' = [qas EXCEPT ![o] = {}]
  /\ beats' = [beats EXCEPT ![o] = 0] /\ bureau' = [bureau EXCEPT ![o] = FALSE]
  /\ cur' = [cur EXCEPT ![o] = NoIssue] /\ slot' = [slot EXCEPT ![o] = 0]
  /\ left' = [left EXCEPT ![o] = FALSE]

\* The process is gone, and soft_chord_blocked_since with it.
Exit(o) ==
  /\ ForgetPass(o)
  /\ Goto(o, "down")
  /\ held' = [held EXCEPT ![o] = [i \in Issues |-> "no"]]

\* Cron or an operator starts `conductr orchestrate'.
Start(o) ==
  /\ pc[o] = "down"
  /\ Goto(o, "closedPrs")
  /\ UNCHANGED <<github, mail, tmux, web, pass, held, left>>

\* A session whose prompt was on its way stays, and nobody will prompt it.
Crash(o) ==
  /\ May("crash") /\ pc[o] # "down"
  /\ Exit(o)
  /\ agent' = [n \in AgentSlots |->
       IF pc[o] = "prompt" /\ slot[o] = n THEN Parked ELSE agent[n]]
  /\ qa' = [n \in QaSlots |->
       IF pc[o] = "qaPrompt" /\ slot[o] = n THEN Parked ELSE qa[n]]
  /\ UNCHANGED <<github, mail, web>>

\* --once exits after one pass; run_to_completion exits when the report shows
\* nothing triggered, merged, waiting or failing, and else polls again.
EndPass(o) ==
  /\ pc[o] = "dispatch" /\ todo[o] = {}
  /\ \/ /\ Once \/ ~left[o]
        /\ Exit(o)
     \/ /\ ~Once /\ left[o]
        /\ ForgetPass(o)
        /\ Goto(o, "closedPrs")
        /\ UNCHANGED held
  /\ UNCHANGED <<github, mail, tmux, web>>

\* soft_chord_timeout elapses while the process sleeps between two passes.
SoftChordExpires(o) ==
  /\ pc[o] = "closedPrs"
  /\ \E i \in Issues :
       /\ held[o][i] = "waiting"
       /\ held' = [held EXCEPT ![o][i] = "expired"]
  /\ UNCHANGED <<github, mail, tmux, web, pc, pass, left>>

-----------------------------------------------------------------------------
(* Survey.                                                                 *)

\* A failed listing of closed pull requests reads as an empty one.
ReadClosedPrs(o) ==
  /\ pc[o] = "closedPrs"
  /\ \E read \in {{p \in PRs : pr[p] \in {"closed", "merged"}}}
                 \cup {none \in {{}} : May("apiError")} :
       snap' = [snap EXCEPT ![o].closedPrs = read]
  /\ Goto(o, "openIssues")
  /\ UNCHANGED <<github, mail, tmux, web, todo, agents, qas, beats, bureau,
                 cur, slot, held, left>>

ReadOpenIssues(o) ==
  /\ pc[o] = "openIssues"
  /\ snap' = [snap EXCEPT ![o].open = issueOpen,
                          ![o].label = inFlight \cap issueOpen]
  /\ Goto(o, "closedIssues")
  /\ UNCHANGED <<github, mail, tmux, web, todo, agents, qas, beats, bureau,
                 cur, slot, held, left>>

ReadClosedIssues(o) ==
  /\ pc[o] = "closedIssues"
  /\ snap' = [snap EXCEPT ![o].closed = Issues \ issueOpen]
  /\ Goto(o, "openPrs")
  /\ UNCHANGED <<github, mail, tmux, web, todo, agents, qas, beats, bureau,
                 cur, slot, held, left>>

\* With the open pull requests read, the labels to clear are known: those of
\* issues seen labelled and linked by an open or a closed pull request.
ReadOpenPrs(o) ==
  /\ pc[o] = "openPrs"
  /\ LET open == {p \in PRs : pr[p] = "open"}
     IN  /\ snap' = [snap EXCEPT ![o].prs = open,
                       ![o].ci = [p \in PRs |->
                          IF p \in open THEN ci[p] ELSE "Unknown"]]
         /\ todo' = [todo EXCEPT ![o] =
              {p \in open \cup snap[o].closedPrs :
                 ~DryRun /\ PrIssue[p] \in snap[o].label}]
  /\ Goto(o, "clear")
  /\ UNCHANGED <<github, mail, tmux, web, agents, qas, beats, bureau, cur,
                 slot, held, left>>

\* Any of the other three listings failing ends the pass and the process.
SurveyFails(o) ==
  /\ May("apiError")
  /\ pc[o] \in {"openIssues", "closedIssues", "openPrs"}
  /\ Exit(o)
  /\ UNCHANGED <<github, mail, tmux, web>>

\* The label of one such issue is removed; a failure is only logged.
ClearLabel(o) ==
  /\ pc[o] = "clear"
  /\ \E p \in todo[o], r \in Outcomes :
       /\ inFlight' = IF TookEffect(r) THEN inFlight \ {PrIssue[p]} ELSE inFlight
       /\ todo' = [todo EXCEPT ![o] = @ \ {p}]
  /\ UNCHANGED <<issueOpen, commented, noticed, assigned, pr, ci, mail, tmux,
                 web, pc, snap, agents, qas, beats, bureau, cur, slot, held,
                 left>>

ClearDone(o) ==
  /\ pc[o] = "clear" /\ todo[o] = {}
  /\ Goto(o, "localCi")
  /\ UNCHANGED <<github, mail, tmux, web, pass, held, left>>

\* What a pull request's status may be once local CI has run on it: a run
\* that errors, and a fork's pull request, keep GitHub's.
CiAfterLocal(s, p) ==
  IF HasLocalCi /\ p \in s.prs /\ (p \notin ForkPRs \/ AllowFork)
  THEN {ResolveCi(CiMode, local, s.ci[p]) :
          local \in {"Passing", "Failing", "Unknown"}}
       \cup {kept \in {s.ci[p]} : May("localCiError")}
  ELSE {s.ci[p]}

RunLocalCi(o) ==
  /\ pc[o] = "localCi"
  /\ \E status \in [PRs -> CiStatuses] :
       /\ \A p \in PRs : status[p] \in CiAfterLocal(snap[o], p)
       /\ snap' = [snap EXCEPT ![o].ci = status]
  /\ Goto(o, "comments")
  /\ UNCHANGED <<github, mail, tmux, web, todo, agents, qas, beats, bureau,
                 cur, slot, held, left>>

\* An issue whose comments cannot be listed reads as one without comments.
ReadComments(o) ==
  /\ pc[o] = "comments"
  /\ \E unread \in SUBSET snap[o].open :
       /\ unread = {} \/ May("apiError")
       /\ snap' = [snap EXCEPT ![o].triggered =
                     (commented \cap snap[o].open) \ unread]
  /\ Goto(o, "sessions")
  /\ UNCHANGED <<github, mail, tmux, web, todo, agents, qas, beats, bureau,
                 cur, slot, held, left>>

\* The slots in use are read, and the pull requests to merge are those of the
\* issues now in bucket PrOpen.  A failed listing reads as no session.
ReadSessions(o) ==
  /\ pc[o] = "sessions"
  /\ \E seen \in {HasTmux} \cup {e \in {FALSE} : May("tmuxError")} :
       /\ agents' = [agents EXCEPT ![o] =
                       {n \in AgentSlots : seen /\ agent[n] # NoSession}]
       /\ qas' = [qas EXCEPT ![o] =
                       {n \in QaSlots : seen /\ qa[n] # NoSession}]
  /\ todo' = [todo EXCEPT ![o] =
                {i \in snap[o].open : Bucket(snap[o], i) = "PrOpen"}]
  /\ left' = [left EXCEPT ![o] =
                \E i \in snap[o].open : Bucket(snap[o], i) = "PrFailing"]
  /\ Goto(o, "merge")
  /\ UNCHANGED <<github, mail, tmux, web, snap, beats, bureau, cur, slot, held>>

-----------------------------------------------------------------------------
(* Merge.                                                                  *)

\* GitHub squash-merges the pull request, closing the issue when it links it
\* with a closing keyword.
MergePr(o) ==
  /\ pc[o] = "merge" /\ ~DryRun
  /\ \E i \in todo[o], r \in Outcomes \ {"failed"} :
       LET p == LinkedPr(snap[o], i)
       IN  /\ pr[p] = "open"
           /\ pr' = [pr EXCEPT ![p] = "merged"]
           /\ issueOpen' = IF p \in ClosingPRs THEN issueOpen \ {i} ELSE issueOpen
           /\ left' = [left EXCEPT ![o] = @ \/ ReportedOk(r)]
           /\ todo' = [todo EXCEPT ![o] = @ \ {i}]
  /\ UNCHANGED <<inFlight, commented, noticed, assigned, ci, mail, tmux, web,
                 pc, snap, agents, qas, beats, bureau, cur, slot, held>>

\* Nothing is merged: a dry run, or GitHub refuses (the pull request is no
\* longer open, or the call fails); the pass goes on.
MergeSkipped(o) ==
  /\ pc[o] = "merge"
  /\ \E i \in todo[o] :
       /\ DryRun \/ pr[LinkedPr(snap[o], i)] # "open" \/ May("apiError")
       /\ todo' = [todo EXCEPT ![o] = @ \ {i}]
  /\ UNCHANGED <<github, mail, tmux, web, pc, snap, agents, qas, beats, bureau,
                 cur, slot, held, left>>

\* QA is wanted for the pull requests seen open whose issue was seen open and
\* runs on tmux, those merged a moment ago included.
MergeDone(o) ==
  /\ pc[o] = "merge" /\ todo[o] = {}
  /\ todo' = [todo EXCEPT ![o] =
       {p \in snap[o].prs : HasTmux /\ PrIssue[p] \in snap[o].open \cap TmuxIssues}]
  /\ Goto(o, "qa")
  /\ UNCHANGED <<github, mail, tmux, web, snap, agents, qas, beats, bureau,
                 cur, slot, held, left>>

-----------------------------------------------------------------------------
(* QA slots.                                                               *)

\* The first free qa<n> session is created for a pull request.
OpenQaSession(o) ==
  /\ pc[o] = "qa" /\ ~DryRun
  /\ \E p \in todo[o], n \in FirstFree(qas[o], MaxQa) :
       /\ qa[n] = NoSession
       /\ qa' = [qa EXCEPT ![n] = Fresh]
       /\ cur' = [cur EXCEPT ![o] = p] /\ slot' = [slot EXCEPT ![o] = n]
       /\ todo' = [todo EXCEPT ![o] = @ \ {p}]
  /\ Goto(o, "qaPrompt")
  /\ UNCHANGED <<github, mail, agent, web, snap, agents, qas, beats, bureau,
                 held, left>>

\* The session is not created: a dry run, tmux already has one of that name,
\* or tmux fails; the slot still counts as free.
QaSkipped(o) ==
  /\ pc[o] = "qa"
  /\ \E p \in todo[o], n \in FirstFree(qas[o], MaxQa) :
       /\ DryRun \/ qa[n] # NoSession \/ May("tmuxError")
       /\ todo' = [todo EXCEPT ![o] = @ \ {p}]
  /\ UNCHANGED <<github, mail, tmux, web, pc, snap, agents, qas, beats, bureau,
                 cur, slot, held, left>>

\* Mutant: the pull request's number is recorded instead of the slot's.
PromptQaByNumber(o) ==
  /\ pc[o] = "qaPrompt"
  /\ \E sent \in {TRUE} \cup {e \in {FALSE} : May("tmuxError")} :
       /\ qa' = [qa EXCEPT ![slot[o]] = IF sent THEN cur[o] ELSE Parked]
       /\ qas' = [qas EXCEPT ![o] = IF sent THEN @ \cup {cur[o]} ELSE @]
  /\ cur' = [cur EXCEPT ![o] = NoIssue] /\ slot' = [slot EXCEPT ![o] = 0]
  /\ Goto(o, "qa")
  /\ UNCHANGED <<github, mail, agent, web, snap, todo, agents, beats, bureau,
                 held, left>>

\* The prompt is sent; when that fails the session stays, unprompted, and the
\* slot still counts as free for the rest of the pass.
PromptQa(o) ==
  /\ pc[o] = "qaPrompt"
  /\ \E sent \in {TRUE} \cup {e \in {FALSE} : May("tmuxError")} :
       /\ qa' = [qa EXCEPT ![slot[o]] = IF sent THEN cur[o] ELSE Parked]
       /\ qas' = [qas EXCEPT ![o] = IF sent THEN @ \cup {slot[o]} ELSE @]
  /\ cur' = [cur EXCEPT ![o] = NoIssue] /\ slot' = [slot EXCEPT ![o] = 0]
  /\ Goto(o, "qa")
  /\ UNCHANGED <<github, mail, agent, web, snap, todo, agents, beats, bureau,
                 held, left>>

\* All pull requests looked at, or max_parallel_qa reached: dispatch begins.
QaDone(o) ==
  /\ pc[o] = "qa"
  /\ todo[o] = {} \/ FreeSlots(qas[o], MaxQa) = {}
  /\ todo' = [todo EXCEPT ![o] = snap[o].open]
  /\ Goto(o, "dispatch")
  /\ UNCHANGED <<github, mail, tmux, web, snap, agents, qas, beats, bureau,
                 cur, slot, held, left>>

-----------------------------------------------------------------------------
(* Dispatch.                                                               *)

\* Mutant: human issues are assigned in a dry run too.
PassOverLoud(o) ==
  /\ pc[o] = "dispatch"
  /\ \E i \in todo[o], r \in Outcomes :
       LET b == Bucket(snap[o], i)
       IN  /\ \/ b # "Ready"
              \/ i \in snap[o].label
              \/ HasMailbox /\ i \in claims
           /\ assigned' = IF b = "Human" /\ AssignHumans /\ TookEffect(r)
                          THEN assigned \cup {i} ELSE assigned
           /\ left' = [left EXCEPT ![o] = @ \/ b = "TriggeredWaiting"]
           /\ todo' = [todo EXCEPT ![o] = @ \ {i}]
  /\ UNCHANGED <<issueOpen, inFlight, commented, noticed, pr, ci, mail, tmux,
                 web, pc, snap, agents, qas, beats, bureau, cur, slot, held>>

\* An issue is passed over: its bucket is not Ready (a human issue may get
\* assigned), it was seen carrying the label, or a mailbox message claims it.
PassOver(o) ==
  /\ pc[o] = "dispatch"
  /\ \E i \in todo[o], r \in Outcomes :
       LET b == Bucket(snap[o], i)
       IN  /\ \/ b # "Ready"
              \/ i \in snap[o].label
              \/ HasMailbox /\ i \in claims
           /\ assigned' = IF /\ b = "Human" /\ AssignHumans /\ ~DryRun
                             /\ TookEffect(r)
                          THEN assigned \cup {i} ELSE assigned
           /\ left' = [left EXCEPT ![o] = @ \/ b = "TriggeredWaiting"]
           /\ todo' = [todo EXCEPT ![o] = @ \ {i}]
  /\ UNCHANGED <<issueOpen, inFlight, commented, noticed, pr, ci, mail, tmux,
                 web, pc, snap, agents, qas, beats, bureau, cur, slot, held>>

\* Otherwise its isolation is decided.  An inbox that cannot be read counts as
\* holding no claim.
Verdict(o, i) ==
  Decide(PresetOf(i), {snap[o].ci[p] : p \in Siblings(snap[o], i)},
         held[o][i] = "expired")

\* Mutant: whatever has no label is dispatched, in whichever bucket it is.
ConsideredUnready(o, i) ==
  /\ pc[o] = "dispatch" /\ i \in todo[o] /\ i \notin snap[o].label
  /\ HasMailbox /\ i \in claims => May("apiError")

Considered(o, i) ==
  /\ pc[o] = "dispatch" /\ i \in todo[o]
  /\ Bucket(snap[o], i) = "Ready" /\ i \notin snap[o].label
  /\ HasMailbox /\ i \in claims => May("apiError")

\* The soft chord holds it back, and remembers since when.
HoldBack(o) ==
  /\ \E i \in Issues :
       /\ Considered(o, i) /\ Verdict(o, i) = "Defer"
       /\ held' = [held EXCEPT ![o][i] = IF @ = "no" THEN "waiting" ELSE @]
       /\ todo' = [todo EXCEPT ![o] = @ \ {i}]
  /\ UNCHANGED <<github, mail, tmux, web, pc, snap, agents, qas, beats, bureau,
                 cur, slot, left>>

\* It is cleared for dispatch: siblings are yelled about (dry run or not) or
\* named in an advisory comment, whether or not room is left for it.
Cleared(o, i) ==
  /\ Considered(o, i) /\ Verdict(o, i) # "Defer"
  /\ held' = [held EXCEPT ![o][i] = "no"]
  /\ \E heard \in SUBSET Siblings(snap[o], i) :
       /\ heard = Siblings(snap[o], i) \/ May("apiError")
       /\ yells' = IF HasMailbox /\ Verdict(o, i) = "DispatchWithYell"
                   THEN yells \cup ({i} \X heard) ELSE yells
  /\ \E r \in Outcomes :
       noticed' = IF /\ Verdict(o, i) = "DispatchWithAdvisory" /\ ~DryRun
                     /\ TookEffect(r)
                  THEN noticed \cup {i} ELSE noticed
  /\ todo' = [todo EXCEPT ![o] = @ \ {i}]
  /\ UNCHANGED <<issueOpen, inFlight, commented, assigned, pr, ci, claims, tmux,
                 web, snap, agents, qas, beats, bureau, left>>

\* Mutant: only the labels read at the start of the pass count.
ChordSeenHeld(o, i) == PresetOf(i) = "Bureaucratic" /\ snap[o].label # {}

\* The hard chord: some issue was seen labelled, or a Bureaucratic issue has
\* been dispatched in this pass.
ChordHeld(o, i) ==
  /\ PresetOf(i) = "Bureaucratic"
  /\ snap[o].label # {} \/ bureau[o]

\* Mutant: off by one, the last slot is never given.
CapReachedEarly(o, i) ==
  \/ Runner(i) = "Web" /\ beats[o] + 1 >= MaxBeats
  \/ Runner(i) = "Tmux" /\ FreeSlots(agents[o], MaxBeats - 1) = {}

\* The cap of its runner: comments count against the dispatches of the pass,
\* sessions against the slots seen in use.
CapReached(o, i) ==
  \/ Runner(i) = "Web" /\ beats[o] >= MaxBeats
  \/ Runner(i) = "Tmux" /\ FreeSlots(agents[o], MaxBeats) = {}

Defer(o) ==
  /\ \E i \in Issues :
       Cleared(o, i) /\ (ChordHeld(o, i) \/ CapReached(o, i) \/ DryRun)
  /\ UNCHANGED <<pc, cur, slot>>

Choose(o) ==
  /\ ~DryRun
  /\ \E i \in Issues :
       /\ Cleared(o, i) /\ ~ChordHeld(o, i) /\ ~CapReached(o, i)
       /\ cur' = [cur EXCEPT ![o] = i]
       /\ \E n \in IF Runner(i) = "Tmux" THEN FirstFree(agents[o], MaxBeats)
                    ELSE {0} :
            slot' = [slot EXCEPT ![o] = n]
  /\ Goto(o, "claim")

\* Mutant: an issue that goes to a session is not labelled.
ClaimIssueUnlabelled(o) ==
  /\ pc[o] = "claim"
  /\ inFlight' = IF slot[o] = 0 THEN inFlight \cup {cur[o]} ELSE inFlight
  /\ Goto(o, IF slot[o] = 0 THEN "trigger" ELSE "session")
  /\ UNCHANGED <<issueOpen, commented, noticed, assigned, pr, ci, mail, tmux,
                 web, snap, todo, agents, qas, beats, bureau, cur, slot, held,
                 left>>

\* The label is added before anything else; when that is reported to fail the
\* issue is left alone, without a rollback.
ClaimIssue(o) ==
  /\ pc[o] = "claim"
  /\ \E r \in Outcomes :
       /\ inFlight' = IF TookEffect(r) THEN inFlight \cup {cur[o]} ELSE inFlight
       /\ IF ReportedOk(r)
          THEN /\ Goto(o, IF slot[o] = 0 THEN "trigger" ELSE "session")
               /\ UNCHANGED <<cur, slot>>
          ELSE /\ Goto(o, "dispatch")
               /\ cur' = [cur EXCEPT ![o] = NoIssue]
               /\ slot' = [slot EXCEPT ![o] = 0]
  /\ UNCHANGED <<issueOpen, commented, noticed, assigned, pr, ci, mail, tmux,
                 web, snap, todo, agents, qas, beats, bureau, held, left>>

\* What the pass records of a dispatch that was reported to succeed.
Dispatched(o) ==
  /\ beats' = [beats EXCEPT ![o] = @ + 1]
  /\ bureau' = [bureau EXCEPT ![o] = @ \/ PresetOf(cur[o]) = "Bureaucratic"]
  /\ left' = [left EXCEPT ![o] = TRUE]
  /\ cur' = [cur EXCEPT ![o] = NoIssue] /\ slot' = [slot EXCEPT ![o] = 0]
  /\ Goto(o, "dispatch")

RollBackNext(o) ==
  /\ Goto(o, "rollback")
  /\ UNCHANGED <<beats, bureau, left, cur, slot>>

\* The comment that starts a GitHub Actions run on the issue.
PostTrigger(o) ==
  /\ pc[o] = "trigger"
  /\ \E r \in Outcomes :
       /\ IF TookEffect(r)
          THEN /\ commented' = commented \cup {cur[o]}
               /\ web' = [web EXCEPT ![cur[o]] = IF @ < MaxRuns THEN @ + 1 ELSE @]
          ELSE UNCHANGED <<commented, web>>
       /\ IF ReportedOk(r) THEN Dispatched(o) ELSE RollBackNext(o)
  /\ UNCHANGED <<issueOpen, inFlight, noticed, assigned, pr, ci, mail, tmux,
                 snap, todo, agents, qas, held>>

\* Mutant: a session of that name is taken over.
OpenSessionTakeover(o) ==
  /\ pc[o] = "session"
  /\ agent' = [agent EXCEPT ![slot[o]] = Fresh]
  /\ Goto(o, "prompt")
  /\ UNCHANGED <<github, mail, qa, web, pass, held, left>>

\* Mutant: a session that cannot be created leaves the label behind.
OpenSessionNoRollback(o) ==
  /\ pc[o] = "session"
  /\ \/ /\ agent[slot[o]] = NoSession
        /\ agent' = [agent EXCEPT ![slot[o]] = Fresh]
        /\ Goto(o, "prompt")
        /\ UNCHANGED <<cur, slot>>
     \/ /\ agent[slot[o]] # NoSession \/ May("tmuxError")
        /\ Goto(o, "dispatch")
        /\ cur' = [cur EXCEPT ![o] = NoIssue]
        /\ slot' = [slot EXCEPT ![o] = 0]
        /\ UNCHANGED agent
  /\ UNCHANGED <<github, mail, qa, web, snap, todo, agents, qas, beats, bureau,
                 held, left>>

\* The agent<n> session; tmux refuses a name that exists.
OpenSession(o) ==
  /\ pc[o] = "session"
  /\ \/ /\ agent[slot[o]] = NoSession
        /\ agent' = [agent EXCEPT ![slot[o]] = Fresh]
        /\ Goto(o, "prompt")
     \/ /\ agent[slot[o]] # NoSession \/ May("tmuxError")
        /\ Goto(o, "rollback")
        /\ UNCHANGED agent
  /\ UNCHANGED <<github, mail, qa, web, pass, held, left>>

\* The prompt that puts the session to work; when it cannot be sent the
\* session stays, unprompted.
SendPrompt(o) ==
  /\ pc[o] = "prompt"
  /\ \/ /\ agent' = [agent EXCEPT ![slot[o]] = cur[o]]
        /\ agents' = [agents EXCEPT ![o] = @ \cup {slot[o]}]
        /\ Dispatched(o)
     \/ /\ May("tmuxError")
        /\ agent' = [agent EXCEPT ![slot[o]] = Parked]
        /\ RollBackNext(o)
        /\ UNCHANGED agents
  /\ UNCHANGED <<github, mail, qa, web, snap, todo, qas, held>>

\* The label is taken back after a failure; a failure of that is ignored.
RollBack(o) ==
  /\ pc[o] = "rollback"
  /\ \E r \in Outcomes :
       inFlight' = IF TookEffect(r) THEN inFlight \ {cur[o]} ELSE inFlight
  /\ cur' = [cur EXCEPT ![o] = NoIssue] /\ slot' = [slot EXCEPT ![o] = 0]
  /\ Goto(o, "dispatch")
  /\ UNCHANGED <<issueOpen, commented, noticed, assigned, pr, ci, mail, tmux,
                 web, snap, todo, agents, qas, beats, bureau, held, left>>

-----------------------------------------------------------------------------
(* Agents, CI and people.                                                  *)

\* A worker on issue i is done with it: a GitHub Actions run ends, or the
\* agent in a session returns to its prompt.
WorkerLeaves(i) ==
  \/ /\ web[i] > 0
     /\ web' = [web EXCEPT ![i] = @ - 1]
     /\ UNCHANGED agent
  \/ \E n \in AgentSlots :
       /\ agent[n] = i
       /\ agent' = [agent EXCEPT ![n] = Parked]
       /\ UNCHANGED web

\* The worker opens a pull request and is done.
AgentOpensPr(p) ==
  /\ pr[p] = "none" /\ PrIssue[p] # NoIssue
  /\ WorkerLeaves(PrIssue[p])
  /\ pr' = [pr EXCEPT ![p] = "open"]
  /\ ci' = [ci EXCEPT ![p] = "Pending"]
  /\ UNCHANGED <<issueOpen, inFlight, commented, noticed, assigned, mail, qa,
                 proc>>

\* A pull request of issue i has been opened.
PrSeen(i) == \E p \in PRs : PrIssue[p] = i /\ pr[p] # "none"

\* The worker ends without a pull request of its own: it gives up, or there is
\* one already.
AgentGivesUp(i) ==
  /\ May("giveUp") \/ PrSeen(i)
  /\ WorkerLeaves(i)
  /\ UNCHANGED <<github, mail, qa, proc>>

HumanOpensPr(p) ==
  /\ May("humanPr") /\ pr[p] = "none"
  /\ pr' = [pr EXCEPT ![p] = "open"]
  /\ ci' = [ci EXCEPT ![p] = "Pending"]
  /\ UNCHANGED <<issueOpen, inFlight, commented, noticed, assigned, mail, tmux,
                 web, proc>>

ClosePr(p) ==
  /\ May("abandon") /\ pr[p] = "open"
  /\ pr' = [pr EXCEPT ![p] = "closed"]
  /\ UNCHANGED <<issueOpen, inFlight, commented, noticed, assigned, ci, mail,
                 tmux, web, proc>>

\* GitHub's checks report on an open pull request.
CiReports(p) ==
  /\ pr[p] = "open"
  /\ \E s \in {"Passing"} \cup {f \in {"Failing", "Pending"} : May("ciFails")} :
       ci[p] # s /\ ci' = [ci EXCEPT ![p] = s]
  /\ UNCHANGED <<issueOpen, inFlight, commented, noticed, assigned, pr, mail,
                 tmux, web, proc>>

\* People close the issues that are theirs, and others when they please.
CloseIssue(i) ==
  /\ i \in issueOpen
  /\ i \in HumanIssues \/ May("humanClose")
  /\ issueOpen' = issueOpen \ {i}
  /\ UNCHANGED <<inFlight, commented, noticed, assigned, pr, ci, mail, tmux,
                 web, proc>>

ClaimScope(i) ==
  /\ May("scopeClaim") /\ HasMailbox /\ i \notin claims
  /\ claims' = claims \cup {i}
  /\ UNCHANGED <<github, yells, tmux, web, proc>>

\* A session that has no work any more is killed, by the idle skill or a
\* person: nothing in the orchestrator does it.
AgentSessionEnds(n) ==
  /\ agent[n] = Parked
  /\ agent' = [agent EXCEPT ![n] = NoSession]
  /\ UNCHANGED <<github, mail, qa, web, proc>>

QaSessionEnds(n) ==
  /\ qa[n] \in PRs \cup {Parked}
  /\ qa' = [qa EXCEPT ![n] = NoSession]
  /\ UNCHANGED <<github, mail, agent, web, proc>>

-----------------------------------------------------------------------------

Survey(o) ==
  \/ ReadClosedPrs(o) \/ ReadOpenIssues(o) \/ ReadClosedIssues(o)
  \/ ReadOpenPrs(o) \/ SurveyFails(o) \/ ClearLabel(o) \/ ClearDone(o)
  \/ RunLocalCi(o) \/ ReadComments(o) \/ ReadSessions(o)

Act(o) ==
  \/ MergePr(o) \/ MergeSkipped(o) \/ MergeDone(o)
  \/ OpenQaSession(o) \/ QaSkipped(o) \/ PromptQa(o) \/ QaDone(o)
  \/ PassOver(o) \/ HoldBack(o) \/ Defer(o) \/ Choose(o)
  \/ ClaimIssue(o) \/ PostTrigger(o) \/ OpenSession(o) \/ SendPrompt(o)
  \/ RollBack(o) \/ EndPass(o)

Process(o) == Start(o) \/ Survey(o) \/ Act(o)

Environment ==
  \/ \E p \in PRs : AgentOpensPr(p) \/ HumanOpensPr(p) \/ ClosePr(p)
                      \/ CiReports(p)
  \/ \E i \in Issues : AgentGivesUp(i) \/ CloseIssue(i) \/ ClaimScope(i)
  \/ \E n \in AgentSlots : AgentSessionEnds(n)
  \/ \E n \in QaSlots : QaSessionEnds(n)

Next ==
  \/ \E o \in Orchs : Process(o) \/ SoftChordExpires(o) \/ Crash(o)
  \/ Environment

Spec == Init /\ [][Next]_vars

-----------------------------------------------------------------------------
(* Safety.                                                                 *)

AtWork(i) == web[i] > 0 \/ \E n \in AgentSlots : agent[n] = i

\* At most one worker is on issue i.
SoleWorker(i) ==
  /\ web[i] <= 1
  /\ \A n \in AgentSlots : agent[n] = i => web[i] = 0
  /\ \A m, n \in AgentSlots : agent[m] = i /\ agent[n] = i => m = n

\* A pull request of issue i has been closed or merged.
PrSettled(i) == \E p \in PRs : PrIssue[p] = i /\ pr[p] \in {"closed", "merged"}

\* No issue is given to a second worker while the first is at work (the label
\* check and the comment scan together, orchestrator.rs:325-336).  It stops
\* holding for an issue one of whose pull requests has been closed: every
\* later pass takes that for the end of the current work and clears the label.
NoDoubleWork == \A i \in Issues : SoleWorker(i) \/ PrSettled(i)

\* An issue is worked on only once everything it depends on is closed, however
\* stale the snapshots of however many processes are.
DependenciesDone ==
  \A i \in Issues : AtWork(i) => Deps[i] \cap issueOpen = {}

\* Two Bureaucratic issues are never at work together, unless a pull request
\* of one of them is out (which clears the label that serialises them).
BureaucraticAlone ==
  \A i, j \in Issues :
    (/\ i # j /\ AtWork(i) /\ AtWork(j)
     /\ PresetOf(i) = "Bureaucratic" /\ PresetOf(j) = "Bureaucratic")
    => PrSeen(i) \/ PrSeen(j)

\* A prompt is only ever sent to a session that the same process has just
\* created and nobody has prompted: two processes that pick the same slot
\* number never share the session.
OwnSession ==
  \A o \in Orchs :
    /\ pc[o] = "prompt" => agent[slot[o]] = Fresh
    /\ pc[o] = "qaPrompt" => qa[slot[o]] = Fresh
    /\ \A p \in Orchs \ {o} :
         pc[o] = pc[p] /\ pc[o] \in {"prompt", "qaPrompt"} => slot[o] # slot[p]

\* An issue labelled in flight has a worker, had one whose pull request is out,
\* or is on its way to one: a dispatch that fails takes its label back, also
\* when two processes collide on a session name.  It needs processes that do
\* not die and calls to GitHub that succeed.
LabelMeansWork ==
  Hazards \cap {"apiError", "replyLost", "crash", "giveUp"} = {} =>
    \A i \in inFlight :
      \/ AtWork(i) \/ PrSeen(i)
      \/ \E o \in Orchs : /\ cur[o] = i
                          /\ pc[o] \in {"trigger", "session", "prompt", "rollback"}

\* A dry run changes nothing on GitHub and creates no session ("Print the plan
\* without commenting or merging").
DryRunSilent ==
  DryRun => /\ inFlight = {} /\ commented = {} /\ noticed = {} /\ assigned = {}
            /\ \A p \in PRs : pr[p] # "merged"
            /\ \A n \in AgentSlots : agent[n] = NoSession
            /\ \A n \in QaSlots : qa[n] = NoSession

\* Where local CI decides alone, a pull request is merged only on a local run
\* that passed: what the run could not tell counts as failing.
LocalModeMergesPassing ==
  [][\A p \in PRs : pr[p] = "open" /\ pr'[p] = "merged" =>
       \E o \in Orchs : pc[o] = "merge" /\ snap[o].ci[p] = "Passing"]_pr

\* The label is the lock between simultaneous calls: one worker per issue.
LabelIsLock == \A i \in Issues : SoleWorker(i)

-----------------------------------------------------------------------------
(* The orchestrator implements the work ledger: workers are the GitHub     *)
(* Actions runs and the sessions at work, closed issues are done.          *)

Load == [i \in Issues |->
           web[i] + Cardinality({n \in AgentSlots : agent[n] = i})]

Ledger == INSTANCE WorkLedger WITH done <- Issues \ issueOpen, load <- Load
ImplementsLedger == Ledger!Spec

-----------------------------------------------------------------------------
(* Fairness: cron, or the poll timer, keeps starting passes and a running  *)
(* pass goes on; time passes while a process sleeps; workers open their    *)
(* pull requests or end when there is one already, checks report and       *)
(* people close the issues that are theirs.  Nothing in the repository     *)
(* kills a finished session, so a fair Reaper is an assumption about the   *)
(* operator.                                                               *)

Fairness ==
  /\ \A o \in Orchs : WF_vars(Process(o)) /\ SF_vars(SoftChordExpires(o))
  /\ \A p \in PRs : WF_vars(AgentOpensPr(p)) /\ WF_vars(CiReports(p))
  /\ \A i \in HumanIssues : WF_vars(CloseIssue(i))
  /\ \A i \in Issues : WF_vars(PrSeen(i) /\ AgentGivesUp(i))

Reaper ==
  /\ \A n \in AgentSlots : WF_vars(AgentSessionEnds(n))
  /\ \A n \in QaSlots : WF_vars(QaSessionEnds(n))

FairSpec == Spec /\ Fairness /\ Reaper

-----------------------------------------------------------------------------
(* Liveness.                                                               *)

\* Every issue is eventually closed, through dependencies, a pool of slots
\* that is smaller than the work, and issues left to people.
EveryIssueCloses == \A i \in Issues : <>(i \notin issueOpen)

\* From some time on a process that goes down is one at the end of its pass.
CrashesCease ==
  \A o \in Orchs : <>[][pc[o] # "down" /\ pc'[o] = "down" => EndPass(o)]_vars

\* A pass after a crash reconciles the label with the sessions: once crashes
\* cease, an issue in flight that nobody works at does not stay so.
CrashReconciled ==
  CrashesCease =>
    \A i \in Issues : i \in inFlight /\ ~ AtWork(i) /\ ~ PrSeen(i)
                      ~> i \notin inFlight \/ AtWork(i) \/ PrSeen(i)

=============================================================================
