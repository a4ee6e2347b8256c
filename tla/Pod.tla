-------------------------------- MODULE Pod --------------------------------
(***************************************************************************)
(* The conductr-<tag> tmux sessions of a host and the commands that keep   *)
(* Claude running in them: `pod ensure-session' (what every cron line      *)
(* starts with), `pod heal' (the provision pass of `setup spawn', then the *)
(* restart pass) and `pod save-state'.  All of them look at a pane, decide *)
(* and type; nothing locks a pane between the look and the typing.         *)
(*                                                                         *)
(* A pane is abstracted to what runs in it.  The commands only see what it *)
(* shows, which is less: a Claude that is starting looks like a shell.     *)
(***************************************************************************)
EXTENDS Integers, FiniteSets

CONSTANTS
  Sessions,   \* session names
  Projects,   \* those of the active projects of the registry
  Longer,     \* Longer[s]: the other names that begin with s
  Procs,      \* invocations of the command line
  Cron,       \* those of them that cron starts
  CronLines,  \* what cron runs, see EnsureCommands
  Commands,   \* what the others may be invoked as, see AllCommands
  MaxUpsets,  \* bound on upsets
  PodHazards, \* "tmuxError", "cloneError", "trackerError", "timeout",
              \* "remnants"
  AllSessions, Nobody

\* ensure-session with a skill or a subprocess to run then, heal with or
\* without --repo and --no-provision, save-state.
EnsureCommands == [op: {"ensure"}, at: Projects, flag: BOOLEAN]
AllCommands ==
  EnsureCommands \cup [op: {"heal"}, at: Projects \cup {AllSessions}, flag: BOOLEAN]
    \cup [op: {"save"}, at: {AllSessions}, flag: BOOLEAN]

ASSUME PodAssumption ==
  /\ Projects \subseteq Sessions /\ Cron \subseteq Procs
  /\ Longer \in [Sessions -> SUBSET Sessions]
  /\ \A s \in Sessions : s \notin Longer[s]
  /\ CronLines \subseteq EnsureCommands /\ Commands \subseteq AllCommands
  /\ AllSessions \notin Sessions /\ Nobody \notin Sessions \cup AllCommands
  /\ MaxUpsets \in Nat

VARIABLES
  pane,    \* what runs in each session
  rc,      \* sessions whose Claude has Remote Control on
  cloned,  \* projects whose clone exists
  upsets,  \* sessions and Claudes that ended, tmux calls that failed,
           \* save-states run by hand so far
  step,    \* where each process is
  cmd,     \* its command line
  cur,     \* the session it is busy with
  todo,    \* sessions its current loop has left
  seen,    \* what it has diagnosed
  fresh,   \* sessions its provision pass has launched
  lost     \* processes whose session lost the Claude they had found ready, or
           \* that took what it left on the screen for it

host == <<pane, rc, cloned, upsets>>
mind == <<cmd, cur, todo, seen, fresh>>
podVars == <<host, mind, step, lost>>

Panes == {"none", "blank", "shell", "starting", "idle", "working", "exiting"}
Claude == {"idle", "working"}
Healths == {"crashed", "working", "idle", "unknown"}
Ready == {"remote", "enable", "then"}
Steps == Ready \cup {"off", "look", "create", "launch", "wait", "provision",
                     "make", "boot", "capture", "restart", "save", "relaunch"}

PodTypeOK ==
  /\ pane \in [Sessions -> Panes] /\ rc \subseteq Sessions
  /\ cloned \subseteq Projects /\ upsets \in 0..MaxUpsets
  /\ step \in [Procs -> Steps]
  /\ cmd \in [Procs -> AllCommands \cup {Nobody}]
  /\ cur \in [Procs -> Sessions \cup {Nobody}]
  /\ todo \in [Procs -> SUBSET Sessions]
  /\ seen \in [Procs -> [Sessions -> Healths \cup {"unseen"}]]
  /\ fresh \in [Procs -> SUBSET Projects]
  /\ lost \subseteq Procs

NoneSeen == [s \in Sessions |-> "unseen"]

\* Sessions may be there, opened by hand.
PodInit ==
  /\ pane \in [Sessions -> {"none", "shell", "idle"}] /\ rc = {} /\ cloned = {} /\ upsets = 0
  /\ step = [k \in Procs |-> "off"] /\ cmd = [k \in Procs |-> Nobody]
  /\ cur = [k \in Procs |-> Nobody] /\ todo = [k \in Procs |-> {}]
  /\ seen = [k \in Procs |-> NoneSeen] /\ fresh = [k \in Procs |-> {}]
  /\ lost = {}

Fails(hazard) == hazard \in PodHazards

-----------------------------------------------------------------------------
(* tmux and what a pane shows.                                             *)

Live == {s \in Sessions : pane[s] # "none"}

\* tmux resolves a target to the session of that name or, for want of one, to
\* the only session whose name begins with it.
Target(s) == IF s \in Live THEN {s}
             ELSE {q \in Longer[s] \cap Live : Longer[s] \cap Live = {q}}

\* The screen of a Claude that is gone may still be there: it is classified
\* by its marks wherever they stand.
Remains == IF Fails("remnants") THEN {"idle", "working"} ELSE {}

\* What a capture of a pane can be classified as: without the Claude screen
\* anything that is not empty counts as crashed.
Shows(p) ==
  CASE p = "blank" -> {"unknown"}
    [] p = "shell" -> {"crashed"} \cup Remains
    [] p = "starting" -> {"crashed", "unknown"} \cup Remains
    [] p = "exiting" -> {"crashed", "idle"} \cup Remains
    [] p \in Claude -> {p}

\* What typing the command that starts Claude makes of a pane: a shell runs
\* it, a Claude that is up takes it for a prompt, one that is going down may
\* swallow it.
Launched == [p \in Panes |->
  CASE p = "none" -> {}
    [] p \in {"blank", "shell", "starting"} -> {"starting"}
    [] p \in Claude -> {"working"}
    [] p = "exiting" -> {"exiting", "starting"}]

\* What typing /exit makes of it; a busy Claude may read it later.
Exited == [p \in Panes |->
  CASE p = "idle" -> {"exiting"}
    [] p \in {"working", "starting"} -> {p, "exiting"}
    [] OTHER -> {p}]

\* What typing a skill makes of it; a shell does not know the command.
Prompted == [p \in Panes |-> {IF p = "idle" THEN "working" ELSE p}]

\* The processes that have found session s ready and not finished with it.
Misled(s) == {k \in Procs : step[k] \in Ready /\ cur[k] = s}

\* A line is typed into session s, and tmux takes it.
Type(s, effect) ==
  \E t \in Target(s) : \E p \in effect[pane[t]] :
    /\ pane' = [pane EXCEPT ![t] = p]
    /\ lost' = IF pane[t] \in Claude /\ p \notin Claude
               THEN lost \cup Misled(t) ELSE lost
    /\ UNCHANGED <<rc, cloned, upsets>>

Upset == upsets < MaxUpsets /\ upsets' = upsets + 1

TmuxFails == Fails("tmuxError") /\ Upset /\ UNCHANGED <<pane, rc, cloned>>

\* There is no such session, or tmux fails.
TypingFails(s) == (Target(s) = {} /\ UNCHANGED host) \/ TmuxFails

-----------------------------------------------------------------------------
(* Processes begin and end.                                                *)

Continue(k, where) == step' = [step EXCEPT ![k] = where]

Quit(k) ==
  /\ Continue(k, "off")
  /\ cmd' = [cmd EXCEPT ![k] = Nobody] /\ cur' = [cur EXCEPT ![k] = Nobody]
  /\ todo' = [todo EXCEPT ![k] = {}]
  /\ seen' = [seen EXCEPT ![k] = NoneSeen]
  /\ fresh' = [fresh EXCEPT ![k] = {}]
  /\ lost' = lost \ {k}

\* The live sessions whose name the --repo session, or the pod pattern, is
\* part of.
Listed(scope) == Live \cap (IF scope = AllSessions THEN Sessions
                            ELSE {scope} \cup Longer[scope])

\* Mutant: --repo provisions whatever has the name in its own.
ProvisionedByPart(scope) ==
  IF scope = AllSessions THEN Projects ELSE {scope} \cup Longer[scope]

\* The projects that a heal without or with --repo provisions.
Provisioned(scope) == IF scope = AllSessions THEN Projects ELSE {scope}

Invoke(k, c) ==
  /\ step[k] = "off" /\ c \in IF k \in Cron THEN CronLines ELSE Commands
  /\ cmd' = [cmd EXCEPT ![k] = c]
  /\ CASE c.op = "ensure" -> /\ Continue(k, "look")
                             /\ cur' = [cur EXCEPT ![k] = c.at]
                             /\ UNCHANGED todo
       [] c.op = "heal" /\ c.flag ->
            /\ Continue(k, "provision")
            /\ todo' = [todo EXCEPT ![k] = Provisioned(c.at)]
            /\ UNCHANGED cur
       [] OTHER -> /\ Continue(k, "capture")
                   /\ todo' = [todo EXCEPT ![k] = Listed(c.at)]
                   /\ UNCHANGED cur
  /\ IF c.op = "save" THEN Upset ELSE UNCHANGED upsets
  /\ UNCHANGED <<pane, rc, cloned, seen, fresh, lost>>

-----------------------------------------------------------------------------
(* ensure-session.                                                         *)

\* The session is looked for by its exact name and, when it exists, diagnosed.
EnsureLook(k) ==
  LET s == cur[k]
  IN  /\ step[k] = "look"
      /\ \/ /\ s \notin Live
            /\ Continue(k, "create")
            /\ UNCHANGED <<host, mind, lost>>
         \/ \E h \in IF s \in Live THEN Shows(pane[s]) ELSE {} :
              /\ CASE h = "crashed" -> Continue(k, "launch") /\ UNCHANGED <<mind, lost>>
                   [] h = "idle" -> /\ Continue(k, "remote")
                                    /\ lost' = IF pane[s] = "idle" THEN lost ELSE lost \cup {k}
                                    /\ UNCHANGED mind
                   [] OTHER -> Quit(k)
              /\ UNCHANGED host
         \/ TmuxFails /\ Quit(k)

\* tmux refuses a name that another process has created meanwhile.
EnsureCreate(k) ==
  LET s == cur[k]
  IN  /\ step[k] = "create"
      /\ \/ /\ s \notin Live
            /\ pane' = [pane EXCEPT ![s] = "blank"]
            /\ Continue(k, "launch")
            /\ UNCHANGED <<rc, cloned, upsets, mind, lost>>
         \/ s \in Live /\ Quit(k) /\ UNCHANGED host
         \/ TmuxFails /\ Quit(k)

\* Mutant: the session counts as ready as soon as the command is typed.
EnsureLaunchNoWait(k) ==
  /\ step[k] = "launch"
  /\ \/ Type(cur[k], Launched) /\ Continue(k, "remote") /\ UNCHANGED mind
     \/ TypingFails(cur[k]) /\ Quit(k)

\* Mutant: a crashed session is reported and left alone.
EnsureLaunchNewOnly(k) ==
  /\ step[k] = "launch"
  /\ \/ /\ pane[cur[k]] = "blank"
        /\ Type(cur[k], Launched) /\ Continue(k, "wait") /\ UNCHANGED mind
     \/ pane[cur[k]] # "blank" /\ Quit(k) /\ UNCHANGED host

\* Claude is started, in a new session or in one whose Claude has ended.
EnsureLaunch(k) ==
  /\ step[k] = "launch"
  /\ \/ Type(cur[k], Launched) /\ Continue(k, "wait") /\ UNCHANGED mind
     \/ TypingFails(cur[k]) /\ Quit(k)

\* wait_for_idle: the pane is polled until Claude awaits input, or 120 s pass.
EnsureWait(k) ==
  LET s == cur[k]
  IN  /\ step[k] = "wait"
      /\ \/ /\ s \in Live /\ "idle" \in Shows(pane[s])
            /\ Continue(k, "remote")
            /\ lost' = IF pane[s] = "idle" THEN lost ELSE lost \cup {k}
            /\ UNCHANGED mind
         \/ (pane[s] # "idle" \/ Fails("timeout")) /\ Quit(k)
      /\ UNCHANGED host

\* Remote Control is looked for before it is switched on; a look that fails is
\* only reported.
EnsureRemote(k) ==
  /\ step[k] = "remote"
  /\ \/ /\ Continue(k, IF cur[k] \in Live \ rc THEN "enable" ELSE "then")
        /\ UNCHANGED host
     \/ TmuxFails /\ Continue(k, "then")
  /\ UNCHANGED <<mind, lost>>

EnsureEnable(k) ==
  /\ step[k] = "enable"
  /\ \/ \E t \in Target(cur[k]) :
          /\ rc' = IF pane[t] \in Claude THEN rc \cup {t} ELSE rc
          /\ Continue(k, "then")
          /\ UNCHANGED <<pane, cloned, upsets, mind, lost>>
     \/ TypingFails(cur[k]) /\ Quit(k)

\* --then: a skill is typed into the session, another command runs beside it.
EnsureThen(k) ==
  /\ step[k] = "then" /\ Quit(k)
  /\ \/ /\ cmd[k].flag
        /\ \E t \in Target(cur[k]) : \E p \in Prompted[pane[t]] :
             pane' = [pane EXCEPT ![t] = p]
        /\ UNCHANGED <<rc, cloned, upsets>>
     \/ cmd[k].flag /\ TypingFails(cur[k])
     \/ ~cmd[k].flag /\ UNCHANGED host

-----------------------------------------------------------------------------
(* pod heal: the provision pass, then the restart pass.                    *)

\* A project is cloned when it is not there, and its session looked for.
Provision(k) ==
  /\ step[k] = "provision"
  /\ \E s \in todo[k] :
       /\ todo' = [todo EXCEPT ![k] = @ \ {s}]
       /\ \/ s \notin cloned /\ Fails("cloneError") /\ UNCHANGED <<cloned, cur, step>>
          \/ /\ cloned' = cloned \cup {s}
             /\ IF Target(s) # {} THEN UNCHANGED <<cur, step>>
                ELSE cur' = [cur EXCEPT ![k] = s] /\ Continue(k, "make")
  /\ UNCHANGED <<pane, rc, upsets, cmd, seen, fresh, lost>>

\* What goes wrong is reported and the next project is taken.
ProvisionCreate(k) ==
  /\ step[k] = "make"
  /\ \/ /\ cur[k] \notin Live
        /\ pane' = [pane EXCEPT ![cur[k]] = "blank"] /\ Continue(k, "boot")
        /\ UNCHANGED <<rc, cloned, upsets, mind, lost>>
     \/ /\ (cur[k] \in Live /\ UNCHANGED host) \/ TmuxFails
        /\ cur' = [cur EXCEPT ![k] = Nobody] /\ Continue(k, "provision")
        /\ UNCHANGED <<cmd, todo, seen, fresh, lost>>

ProvisionLaunch(k) ==
  /\ step[k] = "boot" /\ Continue(k, "provision")
  /\ \/ Type(cur[k], Launched) /\ fresh' = [fresh EXCEPT ![k] = @ \cup {cur[k]}]
     \/ TypingFails(cur[k]) /\ UNCHANGED <<fresh, lost>>
  /\ cur' = [cur EXCEPT ![k] = Nobody]
  /\ UNCHANGED <<cmd, todo, seen>>

EndProvision(k) ==
  /\ step[k] = "provision" /\ todo[k] = {}
  /\ Continue(k, "capture") /\ todo' = [todo EXCEPT ![k] = Listed(cmd[k].at)]
  /\ UNCHANGED <<host, cmd, cur, seen, fresh, lost>>

\* diagnose_all, the same for save-state: one pane that cannot be captured
\* fails the command.
Capture(k) ==
  /\ step[k] = "capture"
  /\ \/ /\ \E s \in todo[k] : \E t \in Target(s) : \E h \in Shows(pane[t]) :
             /\ seen' = [seen EXCEPT ![k][s] = h]
             /\ todo' = [todo EXCEPT ![k] = @ \ {s}]
        /\ UNCHANGED <<host, step, cmd, cur, fresh, lost>>
     \/ (\E s \in todo[k] : TypingFails(s)) /\ Quit(k)

EndCapture(k) ==
  /\ step[k] = "capture" /\ todo[k] = {}
  /\ Continue(k, IF cmd[k].op = "heal" THEN "restart" ELSE "save")
  /\ todo' = [todo EXCEPT ![k] = {s \in Sessions : seen[k][s] # "unseen"}]
  /\ UNCHANGED <<host, cmd, cur, seen, fresh, lost>>

\* heal_all types into every session it has seen crashed; what the provision
\* pass has launched and the exact name are looked at in the report only.
Restart(k) ==
  /\ step[k] = "restart"
  /\ \E s \in todo[k] :
       /\ todo' = [todo EXCEPT ![k] = @ \ {s}]
       /\ \/ seen[k][s] = "crashed" /\ Type(s, Launched)
          \/ seen[k][s] = "crashed" /\ TypingFails(s) /\ UNCHANGED lost
          \/ seen[k][s] # "crashed" /\ UNCHANGED <<host, lost>>
  /\ UNCHANGED <<step, cmd, cur, seen, fresh>>

\* Both commands end when their last loop does.
EndLoop(k) == step[k] \in {"restart", "save"} /\ todo[k] = {} /\ Quit(k) /\ UNCHANGED host

-----------------------------------------------------------------------------
(* pod save-state: an issue for whatever was going on, then the session is *)
(* restarted unless it is busy.                                            *)

SaveState(k) ==
  /\ step[k] = "save"
  /\ \E s \in todo[k] :
       \/ /\ \/ seen[k][s] \in {"working", "unknown"} /\ UNCHANGED <<host, lost, cur, step>>
             \/ /\ seen[k][s] = "crashed" /\ Type(s, Launched)
                /\ UNCHANGED <<cur, step>>
             \/ /\ seen[k][s] = "idle" /\ Type(s, Exited)
                /\ cur' = [cur EXCEPT ![k] = s] /\ Continue(k, "relaunch")
          /\ todo' = [todo EXCEPT ![k] = @ \ {s}]
          /\ UNCHANGED <<cmd, seen, fresh>>
       \/ seen[k][s] \in {"idle", "crashed"} /\ TypingFails(s) /\ Quit(k)
       \/ seen[k][s] # "unknown" /\ Fails("trackerError") /\ Quit(k) /\ UNCHANGED host

\* 400 ms after /exit.
Relaunch(k) ==
  /\ step[k] = "relaunch"
  /\ \/ /\ Type(cur[k], Launched) /\ Continue(k, "save")
        /\ cur' = [cur EXCEPT ![k] = Nobody]
        /\ UNCHANGED <<cmd, todo, seen, fresh>>
     \/ TypingFails(cur[k]) /\ Quit(k)

-----------------------------------------------------------------------------
(* The sessions' own life.                                                 *)

Becomes(s, from, to) ==
  /\ pane[s] \in from /\ pane' = [pane EXCEPT ![s] = to]
  /\ lost' = IF pane[s] \in Claude /\ to \notin Claude THEN lost \cup Misled(s) ELSE lost
  /\ UNCHANGED <<cloned, mind, step>>

\* The default command of heal has --remote-control, the others' have not.
ClaudeStarts(s) ==
  Becomes(s, {"starting"}, "idle") /\ rc' \in {rc, rc \cup {s}} /\ UNCHANGED upsets

ShellPrompts(s) == Becomes(s, {"blank"}, "shell") /\ UNCHANGED <<rc, upsets>>
ClaudeWorks(s) == Becomes(s, {"idle"}, "working") /\ UNCHANGED <<rc, upsets>>
ClaudeAnswers(s) == Becomes(s, {"working"}, "idle") /\ UNCHANGED <<rc, upsets>>

ClaudeExits(s) == Becomes(s, {"exiting"}, "shell") /\ rc' = rc \ {s} /\ UNCHANGED upsets
ClaudeDies(s) == Becomes(s, Claude \cup {"starting"}, "shell") /\ rc' = rc \ {s} /\ Upset
SessionEnds(s) == Becomes(s, Panes \ {"none"}, "none") /\ rc' = rc \ {s} /\ Upset

-----------------------------------------------------------------------------

Command(k) ==
  \/ EnsureLook(k) \/ EnsureCreate(k) \/ EnsureLaunch(k) \/ EnsureWait(k)
  \/ EnsureRemote(k) \/ EnsureEnable(k) \/ EnsureThen(k)
  \/ Provision(k) \/ ProvisionCreate(k) \/ ProvisionLaunch(k) \/ EndProvision(k)
  \/ Capture(k) \/ EndCapture(k) \/ Restart(k) \/ EndLoop(k)
  \/ SaveState(k) \/ Relaunch(k)

PaneMoves(s) == ShellPrompts(s) \/ ClaudeStarts(s) \/ ClaudeExits(s)

PodNext ==
  \/ \E k \in Procs : Command(k) \/ (\E c \in AllCommands : Invoke(k, c))
  \/ \E s \in Sessions : \/ PaneMoves(s) \/ ClaudeWorks(s) \/ ClaudeAnswers(s)
                         \/ ClaudeDies(s) \/ SessionEnds(s)

PodSpec == PodInit /\ [][PodNext]_podVars

\* Cron runs its lines again and again; a command takes
\* its steps; shells and Claudes come up and go down in finite time.
PodFairness ==
  /\ \A k \in Procs : WF_podVars(Command(k))
  /\ \A s \in Sessions : WF_podVars(PaneMoves(s))
  /\ \A k \in Cron : \A c \in CronLines : SF_podVars(Invoke(k, c))

FairPodSpec == PodSpec /\ PodFairness

-----------------------------------------------------------------------------
(* Properties.                                                             *)

\* What ensure-session types after its launch goes to a running Claude, unless
\* that Claude has ended since it was seen ready, or only its screen was left by
\* then (main.rs, run_ensure_session).
EnsureReady ==
  \A k \in Procs : step[k] \in Ready => pane[cur[k]] \in Claude \/ k \in lost

\* However sessions and Claudes end, and whatever the other commands type
\* meanwhile, cron brings Claude back to every session it has a line for, provided
\* that Claude leaves no screen behind (main.rs, run_ensure_session).
ComesBack == \A s \in {c.at : c \in CronLines} : (pane[s] \notin Claude) ~> (pane[s] \in Claude)

\* The restart pass of heal relaunches no session that its provision pass has
\* just launched and, with --repo, no session but the one of that name: the
\* comment in run_heal.
RestartPassScope ==
  \A k \in Procs : step[k] = "restart" =>
    \A s \in todo[k] : seen[k][s] = "crashed" =>
      s \notin fresh[k] /\ cmd[k].at \in {s, AllSessions}
=============================================================================
