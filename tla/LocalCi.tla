------------------------------ MODULE LocalCi ------------------------------
(***************************************************************************)
(* The local CI adapter: runs of several processes (cron passes, a pass in *)
(* a terminal) in one clone.  A run fetches the head of a pull request,    *)
(* checks out what the repository's one FETCH_HEAD names into a worktree   *)
(* of its own, and runs the configured commands there, one by one.         *)
(***************************************************************************)
EXTENDS Naturals, FiniteSets

CONSTANTS
  CiRunners,   \* processes that may run local CI, one run at a time each
  Branches,    \* head branches of origin
  SafeRef,     \* a branch as part of a path: its slashes and blanks are dashes
  CommandMax,  \* the configured commands are 1 .. CommandMax
  MaxPushes,   \* bound on the pushes to each branch
  MaxCiRuns,     \* bound on the runs of the whole behaviour
  MaxClock     \* bound on the clock, which names the worktrees

VARIABLES
  origin,     \* version of every branch at origin
  fetchHead,  \* FETCH_HEAD: <<branch, version>>, or <<>>
  worktrees,  \* directories that git made for the runs: path |-> commit
  ciRun,      \* run of every process
  clock,      \* the time of day, in the milliseconds of a worktree's path
  ciCount     \* runs started

ciVars == <<origin, fetchHead, worktrees, ciRun, clock, ciCount>>

\* commit: what the run's worktree holds; asked: the head at the run's own fetch;
\* alone: nobody else fetched since this run's fetch; next: the command to run.
NoRun == [pc |-> "idle", branch |-> "none", path |-> <<>>, commit |-> <<>>, asked |-> <<>>,
          alone |-> TRUE, next |-> 1, status |-> "none"]

CiInit ==
  /\ origin = [b \in Branches |-> 0]
  /\ fetchHead = <<>>
  /\ worktrees = <<>>
  /\ ciRun = [r \in CiRunners |-> NoRun]
  /\ clock = 0 /\ ciCount = 0

Without(f, x) == [y \in DOMAIN f \ {x} |-> f[y]]

StartRun(r, b) ==
  /\ ciRun[r].pc \in {"idle", "over"} /\ ciCount < MaxCiRuns
  /\ ciCount' = ciCount + 1
  /\ ciRun' = [ciRun EXCEPT ![r] = [NoRun EXCEPT !.pc = "fetch", !.branch = b, !.path = <<SafeRef[b], clock>>]]
  /\ UNCHANGED <<origin, fetchHead, worktrees, clock>>

\* FETCH_HEAD is now what somebody else than these runners fetched.
FetchedOver(them) ==
  [r \in CiRunners |-> IF r \in them /\ ciRun[r].pc = "add" THEN [ciRun[r] EXCEPT !.alone = FALSE] ELSE ciRun[r]]

Fetch(r) ==
  LET head == <<ciRun[r].branch, origin[ciRun[r].branch]>>
  IN  /\ ciRun[r].pc = "fetch"
      /\ fetchHead' = head
      /\ ciRun' = [FetchedOver(CiRunners \ {r}) EXCEPT ![r].pc = "add", ![r].asked = head]
      /\ UNCHANGED <<origin, worktrees, clock, ciCount>>

Over(r, status) == ciRun' = [ciRun EXCEPT ![r] = [NoRun EXCEPT !.pc = "over", !.status = status]]

\* Mutant: the guard is made before git has made the worktree, so it removes what
\* is at the path whoever made it.
ConcludeEager(r, status) ==
  /\ Over(r, status)
  /\ worktrees' = worktrees \/ worktrees' = Without(worktrees, ciRun[r].path)

\* The run is over with its verdict, and the guard, if it was made, has git remove
\* the worktree; git may fail at it, as beside what a killed command has left
\* running there, and that is ignored.
Conclude(r, status) ==
  /\ Over(r, status)
  /\ \/ worktrees' = worktrees
     \/ ciRun[r].pc = "commands" /\ worktrees' = Without(worktrees, ciRun[r].path)

\* The fetch, or the checkout, fails: the branch is gone, the network is down, the lock is taken.
GitFails(r) ==
  /\ ciRun[r].pc \in {"fetch", "add"}
  /\ Conclude(r, "Unknown")
  /\ UNCHANGED <<origin, fetchHead, clock, ciCount>>

CheckOut(r, commit) ==
  /\ ciRun[r].pc = "add" /\ ciRun[r].path \notin DOMAIN worktrees
  /\ worktrees' = [p \in DOMAIN worktrees \cup {ciRun[r].path} |-> IF p = ciRun[r].path THEN commit ELSE worktrees[p]]
  /\ ciRun' = [ciRun EXCEPT ![r].pc = "commands", ![r].commit = commit]
  /\ UNCHANGED <<origin, fetchHead, clock, ciCount>>

\* Mutant: without the commit-ish, git checks out what the clone's own HEAD is.
AddWorktreeHead(r) == CheckOut(r, <<"HEAD", 0>>)

\* git refuses a directory that is there: two runs share one that began in one
\* millisecond on a branch, or on two that are one in a path.
AddWorktree(r) == CheckOut(r, fetchHead)

\* The next command of the list comes back with an exit code.
RunCommand(r, exit) ==
  /\ ciRun[r].pc = "commands" /\ ciRun[r].next <= CommandMax
  /\ IF exit = 0
     THEN ciRun' = [ciRun EXCEPT ![r].next = @ + 1] /\ UNCHANGED worktrees
     ELSE Conclude(r, "Failing")
  /\ UNCHANGED <<origin, fetchHead, clock, ciCount>>

\* The command cannot be started, or runs into the timeout; its shell is killed.
CommandFails(r) ==
  /\ ciRun[r].pc = "commands" /\ ciRun[r].next <= CommandMax
  /\ Conclude(r, "Unknown")
  /\ UNCHANGED <<origin, fetchHead, clock, ciCount>>

AllPassed(r) ==
  /\ ciRun[r].pc = "commands" /\ ciRun[r].next > CommandMax
  /\ Conclude(r, "Passing")
  /\ UNCHANGED <<origin, fetchHead, clock, ciCount>>

\* The process is killed: nothing is dropped.
RunnerDies(r) ==
  /\ ciRun[r].pc \in {"fetch", "add", "commands"}
  /\ ciRun' = [ciRun EXCEPT ![r].pc = "dead"]
  /\ UNCHANGED <<origin, fetchHead, worktrees, clock, ciCount>>

PushHead(b) ==
  /\ origin[b] < MaxPushes
  /\ origin' = [origin EXCEPT ![b] = @ + 1]
  /\ UNCHANGED <<fetchHead, worktrees, ciRun, clock, ciCount>>

\* A person, or an agent in the clone, fetches.
FetchByHand(b) ==
  LET head == <<b, origin[b]>>
  IN  /\ fetchHead' = head
      /\ ciRun' = FetchedOver(CiRunners)
      /\ UNCHANGED <<origin, worktrees, clock, ciCount>>

ClockTicks == clock < MaxClock /\ clock' = clock + 1 /\ UNCHANGED <<origin, fetchHead, worktrees, ciRun, ciCount>>

CiNext ==
  \/ \E r \in CiRunners :
       \/ \E b \in Branches : StartRun(r, b)
       \/ Fetch(r) \/ GitFails(r) \/ AddWorktree(r)
       \/ \E exit \in {0, 1} : RunCommand(r, exit)
       \/ CommandFails(r) \/ AllPassed(r) \/ RunnerDies(r)
  \/ \E b \in Branches : PushHead(b) \/ FetchByHand(b)
  \/ ClockTicks

CiSpec == CiInit /\ [][CiNext]_ciVars

-----------------------------------------------------------------------------
(* Properties.                                                             *)

\* What run tests is the head that its own fetch brought, wherever nobody fetched
\* between that fetch and its checkout: pushes, other runs and their ends do not matter.
LoneVerdict ==
  \A r \in CiRunners : ciRun[r].pc = "commands" /\ ciRun[r].alone => worktrees[ciRun[r].path] = ciRun[r].asked

\* While a run is at its commands its worktree is there, with what it checked out,
\* and no other run is at work in it: whatever runs beside it ended, failed, were
\* killed or left theirs, and whichever paths are the same.
TreeIsOwn ==
  \A r \in CiRunners : ciRun[r].pc = "commands" =>
    /\ ciRun[r].path \in DOMAIN worktrees /\ worktrees[ciRun[r].path] = ciRun[r].commit
    /\ \A q \in CiRunners \ {r} : ciRun[q].pc = "commands" => ciRun[q].path # ciRun[r].path
=============================================================================
