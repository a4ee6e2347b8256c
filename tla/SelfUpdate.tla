----------------------------- MODULE SelfUpdate -----------------------------
(***************************************************************************)
(* conductr self-update: a pass fast-forwards a checkout of conductr and   *)
(* installs the binary from it, at most once per interval, on its own or   *)
(* as phase 0 of an idle pass.  Several passes may run at once; a pass     *)
(* keeps what it read before.  Commits are numbered along the branch.      *)
(***************************************************************************)
EXTENDS Naturals, FiniteSets

CONSTANTS
  Passes,      \* processes that run passes
  Checkouts,   \* trees with crates/conductr/Cargo.toml
  BuiltFrom,   \* build_time_checkout: a checkout, or NoCheckout
  Registered,  \* the registry's project conductr, or NoCheckout
  WorkingDir,  \* the current directory: a checkout, or NoCheckout
  NoCheckout,
  Interval,    \* interval_hours
  LastCommit,  \* bound on the commits pushed
  UpdHazards   \* "pullFails" (or the fetch), "installFails", "dies", "byHand", "force"

VARIABLES
  upstream,    \* the newest commit of origin
  headOf,      \* HEAD of a checkout
  installed,   \* the commit that the installed binary was built from
  stamp,       \* hours since the time in self-update.state, or Never
  updPass      \* [at, repo, force, age, before] of a process

updVars == <<upstream, headOf, installed, stamp, updPass>>

\* Hours are counted up to the interval; more make no difference.
Never == Interval + 1
Older(age) == IF age < Interval THEN age + 1 ELSE age

NoPass == [at |-> "none"]

UpdInit ==
  /\ upstream = 1 /\ headOf = [c \in Checkouts |-> 1] /\ installed = 1
  /\ stamp = Never /\ updPass = [p \in Passes |-> NoPass]

\* resolve_repo: an explicit path is taken or refused, the others are tried.
ResolveRepo(explicit) ==
  IF explicit # NoCheckout THEN explicit
  ELSE IF BuiltFrom # NoCheckout THEN BuiltFrom
  ELSE IF Registered # NoCheckout THEN Registered
  ELSE WorkingDir

IsDue(last) == last >= Interval

Go(p, next) == updPass' = [updPass EXCEPT ![p] = next]
Leave(p) == Go(p, NoPass)

\* Skipped when not due.  (A dry run ends here, too.)
Begin(p, explicit, force) ==
  /\ updPass[p].at = "none" /\ ResolveRepo(explicit) # NoCheckout
  /\ IF force \/ IsDue(stamp)
     THEN Go(p, [at |-> "before", repo |-> ResolveRepo(explicit), force |-> force, age |-> 0,
                 before |-> 0])
     ELSE UNCHANGED updPass
  /\ UNCHANGED <<upstream, headOf, installed, stamp>>

ReadBefore(p) ==
  /\ updPass[p].at = "before"
  /\ Go(p, [updPass[p] EXCEPT !.at = "pull", !.before = headOf[updPass[p].repo]])
  /\ UNCHANGED <<upstream, headOf, installed, stamp>>

\* fetch and pull --ff-only; a failure of either is reported and ends the pass.
Pull(p) ==
  /\ updPass[p].at = "pull"
  /\ headOf' = [headOf EXCEPT ![updPass[p].repo] = upstream]
  /\ Go(p, [updPass[p] EXCEPT !.at = "after"])
  /\ UNCHANGED <<upstream, installed, stamp>>

PullFails(p) ==
  /\ updPass[p].at = "pull" /\ Leave(p) /\ "pullFails" \in UpdHazards
  /\ UNCHANGED <<upstream, headOf, installed, stamp>>

\* Mutant: HEAD is compared with itself, after the pull.
ReadAfterOnly(p) ==
  /\ updPass[p].at = "after" /\ UNCHANGED <<upstream, headOf, installed>>
  /\ IF updPass[p].force THEN Go(p, [updPass[p] EXCEPT !.at = "install"]) /\ UNCHANGED stamp
     ELSE stamp' = updPass[p].age /\ Leave(p)

\* HEAD did not move: the pass counts as an update.
ReadAfter(p) ==
  /\ updPass[p].at = "after"
  /\ IF headOf[updPass[p].repo] = updPass[p].before /\ ~ updPass[p].force
     THEN stamp' = updPass[p].age /\ Leave(p)
     ELSE Go(p, [updPass[p] EXCEPT !.at = "install"]) /\ UNCHANGED stamp
  /\ UNCHANGED <<upstream, headOf, installed>>

\* cargo builds what is in the checkout when it runs.
Install(p) ==
  /\ updPass[p].at = "install"
  /\ installed' = headOf[updPass[p].repo] /\ stamp' = updPass[p].age /\ Leave(p)
  /\ UNCHANGED <<upstream, headOf>>

InstallFails(p) ==
  /\ updPass[p].at = "install" /\ "installFails" \in UpdHazards /\ Leave(p)
  /\ UNCHANGED <<upstream, headOf, installed, stamp>>

PassDies(p) ==
  /\ updPass[p].at # "none" /\ "dies" \in UpdHazards /\ Leave(p)
  /\ UNCHANGED <<upstream, headOf, installed, stamp>>

\* The world: pushes, hours, and a person who pulls in a checkout.
Push ==
  /\ upstream < LastCommit /\ upstream' = upstream + 1
  /\ UNCHANGED <<headOf, installed, stamp, updPass>>

HourPasses ==
  /\ stamp' = Older(stamp)
  /\ updPass' = [p \in Passes |-> IF updPass[p].at = "none" THEN NoPass
                               ELSE [updPass[p] EXCEPT !.age = Older(@)]]
  /\ UNCHANGED <<upstream, headOf, installed>>

PullByHand(c) ==
  /\ "byHand" \in UpdHazards /\ headOf[c] # upstream /\ headOf' = [headOf EXCEPT ![c] = upstream]
  /\ UNCHANGED <<upstream, installed, stamp, updPass>>

PassStep(p) == ReadBefore(p) \/ Pull(p) \/ ReadAfter(p) \/ Install(p)

UpdNext ==
  \/ \E p \in Passes :
       \/ Begin(p, NoCheckout, FALSE)
       \/ \E c \in Checkouts \cup {NoCheckout} :
            "force" \in UpdHazards /\ Begin(p, c, TRUE)
       \/ PassStep(p) \/ PullFails(p)
  \/ Push \/ HourPasses

\* What leaves the checkout ahead of the binary.
UpdFault ==
  \/ \E p \in Passes : InstallFails(p) \/ PassDies(p)
  \/ \E c \in Checkouts : PullByHand(c)

UpdSpec == UpdInit /\ [][UpdNext]_updVars

\* The idle pass comes round again, steps are taken, and what may fail does
\* not fail for ever.
UpdFairness ==
  /\ WF_updVars(HourPasses)
  /\ \A p \in Passes :
       /\ WF_updVars(Begin(p, NoCheckout, FALSE))
       /\ WF_updVars(ReadBefore(p)) /\ SF_updVars(Pull(p))
       /\ WF_updVars(ReadAfter(p)) /\ SF_updVars(Install(p))

FairFaultyUpdSpec == UpdInit /\ [][UpdNext \/ UpdFault]_updVars /\ UpdFairness

-----------------------------------------------------------------------------
(* Properties.                                                             *)

\* Between passes the binary is the one of the checkout: a pass that finds HEAD
\* where it was may leave it at that, however passes overlap.
PulledIsInstalled ==
  (\A p \in Passes : updPass[p].at = "none") => installed = headOf[ResolveRepo(NoCheckout)]

\* A long-lived pod converges on the latest binary without manual intervention.
UpdateReaches == <>[](installed = upstream)
=============================================================================
