------------------------------ MODULE Calendar ------------------------------
(***************************************************************************)
(* conductr sync: open human issues get a half-hour decision event each in *)
(* the windows of a shared calendar.  A run reads the events, reads the    *)
(* issues, and then acts on what it read, one call at a time, while people *)
(* move events and close issues.  Time is in quarters of an hour.          *)
(***************************************************************************)
EXTENDS Naturals, FiniteSets

CONSTANTS
  CalRepos,       \* repositories that share the calendar
  CalTag,         \* project_tag of a repository
  HumanNumbers,   \* issue numbers, the same ones in every repository
  Dependents,     \* human issues that depend on an issue number
  FirstEvents,    \* the calendars to start from: sets of events
  Horizon,        \* the last moment
  EventIds,       \* bound on the events ever created
  MaxMoves,       \* bound on what people do
  MoveTimes,      \* where people move events to
  CalHazards      \* "apiError", "tick", "dryRun"

EventKinds == {"window", "blocked", "decision", "test", "review"}

\* Events, with where a decision was first placed.
CalendarEvents ==
  [id : Nat, kind : EventKinds, tags : SUBSET STRING, cid : Nat,
   start : Nat, end : Nat, orig : Nat]

ASSUME CalAssumption ==
  /\ HumanNumbers \subseteq Nat /\ IsFiniteSet(HumanNumbers)
  /\ Dependents \in [HumanNumbers -> Nat]
  /\ MoveTimes \subseteq Nat
  /\ \A c \in FirstEvents :
       /\ IsFiniteSet(c) /\ c \subseteq CalendarEvents
       /\ \A e \in c : e.id \in 1..Cardinality(c) /\ e.start <= e.end
       /\ \A e, o \in c : e.id = o.id => e = o

VARIABLES
  calEvents,  \* the calendar
  calNow,     \* the clock
  humanOpen,  \* open issues with the human label, by repository
  syncRun,    \* the run, or idle
  lastRun,    \* what the last run that ended did: [repo, undisturbed, unschedulable]
  calSerial,  \* events created so far
  calMoves    \* what people did so far

calVars == <<calEvents, calNow, humanOpen, syncRun, lastRun, calSerial, calMoves>>

SlotLen == 2
IdleSync == [at |-> "idle"]
NoLastRun == [repo |-> "none", undisturbed |-> FALSE, unschedulable |-> {}, seen |-> {}]

CalInit ==
  /\ calEvents \in FirstEvents
  /\ calNow = 0 /\ humanOpen = [r \in CalRepos |-> HumanNumbers]
  /\ syncRun = IdleSync /\ lastRun = NoLastRun
  /\ calSerial = Cardinality(calEvents) /\ calMoves = 0

-----------------------------------------------------------------------------
(* Events and slots.                                                       *)

Overlaps(a, b) == a.start < b.end /\ b.start < a.end

\* Tags of a window: {} accepts everything.
WindowMatches(tags, tag) == tags = {} \/ (tag # "*" /\ ({tag, "*"} \cap tags # {}))

OfKind(events, kinds) == {e \in events : e.kind \in kinds}
SlotKinds == {"decision", "test", "review"}

Blocked(slot, events) == \E b \in OfKind(events, {"blocked"}) : Overlaps(slot, b)

\* The half hours of a window, counted from its start.
SlotsOf(w) ==
  {[start |-> w.start + SlotLen * k, end |-> w.start + SlotLen * (k + 1)] :
     k \in {k \in 0..Horizon : w.start + SlotLen * (k + 1) <= w.end}}

\* Mutant: blockers are not looked at.
FreeSlotsUnblocked(events, occupied, now) ==
  UNION {{[slot |-> s, tags |-> w.tags] :
            s \in {s \in SlotsOf(w) : s.start >= now
                     /\ \A d \in OfKind(events, SlotKinds) : d.id \in occupied \/ ~ Overlaps(s, d)}} :
         w \in OfKind(events, {"window"})}

\* compute_available_slots: occupied are the ids kept or created in this run,
\* and those do not count as scheduled.
CalFreeSlots(events, occupied, now) ==
  UNION {{[slot |-> s, tags |-> w.tags] :
            s \in {s \in SlotsOf(w) : ~ Blocked(s, events) /\ s.start >= now
                     /\ \A d \in OfKind(events, SlotKinds) : d.id \in occupied \/ ~ Overlaps(s, d)}} :
         w \in OfKind(events, {"window"})}

EligibleSlots(events, occupied, now, tag) ==
  {f.slot : f \in {f \in CalFreeSlots(events, occupied, now) : WindowMatches(f.tags, tag)}}

Earliest(slots) == CHOOSE s \in slots : \A o \in slots : s.start <= o.start

Accepting(events, tag) == {w \in OfKind(events, {"window"}) : WindowMatches(w.tags, tag)}

InEligibleWindow(e, events, tag) ==
  /\ ~ Blocked(e, events)
  /\ \E w \in Accepting(events, tag) : e.start >= w.start /\ e.end <= w.end

Dragged(e) == e.orig # e.start

\* The decision of an issue among the events read: one of those with its id.
DecisionsOf(n, events) == {e \in OfKind(events, {"decision"}) : e.cid = n}

\* More dependents first, then the lower number.
MoreUrgent(a, b) == Dependents[a] > Dependents[b] \/ (Dependents[a] = Dependents[b] /\ a < b)

MostUrgent(issues) == CHOOSE n \in issues : \A m \in issues \ {n} : MoreUrgent(n, m)

-----------------------------------------------------------------------------
(* A run.                                                                  *)

\* Events that have not ended (external: timeMin of the calendar's list).
Upcoming == {e \in calEvents : e.end > calNow}

StartSync(repo, dry) ==
  /\ syncRun.at = "idle"
  /\ syncRun' = [at |-> "issues", repo |-> repo, dry |-> dry, now |-> calNow, seen |-> Upcoming,
                 todo |-> {}, open |-> {}, occupied |-> {}, cleared |-> FALSE,
                 undone |-> {}, removed |-> {}, calm |-> TRUE]
  /\ lastRun' = IF repo = lastRun.repo THEN lastRun ELSE NoLastRun
  /\ UNCHANGED <<calEvents, calNow, humanOpen, calSerial, calMoves>>

ReadHumanIssues ==
  /\ syncRun.at = "issues"
  /\ syncRun' = [syncRun EXCEPT !.at = "decide", !.open = humanOpen[syncRun.repo],
                                !.todo = humanOpen[syncRun.repo]]
  /\ UNCHANGED <<calEvents, calNow, humanOpen, lastRun, calSerial, calMoves>>

\* The issues are gone through in the order of their priority.
NextIssue == MostUrgent(syncRun.todo)

Existing == DecisionsOf(NextIssue, syncRun.seen)

KeepSlot ==
  /\ syncRun.at = "decide" /\ syncRun.todo # {} /\ ~ syncRun.cleared
  /\ \E e \in Existing :
       /\ Dragged(e) \/ InEligibleWindow(e, syncRun.seen, CalTag[syncRun.repo])
       /\ syncRun' = [syncRun EXCEPT !.todo = @ \ {NextIssue}, !.occupied = @ \cup {e.id}]
  /\ UNCHANGED <<calEvents, calNow, humanOpen, lastRun, calSerial, calMoves>>

EndSync == [repo |-> syncRun.repo, undisturbed |-> syncRun.calm /\ ~ syncRun.dry,
            unschedulable |-> syncRun.undone, seen |-> syncRun.seen]

\* delete_event fails for an event that is gone, and that ends the run.
Delete(e, then) ==
  IF syncRun.dry THEN syncRun' = then /\ UNCHANGED <<calEvents, lastRun>>
  ELSE IF e.id \in {o.id : o \in calEvents}
  THEN /\ calEvents' = {o \in calEvents : o.id # e.id} /\ syncRun' = then /\ UNCHANGED lastRun
  ELSE syncRun' = IdleSync /\ lastRun' = NoLastRun /\ UNCHANGED calEvents

\* Mutant: a dragged event outside every window is deleted like any other.
DeleteStaleDragged ==
  /\ syncRun.at = "decide" /\ syncRun.todo # {} /\ ~ syncRun.cleared
  /\ \E e \in Existing :
       /\ ~ InEligibleWindow(e, syncRun.seen, CalTag[syncRun.repo])
       /\ Delete(e, [syncRun EXCEPT !.cleared = TRUE])
  /\ UNCHANGED <<calNow, humanOpen, calSerial, calMoves>>

DeleteStale ==
  /\ syncRun.at = "decide" /\ syncRun.todo # {} /\ ~ syncRun.cleared
  /\ \E e \in Existing :
       /\ ~ Dragged(e) /\ ~ InEligibleWindow(e, syncRun.seen, CalTag[syncRun.repo])
       /\ Delete(e, [syncRun EXCEPT !.cleared = TRUE])
  /\ UNCHANGED <<calNow, humanOpen, calSerial, calMoves>>

\* The issue has no event, or had a stale one that is deleted by now.
Place ==
  LET n == NextIssue
      slots == EligibleSlots(syncRun.seen, syncRun.occupied, syncRun.now, CalTag[syncRun.repo])
      slot == Earliest(slots)
      next == [syncRun EXCEPT !.todo = @ \ {n}, !.cleared = FALSE]
  IN  /\ syncRun.at = "decide" /\ syncRun.todo # {} /\ (Existing = {} \/ syncRun.cleared)
      /\ IF slots = {}
         THEN syncRun' = [next EXCEPT !.undone = @ \cup {n}] /\ UNCHANGED <<calEvents, calSerial>>
         ELSE IF syncRun.dry THEN syncRun' = next /\ UNCHANGED <<calEvents, calSerial>>
         ELSE /\ calSerial + 1 \in EventIds /\ calSerial' = calSerial + 1
              /\ calEvents' = calEvents \cup
                   {[id |-> calSerial + 1, kind |-> "decision", tags |-> {}, cid |-> n,
                     start |-> slot.start, end |-> slot.end,
                     orig |-> slot.start]}
              /\ syncRun' = [next EXCEPT !.occupied = @ \cup {calSerial + 1}]
      /\ UNCHANGED <<calNow, humanOpen, lastRun, calMoves>>

\* Mutant: what was moved by hand is never an orphan.
OrphansUnmoved == {e \in OfKind(syncRun.seen, {"decision"}) :
  e.cid \notin syncRun.open /\ e.id \notin syncRun.occupied \cup syncRun.removed /\ ~ Dragged(e)}

\* Decisions whose id is no open human issue of this repository.
Orphans == {e \in OfKind(syncRun.seen, {"decision"}) :
              e.cid \notin syncRun.open /\ e.id \notin syncRun.occupied \cup syncRun.removed}

RemoveOrphan ==
  /\ syncRun.at = "decide" /\ syncRun.todo = {}
  /\ \E e \in Orphans : Delete(e, [syncRun EXCEPT !.removed = @ \cup {e.id}])
  /\ UNCHANGED <<calNow, humanOpen, calSerial, calMoves>>

FinishSync ==
  /\ syncRun.at = "decide" /\ syncRun.todo = {} /\ Orphans = {}
  /\ lastRun' = EndSync /\ syncRun' = IdleSync
  /\ UNCHANGED <<calEvents, calNow, humanOpen, calSerial, calMoves>>

\* Any call fails and ends the run; the call itself may still have been done.
SyncFails ==
  /\ "apiError" \in CalHazards /\ syncRun.at # "idle"
  /\ syncRun' = IdleSync /\ lastRun' = NoLastRun
  /\ UNCHANGED <<calEvents, calNow, humanOpen, calSerial, calMoves>>

\* conductr sync schedule-test: the events are read and the first slot taken.
StartTest(tag) ==
  /\ syncRun.at = "idle" /\ calMoves < MaxMoves /\ calMoves' = calMoves + 1
  /\ syncRun' = [at |-> "test", repo |-> tag, dry |-> FALSE, now |-> calNow, seen |-> Upcoming,
                 calm |-> TRUE]
  /\ UNCHANGED <<calEvents, calNow, humanOpen, lastRun, calSerial>>

PlaceTest ==
  LET slots == EligibleSlots(syncRun.seen, {}, syncRun.now, syncRun.repo)
      slot == Earliest(slots)
  IN  /\ syncRun.at = "test" /\ syncRun' = IdleSync
      /\ IF slots = {} THEN UNCHANGED <<calEvents, calSerial>>
         ELSE /\ calSerial + 1 \in EventIds /\ calSerial' = calSerial + 1
              /\ calEvents' = calEvents \cup
                   {[id |-> calSerial + 1, kind |-> "test", tags |-> {}, cid |-> 0,
                     start |-> slot.start, end |-> slot.end,
                     orig |-> slot.start]}
      /\ lastRun' = NoLastRun /\ UNCHANGED <<calNow, humanOpen, calMoves>>

-----------------------------------------------------------------------------
(* People.                                                                 *)

\* A run that something happened beside, or after, promises nothing.
Disturb ==
  /\ calMoves < MaxMoves /\ calMoves' = calMoves + 1 /\ lastRun' = NoLastRun
  /\ syncRun' = IF syncRun.at = "idle" THEN syncRun ELSE [syncRun EXCEPT !.calm = FALSE]

MoveEvent(e, start) ==
  /\ Disturb /\ start # e.start /\ start + (e.end - e.start) <= Horizon
  /\ calEvents' = (calEvents \ {e}) \cup {[e EXCEPT !.start = start, !.end = start + (e.end - e.start)]}
  /\ UNCHANGED <<calNow, humanOpen, calSerial>>

DropEvent(e) ==
  /\ Disturb /\ calEvents' = calEvents \ {e} /\ UNCHANGED <<calNow, humanOpen, calSerial>>

CloseHuman(r, n) ==
  /\ Disturb /\ n \in humanOpen[r]
  /\ humanOpen' = [humanOpen EXCEPT ![r] = @ \ {n}] /\ UNCHANGED <<calEvents, calNow, calSerial>>

\* A run keeps the clock it started with.
Tick ==
  /\ "tick" \in CalHazards /\ syncRun.at = "idle"
  /\ calNow < Horizon /\ calNow' = calNow + 1
  /\ lastRun' = NoLastRun
  /\ UNCHANGED <<calEvents, humanOpen, syncRun, calSerial, calMoves>>

SyncStep ==
  \/ \E r \in CalRepos : StartSync(r, FALSE)
  \/ ReadHumanIssues \/ KeepSlot \/ DeleteStale \/ Place \/ RemoveOrphan \/ FinishSync

CalNext ==
  \/ SyncStep
  \/ "dryRun" \in CalHazards /\ \E r \in CalRepos : StartSync(r, TRUE)
  \/ SyncFails
  \/ \E tag \in {CalTag[r] : r \in CalRepos} \cup {"*"} : StartTest(tag)
  \/ PlaceTest
  \/ \E e \in calEvents : DropEvent(e) \/ \E t \in MoveTimes : MoveEvent(e, t)
  \/ \E r \in CalRepos, n \in HumanNumbers : CloseHuman(r, n)
  \/ Tick

CalSpec == CalInit /\ [][CalNext]_calVars

-----------------------------------------------------------------------------
(* Properties.                                                             *)

\* An issue has its decision: one that somebody has moved, or that lies in a
\* window that takes the tag.
Settled(n, events, tag) ==
  \E e \in DecisionsOf(n, events) : Dragged(e) \/ InEligibleWindow(e, events, tag)

\* Of the half hours of the windows none was free of the events that were seen.
NoneFree(events, seen, now, tag) ==
  \A s \in UNION {SlotsOf(w) : w \in Accepting(events, tag)} :
    \/ s.start < now \/ Blocked(s, events)
    \/ \E d \in OfKind(seen, SlotKinds) : Overlaps(s, d)

\* reconcile after a run that nothing disturbed: every open human issue has its
\* decision, or is reported as having no slot and no free half hour was listed;
\* and no decision is left for an issue that is not open.  It stays so while the
\* repository is synced again.
RunReconciles ==
  lastRun.undisturbed =>
    LET r == lastRun.repo
    IN  /\ \A n \in humanOpen[r] :
             \/ Settled(n, Upcoming, CalTag[r])
             \/ /\ n \in lastRun.unschedulable
                /\ NoneFree(Upcoming, lastRun.seen, calNow, CalTag[r])
        /\ \A e \in OfKind(Upcoming, {"decision"}) : e.cid \in humanOpen[r]

Created == calEvents' \ calEvents
Taken == IF syncRun.at = "test" THEN {} ELSE syncRun.occupied

\* What a run creates lies in a window it listed that takes its tag, on no
\* blocker it listed, not before its clock, and on no event that it listed other
\* than a decision it keeps, whether it deleted that event meanwhile or not.  A
\* decision it keeps and one it created itself do not hold their half hour in the
\* code (occupied_ids): that is NoDoubleBooking, which does not hold.
CreatedWhereAllowed ==
  [][\A e \in {e \in Created : calSerial' # calSerial} :
       /\ e.start >= syncRun.now
       /\ InEligibleWindow(e, syncRun.seen,
                           IF syncRun.at = "test" THEN syncRun.repo ELSE CalTag[syncRun.repo])
       /\ \A d \in OfKind(syncRun.seen, SlotKinds) : Overlaps(e, d) => d.id \in Taken]_calVars

\* The decisions, tests and reviews a run knows of: it listed them, or made them.
KnownEvents == {d \in OfKind(calEvents, SlotKinds) : d \in syncRun.seen \/ d.id \in Taken}

\* All scheduled events, of any kind, count as occupied (the comment over
\* all_scheduled, reconcile.rs): nothing is created on one that the run listed or
\* created itself.  The code gives a half hour away twice: the events are those
\* listed at the start, and the ones kept or created since do not occupy theirs.
NoDoubleBooking ==
  [][\A e \in {e \in Created : calSerial' # calSerial} :
       \A d \in KnownEvents : ~ Overlaps(e, d)]_calVars

\* Manual time-drags are respected: no run deletes a decision that it read at
\* another time than it was scheduled for, while its issue is open in the
\* repository that is synced; nor does it touch windows, blockers and tests, or
\* anything in a dry run.
DragsRespected ==
  [][calMoves' = calMoves =>
       \A e \in calEvents \ calEvents' :
         /\ e.kind = "decision" /\ ~ syncRun.dry
         /\ e.cid \in humanOpen[syncRun.repo] /\ e \in syncRun.seen => ~ Dragged(e)]_calVars
=============================================================================
