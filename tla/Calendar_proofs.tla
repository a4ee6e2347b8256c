--------------------------- MODULE Calendar_proofs ---------------------------
(***************************************************************************)
(* conductr sync, for any repositories, calendars and issues: what a run   *)
(* creates, what it deletes and what it leaves behind.                     *)
(***************************************************************************)
EXTENDS Calendar, WellFoundedInduction, FiniteSetTheorems, TLAPS

Reads ==
  [at : {"issues", "decide"}, repo : CalRepos, dry : BOOLEAN, now : Nat,
   seen : SUBSET CalendarEvents, todo : SUBSET HumanNumbers, open : SUBSET HumanNumbers,
   occupied : SUBSET Nat, cleared : BOOLEAN, undone : SUBSET HumanNumbers,
   removed : SUBSET Nat, calm : BOOLEAN]

Tests ==
  [at : {"test"}, repo : {CalTag[r] : r \in CalRepos} \cup {"*"}, dry : {FALSE},
   now : Nat, seen : SUBSET CalendarEvents, calm : BOOLEAN]

LastRuns ==
  [repo : CalRepos \cup {"none"}, undisturbed : BOOLEAN, unschedulable : SUBSET HumanNumbers,
   seen : SUBSET CalendarEvents]

CalTypes ==
  /\ calEvents \in SUBSET CalendarEvents /\ calNow \in Nat
  /\ humanOpen \in [CalRepos -> SUBSET HumanNumbers]
  /\ syncRun \in {IdleSync} \cup Reads \cup Tests
  /\ lastRun \in LastRuns
  /\ calSerial \in Nat /\ calMoves \in Nat

Seen == IF syncRun.at = "idle" THEN {} ELSE syncRun.seen

\* An event is known by its id, which is given once: two views of the calendar
\* differ in when it is, never in what it is.
SameIds(E, F) == \A e \in E, o \in F : e.id = o.id => e.kind = o.kind /\ e.cid = o.cid

IdsInv ==
  /\ \A e \in calEvents \cup Seen : e.id <= calSerial /\ e.start <= e.end
  /\ \A e, o \in calEvents : e.id = o.id => e = o
  /\ \A e, o \in Seen : e.id = o.id => e = o
  /\ SameIds(calEvents, Seen)

\* What decides where events may be.
Frame(E) == OfKind(E, {"window", "blocked"})

\* What a run that is under way has read: issues only close, and what it keeps
\* is the decision of an open one.
ReadInv ==
  syncRun.at \in {"issues", "decide"} =>
    /\ syncRun.now = calNow /\ syncRun.todo \subseteq syncRun.open
    /\ syncRun.at = "issues" => syncRun.open = {} /\ syncRun.occupied = {}
    /\ syncRun.at = "decide" => humanOpen[syncRun.repo] \subseteq syncRun.open
    /\ \A e \in Seen : e.id \in syncRun.occupied => e.cid \in syncRun.open
    /\ \A i \in syncRun.removed : \E e \in Seen : e.id = i

\* A run that nobody disturbs knows the calendar but for what it did itself: it
\* made decisions of issues it is done with and deleted the decisions it meant to.
CalmInv ==
  syncRun.at \in {"issues", "decide"} /\ syncRun.calm =>
    /\ syncRun.at = "decide" => humanOpen[syncRun.repo] = syncRun.open
    /\ Frame(syncRun.seen) = Frame(Upcoming)
    /\ \A e \in Upcoming : e \in syncRun.seen
         \/ /\ e.kind = "decision" /\ e.cid \in syncRun.open \ syncRun.todo
            /\ \A o \in syncRun.seen : o.id # e.id
    /\ syncRun.at = "issues" => syncRun.seen \subseteq Upcoming
    /\ \A n \in syncRun.todo : DecisionsOf(n, syncRun.seen) \subseteq Upcoming
                               \/ (syncRun.cleared /\ n = NextIssue)

\* The issues it is done with have their decision or no slot, and what it has
\* removed is gone.
DoneInv ==
  syncRun.at \in {"issues", "decide"} /\ syncRun.calm /\ ~ syncRun.dry =>
    /\ \A n \in syncRun.open \ syncRun.todo :
         \/ Settled(n, Upcoming, CalTag[syncRun.repo])
         \/ n \in syncRun.undone /\ NoneFree(Upcoming, syncRun.seen, calNow, CalTag[syncRun.repo])
    /\ \A e \in calEvents : e.id \notin syncRun.removed

\* While a run's result stands, the next run is of the same repository, and calm.
StandsInv ==
  lastRun.undisturbed =>
    /\ lastRun.repo \in CalRepos
    /\ syncRun.at \in {"issues", "decide"} => syncRun.repo = lastRun.repo /\ syncRun.calm

CalInv == CalTypes /\ IdsInv /\ ReadInv /\ CalmInv /\ DoneInv /\ StandsInv /\ RunReconciles

-----------------------------------------------------------------------------
(* The choices of a run: the next issue, the first slot.                   *)

LEMMA LeastOf ==
  ASSUME NEW S \in SUBSET Nat, S # {}
  PROVE  \E k \in S : \A j \in S : ~ (j < k)
<1>1. PICK k \in S : \A j \in S : <<j, k>> \notin OpToRel(<, Nat)
  BY NatLessThanWellFounded, WFMin, Zenon
<1>2. \A j \in S : ~ (j < k) BY <1>1 DEF OpToRel
<1> QED BY <1>2

LEMMA MostUrgentIsOne ==
  ASSUME NEW issues \in SUBSET HumanNumbers, issues # {}
  PROVE  MostUrgent(issues) \in issues
<1> DEFINE First(T) == \E n \in T : \A m \in T \ {n} : MoreUrgent(n, m)
           Sizes == {k \in Nat : \E T \in SUBSET HumanNumbers :
                                   T # {} /\ ~ First(T) /\ Cardinality(T) = k}
<1>1. \A T \in SUBSET HumanNumbers : IsFiniteSet(T) /\ Cardinality(T) \in Nat
  BY CalAssumption, FS_Subset, FS_CardinalityType
<1>2. SUFFICES ASSUME Sizes # {} PROVE FALSE
  <2>1. CASE First(issues) BY <2>1 DEF MostUrgent
  <2> QED BY <1>1, <1>2, <2>1
<1>3. PICK k \in Sizes : \A j \in Sizes : ~ (j < k) BY <1>2, LeastOf
<1>4. PICK T \in SUBSET HumanNumbers : T # {} /\ ~ First(T) /\ Cardinality(T) = k
  BY <1>3
<1>5. PICK x \in T : TRUE BY <1>4
<1> DEFINE U == T \ {x}
<1>6. Cardinality(U) = k - 1 /\ k \in Nat /\ k - 1 < k
  BY <1>1, <1>4, <1>5, FS_RemoveElement
<1>7. U # {} BY <1>4, <1>5
<1>8. Cardinality(U) \in Nat BY <1>1
<1>9. First(U)
  <2>1. Cardinality(U) \notin Sizes BY <1>3, <1>6
  <2> QED BY <1>7, <1>8, <2>1
<1>10. PICK y \in U : \A m \in U \ {y} : MoreUrgent(y, m) BY <1>9
<1>11. x \in HumanNumbers /\ y \in HumanNumbers /\ x # y BY <1>5, <1>10
<1>12. \A a, b \in HumanNumbers : a # b => MoreUrgent(a, b) \/ MoreUrgent(b, a)
  BY CalAssumption DEF MoreUrgent
<1>13. \A a, b, c \in HumanNumbers : MoreUrgent(a, b) /\ MoreUrgent(b, c) => MoreUrgent(a, c)
  BY CalAssumption DEF MoreUrgent
<1>14. CASE MoreUrgent(x, y)
  <2>1. \A m \in T \ {x} : MoreUrgent(x, m) BY <1>10, <1>11, <1>13, <1>14
  <2> QED BY <1>4, <1>5, <2>1
<1>15. CASE MoreUrgent(y, x)
  <2>1. \A m \in T \ {y} : MoreUrgent(y, m) BY <1>10, <1>15
  <2> QED BY <1>4, <1>10, <2>1
<1> QED BY <1>11, <1>12, <1>14, <1>15

LEMMA EarliestIsOne ==
  ASSUME NEW slots, slots # {}, \A s \in slots : s.start \in Nat
  PROVE  Earliest(slots) \in slots
<1> DEFINE Starts == {s.start : s \in slots}
<1>1. Starts \subseteq Nat /\ Starts # {} OBVIOUS
<1>2. PICK k \in Starts : \A j \in Starts : ~ (j < k) BY <1>1, LeastOf
<1>3. \A j \in Starts : k <= j
  <2> HIDE DEF Starts
  <2> QED BY <1>1, <1>2
<1>4. PICK s \in slots : s.start = k BY <1>2
<1>5. \A o \in slots : s.start <= o.start BY <1>3, <1>4
<1> QED BY <1>4, <1>5 DEF Earliest

\* A slot that is found lies in a window of those read that takes the tag, and
\* meets nothing of what was read that the run did not keep.
LEMMA SlotIsAllowed ==
  ASSUME NEW E \in SUBSET CalendarEvents, NEW occupied, NEW now \in Nat, NEW tag,
         EligibleSlots(E, occupied, now, tag) # {},
         NEW slot, slot = Earliest(EligibleSlots(E, occupied, now, tag)),
         NEW e, e.start = slot.start, e.end = slot.end
  PROVE  /\ slot.start \in Nat /\ slot.end \in Nat /\ now <= slot.start /\ slot.start < slot.end
         /\ InEligibleWindow(e, E, tag)
         /\ \A d \in OfKind(E, SlotKinds) : Overlaps(e, d) => d.id \in occupied
<1> DEFINE slots == EligibleSlots(E, occupied, now, tag)
<1>1. ASSUME NEW s \in slots
      PROVE  \E w \in Accepting(E, tag) :
               /\ s \in SlotsOf(w) /\ ~ Blocked(s, E) /\ s.start >= now
               /\ \A d \in OfKind(E, SlotKinds) : d.id \in occupied \/ ~ Overlaps(s, d)
  <2>1. PICK f \in CalFreeSlots(E, occupied, now) : WindowMatches(f.tags, tag) /\ s = f.slot
    BY DEF EligibleSlots
  <2>2. PICK w \in OfKind(E, {"window"}) :
          f \in {[slot |-> t, tags |-> w.tags] :
                   t \in {t \in SlotsOf(w) : ~ Blocked(t, E) /\ t.start >= now
                     /\ \A d \in OfKind(E, SlotKinds) : d.id \in occupied \/ ~ Overlaps(t, d)}}
    BY <2>1 DEF CalFreeSlots
  <2>3. f.tags = w.tags /\ s \in {t \in SlotsOf(w) : ~ Blocked(t, E) /\ t.start >= now
                     /\ \A d \in OfKind(E, SlotKinds) : d.id \in occupied \/ ~ Overlaps(t, d)}
    BY <2>1, <2>2
  <2>4. w \in Accepting(E, tag) BY <2>1, <2>3 DEF Accepting
  <2> QED BY <2>3, <2>4
<1>2. ASSUME NEW w \in Accepting(E, tag), NEW s \in SlotsOf(w)
      PROVE  /\ s.start \in Nat /\ s.end \in Nat /\ w.start <= s.start /\ s.end <= w.end
             /\ s.start < s.end
  <2>1. w.start \in Nat /\ w.end \in Nat BY DEF Accepting, OfKind, CalendarEvents
  <2>2. PICK k \in 0..Horizon :
          /\ w.start + SlotLen * (k + 1) <= w.end
          /\ s = [start |-> w.start + SlotLen * k, end |-> w.start + SlotLen * (k + 1)]
    BY DEF SlotsOf
  <2> QED BY <2>1, <2>2 DEF SlotLen
<1>3. \A s \in slots : s.start \in Nat BY <1>1, <1>2
<1>4. slot \in slots BY <1>3, EarliestIsOne
<1> HIDE DEF slots
<1>5. PICK w \in Accepting(E, tag) :
        /\ slot \in SlotsOf(w) /\ ~ Blocked(slot, E) /\ slot.start >= now
        /\ \A d \in OfKind(E, SlotKinds) : d.id \in occupied \/ ~ Overlaps(slot, d)
  BY <1>1, <1>4
<1>6. /\ slot.start \in Nat /\ slot.end \in Nat /\ w.start <= slot.start /\ slot.end <= w.end
      /\ slot.start < slot.end
  BY <1>2, <1>5
<1>7. InEligibleWindow(e, E, tag)
  <2>1. ~ Blocked(e, E) BY <1>5 DEF Blocked, Overlaps
  <2> QED BY <1>5, <1>6, <2>1 DEF InEligibleWindow
<1>8. \A d \in OfKind(E, SlotKinds) : Overlaps(e, d) => d.id \in occupied
  BY <1>5 DEF Overlaps
<1> QED BY <1>5, <1>6, <1>7, <1>8

\* Windows and blockers alone decide where events may be.
LEMMA FrameDecides ==
  ASSUME NEW E, NEW F, Frame(E) = Frame(F)
  PROVE  /\ \A s : Blocked(s, E) = Blocked(s, F)
         /\ \A tag : Accepting(E, tag) = Accepting(F, tag)
         /\ \A e, tag : InEligibleWindow(e, E, tag) = InEligibleWindow(e, F, tag)
<1>1. OfKind(E, {"window"}) = OfKind(F, {"window"}) BY DEF Frame, OfKind
<1>2. OfKind(E, {"blocked"}) = OfKind(F, {"blocked"}) BY DEF Frame, OfKind
<1>3. \A s : Blocked(s, E) = Blocked(s, F) BY <1>2 DEF Blocked
<1>4. \A tag : Accepting(E, tag) = Accepting(F, tag) BY <1>1 DEF Accepting
<1> QED BY <1>3, <1>4 DEF InEligibleWindow

\* Where no slot can be had of what was read, none was free.
LEMMA NoSlotNoneFree ==
  ASSUME NEW E, NEW F, Frame(E) = Frame(F), NEW occupied, NEW now \in Nat, NEW tag,
         EligibleSlots(E, occupied, now, tag) = {}, E \in SUBSET CalendarEvents
  PROVE  NoneFree(F, E, now, tag)
<1> SUFFICES ASSUME NEW w \in Accepting(F, tag), NEW s \in SlotsOf(w), s.start >= now,
                    ~ Blocked(s, F), \A d \in OfKind(E, SlotKinds) : ~ Overlaps(s, d)
             PROVE  FALSE
  <2>1. ASSUME NEW w \in Accepting(F, tag), NEW s \in SlotsOf(w) PROVE s.start \in Nat
    <3>1. w \in Accepting(E, tag) BY FrameDecides
    <3>2. w.start \in Nat BY <3>1 DEF Accepting, OfKind, CalendarEvents
    <3> QED BY <3>2 DEF SlotsOf, SlotLen
  <2> QED BY <2>1 DEF NoneFree
<1>1. w \in Accepting(E, tag) /\ ~ Blocked(s, E) BY FrameDecides
<1>2. w \in OfKind(E, {"window"}) /\ WindowMatches(w.tags, tag) BY <1>1 DEF Accepting
<1> DEFINE f == [slot |-> s, tags |-> w.tags]
<1>3. f \in CalFreeSlots(E, occupied, now) BY <1>1, <1>2 DEF CalFreeSlots
<1>4. f.slot \in EligibleSlots(E, occupied, now, tag) BY <1>2, <1>3 DEF EligibleSlots
<1> QED BY <1>4

\* A decision that settles an issue settles it as long as it is not deleted.
LEMMA SettledStays ==
  ASSUME NEW E, NEW F, Frame(E) = Frame(F), NEW n, NEW tag, Settled(n, E, tag),
         \A e \in DecisionsOf(n, E) : Dragged(e) \/ InEligibleWindow(e, E, tag) => e \in F
  PROVE  Settled(n, F, tag)
<1>1. PICK e \in DecisionsOf(n, E) : Dragged(e) \/ InEligibleWindow(e, E, tag)
  BY DEF Settled
<1>2. e \in DecisionsOf(n, F) BY <1>1 DEF DecisionsOf, OfKind
<1> QED BY <1>1, <1>2, FrameDecides DEF Settled

LEMMA NoneFreeStays ==
  ASSUME NEW E, NEW F, Frame(E) = Frame(F), NEW seen, NEW now, NEW tag,
         NoneFree(E, seen, now, tag)
  PROVE  NoneFree(F, seen, now, tag)
BY FrameDecides DEF NoneFree

-----------------------------------------------------------------------------
(* Initial states, types and ids.                                          *)

LEMMA NothingRan == NoLastRun \in LastRuns /\ ~ NoLastRun.undisturbed
<1>1. NoLastRun \in LastRuns BY DEF NoLastRun, LastRuns
<1>2. NoLastRun.undisturbed = FALSE BY DEF NoLastRun
<1> QED BY <1>1, <1>2

LEMMA SeenEvents == CalTypes => Seen \subseteq CalendarEvents
<1> SUFFICES ASSUME CalTypes PROVE Seen \subseteq CalendarEvents OBVIOUS
<1>1. CASE syncRun = IdleSync BY <1>1 DEF Seen, IdleSync
<1>2. CASE syncRun \in Reads BY <1>2 DEF Seen, Reads
<1>3. CASE syncRun \in Tests BY <1>3 DEF Seen, Tests
<1> QED BY <1>1, <1>2, <1>3 DEF CalTypes

LEMMA CalInitInv == CalInit => CalInv
<1> SUFFICES ASSUME CalInit PROVE CalInv OBVIOUS
<1>1. /\ IsFiniteSet(calEvents) /\ calEvents \subseteq CalendarEvents
      /\ \A e \in calEvents : e.id \in 1..Cardinality(calEvents) /\ e.start <= e.end
      /\ \A e, o \in calEvents : e.id = o.id => e = o
  BY CalAssumption DEF CalInit
<1>2. calSerial \in Nat BY <1>1, FS_CardinalityType DEF CalInit
<1>3. lastRun \in LastRuns /\ ~ lastRun.undisturbed BY NothingRan DEF CalInit
<1>4. syncRun.at = "idle" BY DEF CalInit, IdleSync
<1>5. CalTypes BY <1>1, <1>2, <1>3 DEF CalTypes, CalInit
<1>6. Seen = {} BY <1>4 DEF Seen
<1>7. IdsInv BY <1>1, <1>6 DEF IdsInv, SameIds, CalInit
<1>8. ReadInv /\ CalmInv /\ DoneInv BY <1>4 DEF ReadInv, CalmInv, DoneInv
<1>9. StandsInv /\ RunReconciles BY <1>3 DEF StandsInv, RunReconciles
<1> QED BY <1>5, <1>7, <1>8, <1>9 DEF CalInv

\* A step that creates nothing and lists only what is in the calendar.
LEMMA IdsStay ==
  ASSUME IdsInv, calSerial' = calSerial, calEvents' \subseteq calEvents,
         Seen' \subseteq Seen \/ (Seen' \subseteq calEvents)
  PROVE  IdsInv'
BY DEF IdsInv, SameIds

\* A new event has an id that no event had.
LEMMA IdsGrow ==
  ASSUME CalTypes, IdsInv, Seen' \subseteq Seen, calSerial' = calSerial + 1,
         NEW e \in CalendarEvents, e.id = calSerial + 1, e.start <= e.end,
         calEvents' = calEvents \cup {e}
  PROVE  IdsInv'
<1>1. \A o \in calEvents \cup Seen : o.id <= calSerial /\ o.start <= o.end BY DEF IdsInv
<1>2. \A o \in calEvents \cup Seen : o.id \in Nat
  <2>1. Seen \subseteq CalendarEvents BY SeenEvents
  <2> QED BY <2>1 DEF CalTypes, CalendarEvents
<1>3. calSerial \in Nat BY DEF CalTypes
<1>4. \A o \in calEvents \cup Seen : o.id # e.id /\ o.id <= calSerial + 1
  BY <1>1, <1>2, <1>3
<1>5. \A o \in (calEvents \cup Seen)' : o.id <= calSerial' /\ o.start <= o.end
  BY <1>1, <1>3, <1>4
<1>6. \A a, o \in calEvents' : a.id = o.id => a = o BY <1>4 DEF IdsInv
<1>7. \A a, o \in Seen' : a.id = o.id => a = o BY DEF IdsInv
<1>8. SameIds(calEvents', Seen') BY <1>4 DEF IdsInv, SameIds
<1> QED BY <1>5, <1>6, <1>7, <1>8 DEF IdsInv

-----------------------------------------------------------------------------
(* A run that reads.                                                       *)

LEMMA RunIs ==
  ASSUME CalTypes
  PROVE  /\ syncRun.at \in {"issues", "decide"} => syncRun \in Reads /\ Seen = syncRun.seen
         /\ syncRun.at = "test" => syncRun \in Tests /\ Seen = syncRun.seen
         /\ syncRun.at = "idle" => syncRun = IdleSync
<1>1. CASE syncRun = IdleSync BY <1>1 DEF Seen, IdleSync
<1>2. CASE syncRun \in Reads BY <1>2 DEF Seen, Reads
<1>3. CASE syncRun \in Tests BY <1>3 DEF Seen, Tests
<1> QED BY <1>1, <1>2, <1>3 DEF CalTypes

\* Without a step on the calendar, the clock or the issues the last result stands.
LEMMA ResultStands ==
  ASSUME RunReconciles, UNCHANGED <<calEvents, calNow, humanOpen, lastRun>>
  PROVE  RunReconciles'
BY DEF RunReconciles, Upcoming

LEMMA StartSyncKeeps ==
  ASSUME CalInv, NEW repo \in CalRepos, NEW dry \in BOOLEAN, StartSync(repo, dry)
  PROVE  CalInv'
<1> USE DEF CalInv
<1>1. Upcoming \in SUBSET CalendarEvents /\ Upcoming \subseteq calEvents
  BY DEF CalTypes, Upcoming
<1>2. syncRun' \in Reads BY <1>1 DEF StartSync, CalTypes, Reads
<1>3. /\ syncRun'.at = "issues" /\ syncRun'.repo = repo /\ syncRun'.now = calNow
      /\ syncRun'.seen = Upcoming /\ syncRun'.todo = {} /\ syncRun'.open = {}
      /\ syncRun'.occupied = {} /\ syncRun'.removed = {} /\ syncRun'.calm
  BY DEF StartSync
<1>4. UNCHANGED <<calEvents, calNow, humanOpen, calSerial, calMoves>> BY DEF StartSync
<1>5. lastRun' = IF repo = lastRun.repo THEN lastRun ELSE NoLastRun BY DEF StartSync
<1>6. CalTypes' BY <1>2, <1>4, <1>5, NothingRan DEF CalTypes
<1>7. Seen' = Upcoming /\ Upcoming' = Upcoming BY <1>3, <1>4 DEF Seen, Upcoming
<1>8. IdsInv' BY <1>1, <1>4, <1>7, IdsStay
<1>9. ReadInv' BY <1>3, <1>4, <1>7 DEF ReadInv
<1>10. CalmInv' BY <1>3, <1>7 DEF CalmInv
<1>11. DoneInv' BY <1>3 DEF DoneInv
<1>12. CASE repo = lastRun.repo
  <2>1. lastRun' = lastRun BY <1>5, <1>12
  <2>2. RunReconciles' BY <2>1, <1>4, ResultStands
  <2>3. StandsInv' BY <2>1, <1>3, <1>12 DEF StandsInv
  <2> QED BY <2>2, <2>3, <1>6, <1>8, <1>9, <1>10, <1>11
<1>13. CASE repo # lastRun.repo
  <2>1. ~ lastRun'.undisturbed BY <1>5, <1>13, NothingRan
  <2>2. RunReconciles' /\ StandsInv' BY <2>1 DEF RunReconciles, StandsInv
  <2> QED BY <2>2, <1>6, <1>8, <1>9, <1>10, <1>11
<1> QED BY <1>12, <1>13

LEMMA ReadHumanIssuesKeeps == CalInv /\ ReadHumanIssues => CalInv'
<1> SUFFICES ASSUME CalInv, ReadHumanIssues PROVE CalInv' OBVIOUS
<1> USE DEF CalInv
<1> DEFINE open == humanOpen[syncRun.repo]
<1>1. syncRun \in Reads /\ Seen = syncRun.seen /\ syncRun.at = "issues"
  BY RunIs DEF ReadHumanIssues
<1>2. open \in SUBSET HumanNumbers BY <1>1 DEF CalTypes, Reads
<1>3. syncRun' = [syncRun EXCEPT !.at = "decide", !.open = open, !.todo = open]
  BY DEF ReadHumanIssues
<1>4. UNCHANGED <<calEvents, calNow, humanOpen, lastRun, calSerial, calMoves>>
  BY DEF ReadHumanIssues
<1> HIDE DEF open
<1>5. syncRun' \in Reads BY <1>1, <1>2, <1>3 DEF Reads
<1>6. /\ syncRun'.at = "decide" /\ syncRun'.open = open /\ syncRun'.todo = open
      /\ syncRun'.repo = syncRun.repo /\ syncRun'.now = syncRun.now
      /\ syncRun'.seen = syncRun.seen /\ syncRun'.occupied = syncRun.occupied
      /\ syncRun'.removed = syncRun.removed /\ syncRun'.calm = syncRun.calm
      /\ syncRun'.dry = syncRun.dry
  BY <1>1, <1>3 DEF Reads
<1>7. CalTypes' BY <1>4, <1>5 DEF CalTypes
<1>8. Seen' = Seen /\ Upcoming' = Upcoming BY <1>1, <1>4, <1>6 DEF Seen, Upcoming
<1>9. IdsInv' BY <1>4, <1>8, IdsStay
<1>10. ReadInv'
  <2>1. open = humanOpen'[syncRun'.repo] BY <1>4, <1>6 DEF open
  <2> QED BY <2>1, <1>1, <1>4, <1>6, <1>8 DEF ReadInv
<1>11. CalmInv'
  <2> SUFFICES ASSUME syncRun.calm PROVE CalmInv' BY <1>6 DEF CalmInv
  <2>1. open = humanOpen'[syncRun'.repo] BY <1>4, <1>6 DEF open
  <2>2. syncRun.seen \subseteq Upcoming /\ Frame(syncRun.seen) = Frame(Upcoming)
    BY <1>1 DEF CalmInv
  <2>3. \A e \in Upcoming : e \in syncRun.seen BY <1>1 DEF CalmInv, ReadInv
  <2>4. \A n \in syncRun'.todo : DecisionsOf(n, syncRun'.seen) \subseteq Upcoming'
    BY <2>2, <1>6, <1>8 DEF DecisionsOf, OfKind
  <2> QED BY <2>1, <2>2, <2>3, <2>4, <1>6, <1>8 DEF CalmInv
<1>12. DoneInv' BY <1>1, <1>4, <1>6 DEF DoneInv
<1>13. RunReconciles' BY <1>4, ResultStands
<1>14. StandsInv' BY <1>1, <1>4, <1>6 DEF StandsInv
<1> QED BY <1>7, <1>9, <1>10, <1>11, <1>12, <1>13, <1>14

LEMMA KeepSlotKeeps == CalInv /\ KeepSlot => CalInv'
<1> SUFFICES ASSUME CalInv, KeepSlot PROVE CalInv' OBVIOUS
<1> USE DEF CalInv
<1>1. syncRun \in Reads /\ Seen = syncRun.seen /\ syncRun.at = "decide"
  BY RunIs DEF KeepSlot
<1>2. PICK e \in Existing :
        /\ Dragged(e) \/ InEligibleWindow(e, syncRun.seen, CalTag[syncRun.repo])
        /\ syncRun' = [syncRun EXCEPT !.todo = @ \ {NextIssue}, !.occupied = @ \cup {e.id}]
  BY Zenon DEF KeepSlot
<1>3. UNCHANGED <<calEvents, calNow, humanOpen, lastRun, calSerial, calMoves>> BY DEF KeepSlot
<1>4. NextIssue \in syncRun.todo BY <1>1, MostUrgentIsOne DEF KeepSlot, NextIssue, Reads
<1>5. /\ e \in syncRun.seen /\ e.kind = "decision" /\ e.cid = NextIssue
      /\ e.id \in Nat
  BY <1>1 DEF Existing, DecisionsOf, OfKind, Reads, CalendarEvents
<1>6. /\ syncRun'.at = "decide" /\ syncRun'.open = syncRun.open
      /\ syncRun'.todo = syncRun.todo \ {NextIssue}
      /\ syncRun'.repo = syncRun.repo /\ syncRun'.now = syncRun.now
      /\ syncRun'.seen = syncRun.seen /\ syncRun'.occupied = syncRun.occupied \cup {e.id}
      /\ syncRun'.removed = syncRun.removed /\ syncRun'.calm = syncRun.calm
      /\ syncRun'.dry = syncRun.dry /\ syncRun'.undone = syncRun.undone
  BY <1>1, <1>2 DEF Reads
<1>7. syncRun' \in Reads BY <1>1, <1>2, <1>5 DEF Reads
<1>8. CalTypes' BY <1>3, <1>7 DEF CalTypes
<1>9. Seen' = Seen /\ Upcoming' = Upcoming BY <1>1, <1>3, <1>6 DEF Seen, Upcoming
<1>10. IdsInv' BY <1>3, <1>9, IdsStay
<1>11. ReadInv'
  <2>1. \A o \in Seen : o.id = e.id => o.cid = NextIssue BY <1>1, <1>5 DEF IdsInv
  <2>2. \A o \in Seen' : o.id \in syncRun'.occupied => o.cid \in syncRun'.open
    BY <2>1, <1>1, <1>4, <1>6, <1>9 DEF ReadInv
  <2> QED BY <2>2, <1>1, <1>3, <1>6, <1>9 DEF ReadInv
<1>12. CalmInv'
  <2> SUFFICES ASSUME syncRun.calm PROVE CalmInv' BY <1>6 DEF CalmInv
  <2>1. ~ syncRun.cleared BY DEF KeepSlot
  <2>2. \A n \in syncRun'.todo : DecisionsOf(n, syncRun'.seen) \subseteq Upcoming'
    BY <2>1, <1>1, <1>6, <1>9 DEF CalmInv
  <2> QED BY <2>2, <1>1, <1>3, <1>6, <1>9 DEF CalmInv
<1>13. DoneInv'
  <2> SUFFICES ASSUME syncRun.calm, ~ syncRun.dry PROVE DoneInv' BY <1>6 DEF DoneInv
  <2> DEFINE tag == CalTag[syncRun.repo]
  <2>1. Frame(syncRun.seen) = Frame(Upcoming) BY <1>1 DEF CalmInv
  <2>2. e \in Upcoming BY <1>1, <1>2, <1>4 DEF CalmInv, Existing, KeepSlot
  <2>3. e \in DecisionsOf(NextIssue, Upcoming) BY <2>2, <1>5 DEF DecisionsOf, OfKind
  <2>4. Settled(NextIssue, Upcoming, tag) BY <1>2, <2>1, <2>3, FrameDecides DEF Settled
  <2> HIDE DEF NextIssue
  <2> QED BY <2>4, <1>1, <1>3, <1>6, <1>9 DEF DoneInv
<1>14. RunReconciles' BY <1>3, ResultStands
<1>15. StandsInv' BY <1>1, <1>3, <1>6 DEF StandsInv
<1> QED BY <1>8, <1>10, <1>11, <1>12, <1>13, <1>14, <1>15

\* A run that ends has nothing to say of the calendar any more.
LEMMA RunEnds ==
  ASSUME CalInv, syncRun' = IdleSync, lastRun' = NoLastRun,
         UNCHANGED <<calEvents, calNow, humanOpen, calSerial, calMoves>>
  PROVE  CalInv'
<1> USE DEF CalInv
<1>1. syncRun'.at = "idle" BY DEF IdleSync
<1>2. CalTypes' BY NothingRan DEF CalTypes
<1>3. IdsInv' BY <1>1, IdsStay DEF Seen
<1>4. ReadInv' /\ CalmInv' /\ DoneInv' BY <1>1 DEF ReadInv, CalmInv, DoneInv
<1>5. RunReconciles' /\ StandsInv' BY NothingRan DEF RunReconciles, StandsInv
<1> QED BY <1>2, <1>3, <1>4, <1>5

\* What a deletion takes is a decision of the issue that was meant, and in a calm
\* run the one that was read.
LEMMA Deleted ==
  ASSUME CalInv, syncRun \in Reads, syncRun.at = "decide", Seen = syncRun.seen,
         NEW e \in syncRun.seen, e.kind = "decision", calNow' = calNow,
         calEvents' = {o \in calEvents : o.id # e.id}
  PROVE  /\ \A o \in calEvents \ calEvents' : o.kind = "decision" /\ o.cid = e.cid
         /\ \A o \in calEvents \ calEvents' : syncRun.calm /\ o \in Upcoming => o = e
         /\ Frame(Upcoming') = Frame(Upcoming)
<1> USE DEF CalInv
<1>1. \A o \in calEvents \ calEvents' : o.id = e.id OBVIOUS
<1>2. \A o \in calEvents \ calEvents' : o.kind = "decision" /\ o.cid = e.cid
  BY <1>1 DEF IdsInv, SameIds
<1>3. \A o \in calEvents \ calEvents' : syncRun.calm /\ o \in Upcoming => o = e
  BY <1>1 DEF IdsInv, CalmInv
<1>4. Frame(Upcoming') = Frame(Upcoming) BY <1>2 DEF Frame, OfKind, Upcoming
<1> QED BY <1>2, <1>3, <1>4

\* The result of the last run outlives a deletion that does not take what settles
\* an issue.
LEMMA ResultOutlives ==
  ASSUME RunReconciles, UNCHANGED <<calNow, humanOpen, lastRun>>,
         Frame(Upcoming') = Frame(Upcoming),
         lastRun.undisturbed =>
           \A n \in humanOpen[lastRun.repo] :
             \A e \in DecisionsOf(n, Upcoming) :
               Dragged(e) \/ InEligibleWindow(e, Upcoming, CalTag[lastRun.repo]) => e \in calEvents',
         lastRun.undisturbed =>
           \A e \in calEvents' \ calEvents :
             e.kind = "decision" => e.cid \in humanOpen[lastRun.repo]
  PROVE  RunReconciles'
<1> SUFFICES ASSUME lastRun.undisturbed PROVE RunReconciles' BY DEF RunReconciles
<1> DEFINE r == lastRun.repo
           tag == CalTag[r]
<1>1. ASSUME NEW n \in humanOpen[r]
      PROVE  Settled(n, Upcoming', tag)
             \/ (n \in lastRun.unschedulable /\ NoneFree(Upcoming', lastRun.seen, calNow, tag))
  <2>1. CASE Settled(n, Upcoming, tag)
    <3>1. \A e \in DecisionsOf(n, Upcoming) :
            Dragged(e) \/ InEligibleWindow(e, Upcoming, tag) => e \in Upcoming'
      BY DEF DecisionsOf, OfKind, Upcoming
    <3> QED BY <2>1, <3>1, SettledStays
  <2>2. CASE n \in lastRun.unschedulable /\ NoneFree(Upcoming, lastRun.seen, calNow, tag)
    BY <2>2, NoneFreeStays
  <2> QED BY <2>1, <2>2 DEF RunReconciles
<1>2. \A e \in OfKind(Upcoming', {"decision"}) : e.cid \in humanOpen[r]
  BY DEF RunReconciles, OfKind, Upcoming
<1> QED BY <1>1, <1>2 DEF RunReconciles

\* And so do the issues that the run is done with.
LEMMA DoneOutlives ==
  ASSUME DoneInv, UNCHANGED calNow,
         syncRun.at = "decide", syncRun.calm, ~ syncRun.dry,
         Frame(Upcoming') = Frame(Upcoming),
         NEW n \in syncRun.open \ syncRun.todo,
         \A e \in DecisionsOf(n, Upcoming) : e \in calEvents',
         NEW tag, tag = CalTag[syncRun.repo]
  PROVE  \/ Settled(n, Upcoming', tag)
         \/ n \in syncRun.undone /\ NoneFree(Upcoming', syncRun.seen, calNow, tag)
<1>1. CASE Settled(n, Upcoming, tag)
  <2>1. \A e \in DecisionsOf(n, Upcoming) : e \in Upcoming' BY DEF DecisionsOf, OfKind, Upcoming
  <2> QED BY <1>1, <2>1, SettledStays
<1>2. CASE n \in syncRun.undone /\ NoneFree(Upcoming, syncRun.seen, calNow, tag)
  BY <1>2, NoneFreeStays
<1> QED BY <1>1, <1>2 DEF DoneInv

LEMMA DeleteStaleKeeps == CalInv /\ DeleteStale => CalInv'
<1> SUFFICES ASSUME CalInv, DeleteStale PROVE CalInv' OBVIOUS
<1>1. syncRun \in Reads /\ Seen = syncRun.seen /\ syncRun.at = "decide"
  BY RunIs DEF DeleteStale, CalInv
<1>2. PICK e \in Existing :
        /\ ~ Dragged(e) /\ ~ InEligibleWindow(e, syncRun.seen, CalTag[syncRun.repo])
        /\ Delete(e, [syncRun EXCEPT !.cleared = TRUE])
  BY Zenon DEF DeleteStale
<1>3. UNCHANGED <<calNow, humanOpen, calSerial, calMoves>> BY DEF DeleteStale
<1>4. NextIssue \in syncRun.todo BY <1>1, MostUrgentIsOne DEF DeleteStale, NextIssue, Reads
<1>5. e \in syncRun.seen /\ e.kind = "decision" /\ e.cid = NextIssue
  BY DEF Existing, DecisionsOf, OfKind
<1>6. CASE syncRun' = IdleSync /\ lastRun' = NoLastRun /\ UNCHANGED calEvents
  BY <1>3, <1>6, RunEnds
<1>7. CASE /\ syncRun' = [syncRun EXCEPT !.cleared = TRUE] /\ UNCHANGED lastRun
           /\ IF syncRun.dry THEN UNCHANGED calEvents
              ELSE calEvents' = {o \in calEvents : o.id # e.id}
  <2> USE DEF CalInv
  <2>1. syncRun' \in Reads BY <1>1, <1>7 DEF Reads
  <2>2. /\ syncRun'.at = "decide" /\ syncRun'.open = syncRun.open
        /\ syncRun'.todo = syncRun.todo
        /\ syncRun'.repo = syncRun.repo /\ syncRun'.now = syncRun.now
        /\ syncRun'.seen = syncRun.seen /\ syncRun'.occupied = syncRun.occupied
        /\ syncRun'.removed = syncRun.removed /\ syncRun'.calm = syncRun.calm
        /\ syncRun'.dry = syncRun.dry /\ syncRun'.undone = syncRun.undone /\ syncRun'.cleared
    BY <1>1, <1>7 DEF Reads
  <2>3. Seen' = Seen /\ NextIssue' = NextIssue BY <1>1, <2>2 DEF Seen, NextIssue
  <2>4. calEvents' \subseteq calEvents /\ Upcoming' \subseteq Upcoming
    BY <1>3, <1>7 DEF Upcoming
  <2>5. /\ \A o \in calEvents \ calEvents' : o.kind = "decision" /\ o.cid = NextIssue
        /\ \A o \in calEvents \ calEvents' : syncRun.calm /\ o \in Upcoming => o = e
        /\ Frame(Upcoming') = Frame(Upcoming)
    <3>1. CASE syncRun.dry BY <1>3, <1>7, <3>1 DEF Upcoming
    <3>2. CASE ~ syncRun.dry BY <1>1, <1>3, <1>5, <1>7, <3>2, Deleted
    <3> QED BY <3>1, <3>2
  <2>6. CalTypes' BY <1>3, <1>7, <2>1, <2>4 DEF CalTypes
  <2>7. IdsInv' BY <1>3, <2>3, <2>4, IdsStay
  <2>8. ReadInv' BY <1>1, <1>3, <2>2, <2>3 DEF ReadInv
  <2>9. CalmInv'
    <3> SUFFICES ASSUME syncRun.calm PROVE CalmInv' BY <2>2 DEF CalmInv
    <3>1. \A n \in syncRun'.todo : DecisionsOf(n, syncRun'.seen) \subseteq Upcoming'
                                 \/ (syncRun'.cleared /\ n = NextIssue')
      <4> SUFFICES ASSUME NEW n \in syncRun.todo, n # NextIssue
                   PROVE DecisionsOf(n, syncRun.seen) \subseteq Upcoming'
        BY <2>2, <2>3
      <4>1. DecisionsOf(n, syncRun.seen) \subseteq Upcoming BY <1>1 DEF CalmInv
      <4>2. \A o \in DecisionsOf(n, syncRun.seen) : o.cid = n BY DEF DecisionsOf
      <4> QED BY <4>1, <4>2, <1>3, <2>5 DEF Upcoming
    <3> QED BY <3>1, <1>1, <1>3, <2>2, <2>4, <2>5 DEF CalmInv
  <2>10. DoneInv'
    <3> SUFFICES ASSUME syncRun.calm, ~ syncRun.dry PROVE DoneInv' BY <2>2 DEF DoneInv
    <3> DEFINE tag == CalTag[syncRun.repo]
    <3>1. ASSUME NEW n \in syncRun.open \ syncRun.todo
          PROVE  \/ Settled(n, Upcoming', tag)
                 \/ n \in syncRun.undone /\ NoneFree(Upcoming', syncRun.seen, calNow, tag)
      <4>1. \A o \in DecisionsOf(n, Upcoming) : o \in calEvents'
        BY <1>4, <2>5 DEF DecisionsOf, OfKind, Upcoming
      <4> QED BY <4>1, <1>1, <1>3, <2>5, DoneOutlives
    <3>2. \A o \in calEvents' : o.id \notin syncRun.removed BY <1>1, <2>4 DEF DoneInv
    <3> QED BY <3>1, <3>2, <1>1, <1>3, <2>2 DEF DoneInv
  <2>11. RunReconciles'
    <3> DEFINE tag == CalTag[lastRun.repo]
    <3>1. ASSUME lastRun.undisturbed, NEW o \in Upcoming, Dragged(o) \/ InEligibleWindow(o, Upcoming, tag)
          PROVE  o \in calEvents'
      <4>1. syncRun.calm /\ syncRun.repo = lastRun.repo BY <1>1, <3>1 DEF StandsInv
      <4>2. Frame(syncRun.seen) = Frame(Upcoming) BY <1>1, <4>1 DEF CalmInv
      <4>3. o # e BY <1>2, <3>1, <4>1, <4>2, FrameDecides
      <4> QED BY <2>5, <4>1, <4>3 DEF Upcoming
    <3>2. \A n : DecisionsOf(n, Upcoming) \subseteq Upcoming BY DEF DecisionsOf, OfKind
    <3> QED BY <3>1, <3>2, <1>3, <1>7, <2>4, <2>5, ResultOutlives
  <2>12. StandsInv' BY <1>1, <1>7, <2>2 DEF StandsInv
  <2> QED BY <2>6, <2>7, <2>8, <2>9, <2>10, <2>11, <2>12
<1> QED BY <1>2, <1>6, <1>7 DEF Delete

LEMMA RemoveOrphanKeeps == CalInv /\ RemoveOrphan => CalInv'
<1> SUFFICES ASSUME CalInv, RemoveOrphan PROVE CalInv' OBVIOUS
<1>1. syncRun \in Reads /\ Seen = syncRun.seen /\ syncRun.at = "decide" /\ syncRun.todo = {}
  BY RunIs DEF RemoveOrphan, CalInv
<1>2. PICK e \in Orphans : Delete(e, [syncRun EXCEPT !.removed = @ \cup {e.id}])
  BY Zenon DEF RemoveOrphan
<1>3. UNCHANGED <<calNow, humanOpen, calSerial, calMoves>> BY DEF RemoveOrphan
<1>4. e \in syncRun.seen /\ e.kind = "decision" /\ e.cid \notin syncRun.open /\ e.id \in Nat
  BY <1>1 DEF Orphans, OfKind, Reads, CalendarEvents
<1>5. CASE syncRun' = IdleSync /\ lastRun' = NoLastRun /\ UNCHANGED calEvents
  BY <1>3, <1>5, RunEnds
<1>6. CASE /\ syncRun' = [syncRun EXCEPT !.removed = @ \cup {e.id}] /\ UNCHANGED lastRun
           /\ IF syncRun.dry THEN UNCHANGED calEvents
              ELSE calEvents' = {o \in calEvents : o.id # e.id}
  <2> USE DEF CalInv
  <2>1. syncRun' \in Reads BY <1>1, <1>4, <1>6 DEF Reads
  <2>2. /\ syncRun'.at = "decide" /\ syncRun'.open = syncRun.open
        /\ syncRun'.todo = {}
        /\ syncRun'.repo = syncRun.repo /\ syncRun'.now = syncRun.now
        /\ syncRun'.seen = syncRun.seen /\ syncRun'.occupied = syncRun.occupied
        /\ syncRun'.removed = syncRun.removed \cup {e.id} /\ syncRun'.calm = syncRun.calm
        /\ syncRun'.dry = syncRun.dry /\ syncRun'.undone = syncRun.undone
    BY <1>1, <1>6 DEF Reads
  <2>3. Seen' = Seen BY <1>1, <2>2 DEF Seen
  <2>4. calEvents' \subseteq calEvents /\ Upcoming' \subseteq Upcoming
    BY <1>3, <1>6 DEF Upcoming
  <2>5. /\ \A o \in calEvents \ calEvents' : o.kind = "decision" /\ o.cid = e.cid
        /\ Frame(Upcoming') = Frame(Upcoming)
    <3>1. CASE syncRun.dry BY <1>3, <1>6, <3>1 DEF Upcoming
    <3>2. CASE ~ syncRun.dry BY <1>1, <1>3, <1>4, <1>6, <3>2, Deleted
    <3> QED BY <3>1, <3>2
  <2>6. CalTypes' BY <1>3, <1>6, <2>1, <2>4 DEF CalTypes
  <2>7. IdsInv' BY <1>3, <2>3, <2>4, IdsStay
  <2>8. ReadInv' BY <1>1, <1>3, <1>4, <2>2, <2>3 DEF ReadInv
  <2>9. CalmInv'
    <3> SUFFICES ASSUME syncRun.calm PROVE CalmInv' BY <2>2 DEF CalmInv
    <3> QED BY <1>1, <1>3, <2>2, <2>4, <2>5 DEF CalmInv
  <2>10. DoneInv'
    <3> SUFFICES ASSUME syncRun.calm, ~ syncRun.dry PROVE DoneInv' BY <2>2 DEF DoneInv
    <3> DEFINE tag == CalTag[syncRun.repo]
    <3>1. ASSUME NEW n \in syncRun.open \ syncRun.todo
          PROVE  \/ Settled(n, Upcoming', tag)
                 \/ n \in syncRun.undone /\ NoneFree(Upcoming', syncRun.seen, calNow, tag)
      <4>1. \A o \in DecisionsOf(n, Upcoming) : o \in calEvents'
        BY <1>4, <2>5 DEF DecisionsOf, OfKind, Upcoming
      <4> QED BY <4>1, <1>1, <1>3, <2>5, DoneOutlives
    <3>2. \A o \in calEvents' : o.id \notin syncRun'.removed
      BY <1>1, <1>6, <2>2, <2>4 DEF DoneInv
    <3> QED BY <3>1, <3>2, <1>1, <1>3, <2>2 DEF DoneInv
  <2>11. RunReconciles'
    <3>1. ASSUME lastRun.undisturbed, NEW n \in humanOpen[lastRun.repo],
                 NEW o \in DecisionsOf(n, Upcoming)
          PROVE  o \in calEvents'
      <4>1. n \in syncRun.open BY <1>1, <3>1 DEF StandsInv, CalmInv
      <4>2. o \in calEvents /\ o.cid = n BY DEF DecisionsOf, OfKind, Upcoming
      <4> QED BY <4>1, <4>2, <1>4, <2>5
    <3> QED BY <3>1, <1>3, <1>6, <2>4, <2>5, ResultOutlives
  <2>12. StandsInv' BY <1>1, <1>6, <2>2 DEF StandsInv
  <2> QED BY <2>6, <2>7, <2>8, <2>9, <2>10, <2>11, <2>12
<1> QED BY <1>2, <1>5, <1>6 DEF Delete

LEMMA FinishSyncKeeps == CalInv /\ FinishSync => CalInv'
<1> SUFFICES ASSUME CalInv, FinishSync PROVE CalInv' OBVIOUS
<1> USE DEF CalInv
<1>1. syncRun \in Reads /\ Seen = syncRun.seen /\ syncRun.at = "decide" /\ syncRun.todo = {}
  BY RunIs DEF FinishSync
<1>2. UNCHANGED <<calEvents, calNow, humanOpen, calSerial, calMoves>> /\ Upcoming' = Upcoming
  BY DEF FinishSync, Upcoming
<1>3. syncRun' = IdleSync /\ syncRun'.at = "idle" BY DEF FinishSync, IdleSync
<1>4. /\ lastRun'.repo = syncRun.repo /\ lastRun'.unschedulable = syncRun.undone
      /\ lastRun'.seen = syncRun.seen
      /\ lastRun'.undisturbed = (syncRun.calm /\ ~ syncRun.dry)
      /\ lastRun' \in LastRuns
  BY <1>1 DEF FinishSync, EndSync, LastRuns, Reads
<1>5. CalTypes' BY <1>2, <1>3, <1>4 DEF CalTypes
<1>6. IdsInv' BY <1>2, <1>3, IdsStay DEF Seen
<1>7. ReadInv' /\ CalmInv' /\ DoneInv' BY <1>3 DEF ReadInv, CalmInv, DoneInv
<1>8. StandsInv' BY <1>1, <1>3, <1>4 DEF StandsInv, Reads
<1>9. RunReconciles'
  <2> SUFFICES ASSUME syncRun.calm, ~ syncRun.dry PROVE RunReconciles'
    BY <1>4 DEF RunReconciles
  <2> DEFINE r == syncRun.repo
  <2>1. syncRun.open = humanOpen[r] BY <1>1 DEF CalmInv
  <2>2. \A n \in humanOpen[r] :
          \/ Settled(n, Upcoming, CalTag[r])
          \/ n \in syncRun.undone /\ NoneFree(Upcoming, syncRun.seen, calNow, CalTag[r])
    BY <1>1, <2>1 DEF DoneInv
  <2>3. ASSUME NEW e \in OfKind(Upcoming, {"decision"}), e.cid \notin humanOpen[r] PROVE FALSE
    <3>1. e \in Upcoming /\ e \in calEvents /\ e.kind = "decision" BY DEF OfKind, Upcoming
    <3>2. e \in syncRun.seen BY <1>1, <2>1, <2>3, <3>1 DEF CalmInv
    <3>3. e.id \in syncRun.occupied \cup syncRun.removed
      BY <2>1, <2>3, <3>1, <3>2 DEF FinishSync, Orphans, OfKind
    <3>4. e.id \notin syncRun.occupied BY <1>1, <2>1, <2>3, <3>2 DEF ReadInv
    <3>5. e.id \notin syncRun.removed BY <1>1, <3>1 DEF DoneInv
    <3> QED BY <3>3, <3>4, <3>5
  <2> QED BY <1>2, <1>4, <2>2, <2>3 DEF RunReconciles
<1> QED BY <1>5, <1>6, <1>7, <1>8, <1>9

\* A new decision changes nothing of where events may be.
LEMMA NewIsNoFrame ==
  ASSUME NEW e, e.kind \in {"decision", "test"}, calNow' = calNow,
         calEvents' = calEvents \cup {e}
  PROVE  Frame(Upcoming') = Frame(Upcoming) /\ Upcoming \subseteq Upcoming'
BY DEF Frame, OfKind, Upcoming

\* An issue that is placed, or for which there is no slot, is done with.
LEMMA PlaceKeeps == CalInv /\ Place => CalInv'
<1> SUFFICES ASSUME CalInv, Place PROVE CalInv' OBVIOUS
<1> USE DEF CalInv
<1> DEFINE n == NextIssue
           tag == CalTag[syncRun.repo]
           slots == EligibleSlots(syncRun.seen, syncRun.occupied, syncRun.now, tag)
           slot == Earliest(slots)
           next == [syncRun EXCEPT !.todo = @ \ {n}, !.cleared = FALSE]
           new == [id |-> calSerial + 1, kind |-> "decision", tags |-> {}, cid |-> n,
                   start |-> slot.start, end |-> slot.end, orig |-> slot.start]
           none == slots = {} /\ syncRun' = [next EXCEPT !.undone = @ \cup {n}]
           dry == slots # {} /\ syncRun.dry /\ syncRun' = next
           made == /\ slots # {} /\ ~ syncRun.dry
                   /\ syncRun' = [next EXCEPT !.occupied = @ \cup {calSerial + 1}]
<1>1. syncRun \in Reads /\ Seen = syncRun.seen /\ syncRun.at = "decide"
  BY RunIs DEF Place
<1>2. UNCHANGED <<calNow, humanOpen, lastRun, calMoves>> BY DEF Place
<1>3. \/ (none \/ dry) /\ UNCHANGED <<calEvents, calSerial>>
      \/ made /\ calSerial' = calSerial + 1 /\ calEvents' = calEvents \cup {new}
  BY DEF Place
<1>4. n \in syncRun.todo BY <1>1, MostUrgentIsOne DEF Place, NextIssue, Reads
<1>5. n \in HumanNumbers /\ n \in Nat /\ n \in syncRun.open /\ calSerial \in Nat
  BY <1>1, <1>4, CalAssumption DEF Reads, ReadInv, CalTypes
<1> HIDE DEF n, slots, slot
<1>6. /\ syncRun'.at = "decide" /\ syncRun'.open = syncRun.open
      /\ syncRun'.todo = syncRun.todo \ {n} /\ ~ syncRun'.cleared
      /\ syncRun'.repo = syncRun.repo /\ syncRun'.now = syncRun.now
      /\ syncRun'.seen = syncRun.seen
      /\ syncRun'.removed = syncRun.removed /\ syncRun'.calm = syncRun.calm
      /\ syncRun'.dry = syncRun.dry
      /\ syncRun'.undone = IF slots = {} THEN syncRun.undone \cup {n} ELSE syncRun.undone
      /\ syncRun'.occupied \subseteq syncRun.occupied \cup {calSerial + 1}
  <2>1. CASE none BY <1>1, <2>1 DEF Reads
  <2>2. CASE dry BY <1>1, <2>2 DEF Reads
  <2>3. CASE made BY <1>1, <2>3 DEF Reads
  <2> QED BY <1>3, <2>1, <2>2, <2>3
<1>7. syncRun' \in Reads
  <2>1. next \in Reads BY <1>1 DEF Reads
  <2>2. CASE none
    <3> HIDE DEF next
    <3> QED BY <1>5, <2>1, <2>2 DEF Reads
  <2>3. CASE dry BY <2>1, <2>3
  <2>4. CASE made
    <3> HIDE DEF next
    <3> QED BY <1>5, <2>1, <2>4 DEF Reads
  <2> QED BY <1>3, <2>2, <2>3, <2>4
<1>8. Seen' = Seen BY <1>1, <1>6 DEF Seen
<1>9. ASSUME made
      PROVE  /\ new \in CalendarEvents /\ new.start < new.end /\ new.end > calNow
             /\ InEligibleWindow(new, syncRun.seen, tag)
  <2>1. syncRun.seen \in SUBSET CalendarEvents /\ syncRun.now \in Nat /\ syncRun.now = calNow
    BY <1>1 DEF Reads, ReadInv
  <2>2. new.start = slot.start /\ new.end = slot.end OBVIOUS
  <2>3. /\ slot.start \in Nat /\ slot.end \in Nat /\ syncRun.now <= slot.start
        /\ slot.start < slot.end /\ InEligibleWindow(new, syncRun.seen, tag)
    <3> HIDE DEF new, tag
    <3> QED BY <1>9, <2>1, <2>2, SlotIsAllowed DEF slot, slots
  <2>4. new \in CalendarEvents BY <1>5, <2>3 DEF CalendarEvents, EventKinds
  <2> QED BY <2>1, <2>2, <2>3, <2>4
<1>10. /\ Frame(Upcoming') = Frame(Upcoming) /\ Upcoming \subseteq Upcoming'
       /\ calEvents \subseteq calEvents'
       /\ \A e \in calEvents' \ calEvents : made /\ e = new
  <2>1. CASE UNCHANGED calEvents BY <1>2, <2>1 DEF Upcoming
  <2>2. CASE made /\ calEvents' = calEvents \cup {new}
    <3>1. new.kind = "decision" OBVIOUS
    <3> HIDE DEF new, made
    <3> QED BY <1>2, <2>2, <3>1, NewIsNoFrame
  <2> QED BY <1>3, <2>1, <2>2
<1>11. CalTypes'
  <2>1. calEvents' \in SUBSET CalendarEvents /\ calSerial' \in Nat
    <3> HIDE DEF new, none, dry, made
    <3> QED BY <1>3, <1>5, <1>9 DEF CalTypes
  <2> QED BY <2>1, <1>2, <1>7 DEF CalTypes
<1>12. IdsInv'
  <2>1. CASE UNCHANGED <<calEvents, calSerial>> BY <1>8, <2>1, IdsStay
  <2>2. CASE made /\ calSerial' = calSerial + 1 /\ calEvents' = calEvents \cup {new}
    <3>1. /\ new \in CalendarEvents /\ new.id = calSerial + 1 /\ new.start <= new.end
      BY <1>9, <2>2 DEF CalendarEvents
    <3> HIDE DEF new, made
    <3> QED BY <1>8, <2>2, <3>1, IdsGrow
  <2> QED BY <1>3, <2>1, <2>2
<1>13. \A o \in Seen : o.id # calSerial + 1
  <2>1. \A o \in Seen : o.id \in Nat BY SeenEvents DEF CalendarEvents
  <2> QED BY <2>1, <1>5 DEF IdsInv
<1>14. ReadInv' BY <1>1, <1>2, <1>6, <1>8, <1>13 DEF ReadInv
<1>15. CalmInv'
  <2> SUFFICES ASSUME syncRun.calm PROVE CalmInv' BY <1>6 DEF CalmInv
  <2>1. \A m \in syncRun'.todo : DecisionsOf(m, syncRun'.seen) \subseteq Upcoming'
    BY <1>1, <1>6, <1>10 DEF CalmInv, n
  <2>2. ASSUME NEW e \in Upcoming'
        PROVE  e \in syncRun.seen
                 \/ /\ e.kind = "decision" /\ e.cid \in syncRun.open \ syncRun'.todo
                    /\ \A o \in syncRun.seen : o.id # e.id
    <3>1. CASE e \in Upcoming BY <3>1, <1>1, <1>6 DEF CalmInv
    <3>2. CASE e \notin Upcoming
      <4>1. e = new BY <1>2, <1>10, <3>2 DEF Upcoming
      <4>2. e.kind = "decision" /\ e.cid = n /\ e.id = calSerial + 1 BY <4>1
      <4> QED BY <4>2, <1>1, <1>5, <1>6, <1>13
    <3> QED BY <3>1, <3>2
  <2> QED BY <2>1, <2>2, <1>1, <1>2, <1>6, <1>10 DEF CalmInv
<1>16. DoneInv'
  <2> SUFFICES ASSUME syncRun.calm, ~ syncRun.dry PROVE DoneInv' BY <1>6 DEF DoneInv
  <2> DEFINE done(m) ==
        \/ Settled(m, Upcoming', tag)
        \/ m \in syncRun'.undone /\ NoneFree(Upcoming', syncRun.seen, calNow, tag)
  <2>1. Frame(syncRun.seen) = Frame(Upcoming') BY <1>1, <1>10 DEF CalmInv
  <2>2. ASSUME NEW m \in syncRun.open \ syncRun.todo PROVE done(m)
    <3>1. \A o \in DecisionsOf(m, Upcoming) : o \in calEvents'
      BY <1>10 DEF DecisionsOf, OfKind, Upcoming
    <3> QED BY <3>1, <1>1, <1>2, <1>6, <1>10, DoneOutlives
  <2>3. done(n)
    <3>1. CASE slots = {}
      <4>1. NoneFree(Upcoming', syncRun.seen, calNow, tag)
        <5>1. syncRun.now \in Nat /\ syncRun.now = calNow /\ syncRun.seen \in SUBSET CalendarEvents
          BY <1>1 DEF Reads, ReadInv
        <5> QED BY <3>1, <5>1, <2>1, NoSlotNoneFree DEF slots
      <4> QED BY <4>1, <3>1, <1>6
    <3>2. CASE slots # {}
      <4>1. made /\ calEvents' = calEvents \cup {new} BY <1>3, <3>2
      <4>2. new \in Upcoming' /\ new.kind = "decision" /\ new.cid = n
        BY <1>2, <1>9, <4>1 DEF Upcoming
      <4>3. InEligibleWindow(new, Upcoming', tag) BY <1>9, <2>1, <4>1, FrameDecides
      <4> HIDE DEF new
      <4> QED BY <4>2, <4>3 DEF Settled, DecisionsOf, OfKind
    <3> QED BY <3>1, <3>2
  <2>4. \A o \in calEvents' : o.id \notin syncRun'.removed
    <3>1. \A o \in calEvents : o.id \notin syncRun.removed BY <1>1 DEF DoneInv
    <3>2. new.id \notin syncRun.removed BY <1>1, <1>13 DEF ReadInv
    <3> QED BY <3>1, <3>2, <1>6, <1>10
  <2>5. \A m \in syncRun'.open \ syncRun'.todo : done(m) BY <1>6, <2>2, <2>3
  <2> HIDE DEF done, tag
  <2> QED BY <2>4, <2>5, <1>2, <1>6 DEF DoneInv, done, tag
<1>17. RunReconciles'
  <2>1. lastRun.undisturbed => humanOpen[lastRun.repo] = syncRun.open
    BY <1>1 DEF StandsInv, CalmInv
  <2>2. \A m : \A e \in DecisionsOf(m, Upcoming) : e \in calEvents'
    BY <1>10 DEF DecisionsOf, OfKind, Upcoming
  <2>3. lastRun.undisturbed =>
          \A e \in calEvents' \ calEvents : e.kind = "decision" => e.cid \in humanOpen[lastRun.repo]
    BY <1>5, <1>10, <2>1
  <2> QED BY <1>2, <1>10, <2>2, <2>3, ResultOutlives
<1>18. StandsInv' BY <1>1, <1>2, <1>6 DEF StandsInv
<1> QED BY <1>11, <1>12, <1>14, <1>15, <1>16, <1>17, <1>18

-----------------------------------------------------------------------------
(* Tests, people and the clock.                                            *)

LEMMA StartTestKeeps ==
  ASSUME CalInv, NEW tag \in {CalTag[r] : r \in CalRepos} \cup {"*"}, StartTest(tag)
  PROVE  CalInv'
<1> USE DEF CalInv
<1>1. Upcoming \in SUBSET CalendarEvents /\ Upcoming \subseteq calEvents
  BY DEF CalTypes, Upcoming
<1>2. syncRun' \in Tests /\ syncRun'.at = "test" /\ syncRun'.seen = Upcoming
  BY <1>1 DEF StartTest, Tests, CalTypes
<1>3. UNCHANGED <<calEvents, calNow, humanOpen, lastRun, calSerial>> BY DEF StartTest
<1>4. CalTypes' BY <1>2, <1>3 DEF CalTypes, StartTest
<1>5. Seen' = Upcoming BY <1>2 DEF Seen
<1>6. IdsInv' BY <1>1, <1>3, <1>5, IdsStay
<1>7. ReadInv' /\ CalmInv' /\ DoneInv' BY <1>2 DEF ReadInv, CalmInv, DoneInv
<1>8. RunReconciles' BY <1>3, ResultStands
<1>9. StandsInv' BY <1>2, <1>3 DEF StandsInv
<1> QED BY <1>4, <1>6, <1>7, <1>8, <1>9

LEMMA PlaceTestKeeps == CalInv /\ PlaceTest => CalInv'
<1> SUFFICES ASSUME CalInv, PlaceTest PROVE CalInv' OBVIOUS
<1> DEFINE slots == EligibleSlots(syncRun.seen, {}, syncRun.now, syncRun.repo)
           slot == Earliest(slots)
           new == [id |-> calSerial + 1, kind |-> "test", tags |-> {}, cid |-> 0,
                   start |-> slot.start, end |-> slot.end, orig |-> slot.start]
<1>1. syncRun \in Tests /\ Seen = syncRun.seen BY RunIs DEF PlaceTest, CalInv
<1>2. UNCHANGED <<calNow, humanOpen, calMoves>> /\ syncRun' = IdleSync /\ lastRun' = NoLastRun
  BY DEF PlaceTest
<1>3. \/ UNCHANGED <<calEvents, calSerial>>
      \/ slots # {} /\ calSerial' = calSerial + 1 /\ calEvents' = calEvents \cup {new}
  BY DEF PlaceTest
<1>4. CASE UNCHANGED <<calEvents, calSerial>> BY <1>2, <1>4, RunEnds
<1>5. CASE slots # {} /\ calSerial' = calSerial + 1 /\ calEvents' = calEvents \cup {new}
  <2> USE DEF CalInv
  <2>1. slot.start \in Nat /\ slot.end \in Nat /\ slot.start < slot.end
    <3>1. syncRun.seen \in SUBSET CalendarEvents /\ syncRun.now \in Nat BY <1>1 DEF Tests
    <3> QED BY <1>5, <3>1, SlotIsAllowed
  <2>2. calSerial \in Nat BY DEF CalTypes
  <2> HIDE DEF slots, slot
  <2>3. new \in CalendarEvents /\ new.id = calSerial + 1 /\ new.start <= new.end
    BY <2>1, <2>2 DEF CalendarEvents, EventKinds
  <2>4. syncRun'.at = "idle" BY <1>2 DEF IdleSync
  <2>5. Seen' = {} BY <2>4 DEF Seen
  <2> HIDE DEF new
  <2>6. CalTypes' BY <1>2, <1>5, <2>2, <2>3, NothingRan DEF CalTypes
  <2>7. IdsInv' BY <1>5, <2>3, <2>5, IdsGrow
  <2>8. ReadInv' /\ CalmInv' /\ DoneInv' BY <2>4 DEF ReadInv, CalmInv, DoneInv
  <2>9. RunReconciles' /\ StandsInv' BY <1>2, NothingRan DEF RunReconciles, StandsInv
  <2> QED BY <2>6, <2>7, <2>8, <2>9
<1> QED BY <1>3, <1>4, <1>5

\* A person takes the promises from the run under way and from the last one.
LEMMA PersonDisturbs ==
  ASSUME CalInv, Disturb, UNCHANGED <<calNow, calSerial>>,
         calEvents' \in SUBSET CalendarEvents, IdsInv',
         humanOpen' \in [CalRepos -> SUBSET HumanNumbers],
         \A r \in CalRepos : humanOpen'[r] \subseteq humanOpen[r]
  PROVE  CalInv'
<1> USE DEF CalInv
<1>1. lastRun' = NoLastRun /\ calMoves' \in Nat BY DEF Disturb, CalTypes
<1>2. CASE syncRun.at = "idle"
  <2>1. syncRun' = syncRun BY <1>2 DEF Disturb
  <2>2. CalTypes' BY <1>1, <2>1, NothingRan DEF CalTypes
  <2>3. ReadInv' /\ CalmInv' /\ DoneInv' BY <1>2, <2>1 DEF ReadInv, CalmInv, DoneInv
  <2> QED BY <1>1, <2>2, <2>3, NothingRan DEF RunReconciles, StandsInv
<1>3. CASE syncRun.at # "idle"
  <2>1. syncRun' = [syncRun EXCEPT !.calm = FALSE] BY <1>3 DEF Disturb
  <2>2. syncRun \in Reads \cup Tests BY <1>3 DEF CalTypes, IdleSync
  <2>3. /\ syncRun'.at = syncRun.at /\ syncRun'.seen = syncRun.seen /\ ~ syncRun'.calm
        /\ syncRun' \in Reads \cup Tests
    <3>1. CASE syncRun \in Reads BY <2>1, <3>1 DEF Reads
    <3>2. CASE syncRun \in Tests BY <2>1, <3>2 DEF Tests
    <3> QED BY <2>2, <3>1, <3>2
  <2>4. CalTypes' BY <1>1, <2>3, NothingRan DEF CalTypes
  <2>5. Seen' = Seen BY <2>3 DEF Seen
  <2>6. ReadInv'
    <3> SUFFICES ASSUME syncRun.at \in {"issues", "decide"} PROVE ReadInv' BY <2>3 DEF ReadInv
    <3>1. syncRun \in Reads BY RunIs
    <3>2. /\ syncRun'.now = syncRun.now /\ syncRun'.todo = syncRun.todo
          /\ syncRun'.open = syncRun.open /\ syncRun'.occupied = syncRun.occupied
          /\ syncRun'.removed = syncRun.removed /\ syncRun'.repo = syncRun.repo
          /\ syncRun.repo \in CalRepos
      BY <2>1, <3>1 DEF Reads
    <3> QED BY <2>3, <2>5, <3>2 DEF ReadInv
  <2>7. CalmInv' /\ DoneInv' BY <2>3 DEF CalmInv, DoneInv
  <2> QED BY <1>1, <2>4, <2>6, <2>7, NothingRan DEF RunReconciles, StandsInv
<1> QED BY <1>2, <1>3

LEMMA DisturbSees == CalTypes /\ Disturb => Seen' = Seen
<1> SUFFICES ASSUME CalTypes, Disturb PROVE Seen' = Seen OBVIOUS
<1>1. CASE syncRun.at = "idle" BY <1>1 DEF Disturb, Seen
<1>2. CASE syncRun.at # "idle"
  <2>1. syncRun' = [syncRun EXCEPT !.calm = FALSE] BY <1>2 DEF Disturb
  <2>2. CASE syncRun \in Reads BY <1>2, <2>1, <2>2 DEF Reads, Seen
  <2>3. CASE syncRun \in Tests BY <1>2, <2>1, <2>3 DEF Tests, Seen
  <2> QED BY <1>2, <2>2, <2>3 DEF CalTypes, IdleSync
<1> QED BY <1>1, <1>2

LEMMA MoveEventKeeps ==
  ASSUME CalInv, NEW e \in calEvents, NEW start \in MoveTimes, MoveEvent(e, start)
  PROVE  CalInv'
<1> USE DEF CalInv
<1> DEFINE moved == [e EXCEPT !.start = start, !.end = start + (e.end - e.start)]
<1>1. e \in CalendarEvents /\ e.start <= e.end BY DEF CalTypes, IdsInv
<1>2. start \in Nat BY CalAssumption
<1>3. start + (e.end - e.start) \in Nat /\ start <= start + (e.end - e.start)
  BY <1>1, <1>2 DEF CalendarEvents
<1>4. /\ moved \in CalendarEvents /\ moved.id = e.id /\ moved.kind = e.kind /\ moved.cid = e.cid
      /\ moved.start <= moved.end
  BY <1>1, <1>2, <1>3 DEF CalendarEvents
<1>5. Disturb /\ calEvents' = (calEvents \ {e}) \cup {moved}
      /\ UNCHANGED <<calNow, humanOpen, calSerial>>
  BY DEF MoveEvent
<1> HIDE DEF moved
<1>6. Seen' = Seen BY <1>5, DisturbSees
<1>7. \A o \in calEvents' : o = moved \/ (o \in calEvents /\ o # e) BY <1>5
<1>8. IdsInv'
  <2>1. \A o \in (calEvents \cup Seen)' : o.id <= calSerial' /\ o.start <= o.end
    BY <1>4, <1>5, <1>6, <1>7 DEF IdsInv
  <2>2. \A a, o \in calEvents' : a.id = o.id => a = o
    BY <1>4, <1>7 DEF IdsInv
  <2>3. SameIds(calEvents', Seen') BY <1>4, <1>6, <1>7 DEF IdsInv, SameIds
  <2> QED BY <1>6, <2>1, <2>2, <2>3 DEF IdsInv
<1> QED BY <1>4, <1>5, <1>8, PersonDisturbs DEF CalTypes

LEMMA DropEventKeeps == ASSUME CalInv, NEW e, DropEvent(e) PROVE CalInv'
<1> USE DEF CalInv
<1>1. Disturb /\ calEvents' \subseteq calEvents /\ UNCHANGED <<calNow, humanOpen, calSerial>>
  BY DEF DropEvent
<1>2. IdsInv' BY <1>1, DisturbSees, IdsStay
<1> QED BY <1>1, <1>2, PersonDisturbs DEF CalTypes

LEMMA CloseHumanKeeps ==
  ASSUME CalInv, NEW r \in CalRepos, NEW n, CloseHuman(r, n) PROVE CalInv'
<1> USE DEF CalInv
<1>1. /\ Disturb /\ humanOpen' = [humanOpen EXCEPT ![r] = @ \ {n}]
      /\ UNCHANGED <<calEvents, calNow, calSerial>>
  BY DEF CloseHuman
<1>2. IdsInv' BY <1>1, DisturbSees, IdsStay
<1>3. /\ humanOpen' \in [CalRepos -> SUBSET HumanNumbers]
      /\ \A q \in CalRepos : humanOpen'[q] \subseteq humanOpen[q]
  BY <1>1 DEF CalTypes
<1> QED BY <1>1, <1>2, <1>3, PersonDisturbs DEF CalTypes

LEMMA TickKeeps == CalInv /\ Tick => CalInv'
<1> SUFFICES ASSUME CalInv, Tick PROVE CalInv' OBVIOUS
<1> USE DEF CalInv
<1>1. /\ syncRun.at = "idle" /\ calNow' = calNow + 1 /\ lastRun' = NoLastRun
      /\ UNCHANGED <<calEvents, humanOpen, syncRun, calSerial, calMoves>>
  BY DEF Tick
<1>2. CalTypes' BY <1>1, NothingRan DEF CalTypes
<1>3. IdsInv' BY <1>1, IdsStay DEF Seen
<1>4. ReadInv' /\ CalmInv' /\ DoneInv' BY <1>1 DEF ReadInv, CalmInv, DoneInv
<1>5. RunReconciles' /\ StandsInv' BY <1>1, NothingRan DEF RunReconciles, StandsInv
<1> QED BY <1>2, <1>3, <1>4, <1>5

-----------------------------------------------------------------------------

LEMMA CalNextInv == CalInv /\ [CalNext]_calVars => CalInv'
<1> SUFFICES ASSUME CalInv, [CalNext]_calVars PROVE CalInv' OBVIOUS
<1>1. CASE UNCHANGED calVars
  <2> USE <1>1 DEF calVars, CalInv
  <2>1. CalTypes' BY DEF CalTypes
  <2>2. Seen' = Seen /\ Upcoming' = Upcoming /\ NextIssue' = NextIssue
    BY DEF Seen, Upcoming, NextIssue
  <2>3. IdsInv' /\ ReadInv' BY <2>2 DEF IdsInv, ReadInv
  <2>4. CalmInv' /\ DoneInv' BY <2>2 DEF CalmInv, DoneInv
  <2>5. RunReconciles' /\ StandsInv' BY ResultStands DEF StandsInv
  <2> QED BY <2>1, <2>3, <2>4, <2>5
<1>2. CASE \E r \in CalRepos : StartSync(r, FALSE) \/ StartSync(r, TRUE)
  BY <1>2, StartSyncKeeps
<1>3. CASE ReadHumanIssues \/ KeepSlot \/ DeleteStale \/ Place \/ RemoveOrphan \/ FinishSync
  BY <1>3, ReadHumanIssuesKeeps, KeepSlotKeeps, DeleteStaleKeeps, PlaceKeeps,
     RemoveOrphanKeeps, FinishSyncKeeps
<1>4. CASE SyncFails BY <1>4, RunEnds DEF SyncFails
<1>5. CASE \E tag \in {CalTag[r] : r \in CalRepos} \cup {"*"} : StartTest(tag)
  BY <1>5, StartTestKeeps
<1>6. CASE PlaceTest BY <1>6, PlaceTestKeeps
<1>7. CASE \E e \in calEvents : DropEvent(e) \/ \E t \in MoveTimes : MoveEvent(e, t)
  BY <1>7, DropEventKeeps, MoveEventKeeps
<1>8. CASE \E r \in CalRepos, n \in HumanNumbers : CloseHuman(r, n) BY <1>8, CloseHumanKeeps
<1>9. CASE Tick BY <1>9, TickKeeps
<1> QED BY <1>1, <1>2, <1>3, <1>4, <1>5, <1>6, <1>7, <1>8, <1>9 DEF CalNext, SyncStep

\* After a run that nothing disturbed every open human issue has its decision or
\* was told to have no slot, and no decision is left over, in whatever order
\* events and issues come and for as long as only this repository is synced.
THEOREM SyncReconciles == CalSpec => []RunReconciles
<1>1. CalInv => RunReconciles BY DEF CalInv
<1> QED BY <1>1, CalInitInv, CalNextInv, PTL DEF CalSpec

\* Only placing creates events.
LEMMA OthersCreateNothing ==
  ASSUME CalTypes, [CalNext]_calVars, ~ Place, ~ PlaceTest
  PROVE  calSerial' = calSerial
<1>1. CASE \E r \in CalRepos : StartSync(r, FALSE) \/ StartSync(r, TRUE)
  BY <1>1 DEF StartSync
<1>2. CASE ReadHumanIssues BY <1>2 DEF ReadHumanIssues
<1>3. CASE KeepSlot BY <1>3 DEF KeepSlot
<1>4. CASE DeleteStale BY <1>4 DEF DeleteStale
<1>5. CASE RemoveOrphan BY <1>5 DEF RemoveOrphan
<1>6. CASE FinishSync BY <1>6 DEF FinishSync
<1>7. CASE SyncFails BY <1>7 DEF SyncFails
<1>8. CASE \E tag \in {CalTag[r] : r \in CalRepos} \cup {"*"} : StartTest(tag)
  BY <1>8 DEF StartTest
<1>9. CASE \E e \in calEvents : DropEvent(e) \/ \E t \in MoveTimes : MoveEvent(e, t)
  <2>1. ASSUME NEW e, DropEvent(e) PROVE calSerial' = calSerial BY <2>1 DEF DropEvent
  <2>2. ASSUME NEW e, NEW t, MoveEvent(e, t) PROVE calSerial' = calSerial
    BY <2>2, Zenon DEF MoveEvent
  <2> QED BY <1>9, <2>1, <2>2
<1>10. CASE \E r \in CalRepos, n \in HumanNumbers : CloseHuman(r, n)
  BY <1>10 DEF CloseHuman
<1>11. CASE Tick BY <1>11 DEF Tick
<1>12. CASE UNCHANGED calVars BY <1>12 DEF calVars
<1> QED BY <1>1, <1>2, <1>3, <1>4, <1>5, <1>6, <1>7, <1>8, <1>9, <1>10, <1>11, <1>12
        DEF CalNext, SyncStep

\* What a run creates lies in a window it listed that takes its tag, on no blocker
\* and no event it listed and did not keep, and not before its clock.
THEOREM SlotsAreAllowed == CalSpec => CreatedWhereAllowed
<1>1. ASSUME CalInv, [CalNext]_calVars, NEW e \in Created, calSerial' # calSerial
      PROVE  /\ e.start >= syncRun.now
             /\ InEligibleWindow(e, syncRun.seen,
                                 IF syncRun.at = "test" THEN syncRun.repo ELSE CalTag[syncRun.repo])
             /\ \A d \in OfKind(syncRun.seen, SlotKinds) : Overlaps(e, d) => d.id \in Taken
  <2> USE DEF CalInv
  <2>1. CASE Place
    <3> DEFINE slots == EligibleSlots(syncRun.seen, syncRun.occupied, syncRun.now, CalTag[syncRun.repo])
               slot == Earliest(slots)
    <3>1. syncRun \in Reads /\ syncRun.at = "decide" BY <1>1, <2>1, RunIs DEF Place
    <3>2. slots # {} /\ e.start = slot.start /\ e.end = slot.end
      BY <1>1, <2>1 DEF Place, Created
    <3>3. syncRun.seen \in SUBSET CalendarEvents /\ syncRun.now \in Nat BY <3>1 DEF Reads
    <3> HIDE DEF Created
    <3>4. /\ syncRun.now <= slot.start /\ slot.start \in Nat
          /\ InEligibleWindow(e, syncRun.seen, CalTag[syncRun.repo])
          /\ \A d \in OfKind(syncRun.seen, SlotKinds) : Overlaps(e, d) => d.id \in syncRun.occupied
      BY <3>2, <3>3, SlotIsAllowed
    <3> QED BY <3>1, <3>2, <3>3, <3>4 DEF Taken
  <2>2. CASE PlaceTest
    <3> DEFINE kept == {}
               slots == EligibleSlots(syncRun.seen, kept, syncRun.now, syncRun.repo)
               slot == Earliest(slots)
    <3>1. syncRun \in Tests /\ syncRun.at = "test" BY <1>1, <2>2, RunIs DEF PlaceTest
    <3>2. slots # {} /\ e.start = slot.start /\ e.end = slot.end
      BY <1>1, <2>2 DEF PlaceTest, Created
    <3>3. syncRun.seen \in SUBSET CalendarEvents /\ syncRun.now \in Nat BY <3>1 DEF Tests
    <3>4. /\ syncRun.now <= slot.start /\ slot.start \in Nat
          /\ InEligibleWindow(e, syncRun.seen, syncRun.repo)
          /\ \A d \in OfKind(syncRun.seen, SlotKinds) : Overlaps(e, d) => d.id \in kept
      <4> HIDE DEF kept, Created
      <4> QED BY <3>2, <3>3, SlotIsAllowed
    <3> QED BY <3>1, <3>2, <3>3, <3>4 DEF Taken
  <2> QED BY <1>1, <2>1, <2>2, OthersCreateNothing
<1>2. CalInv /\ [CalNext]_calVars =>
        [\A e \in {e \in Created : calSerial' # calSerial} :
             /\ e.start >= syncRun.now
             /\ InEligibleWindow(e, syncRun.seen,
                                 IF syncRun.at = "test" THEN syncRun.repo ELSE CalTag[syncRun.repo])
             /\ \A d \in OfKind(syncRun.seen, SlotKinds) : Overlaps(e, d) => d.id \in Taken]_calVars
  BY <1>1
<1> QED BY <1>2, CalInitInv, CalNextInv, PTL DEF CalSpec, CreatedWhereAllowed

\* A run deletes nothing but decisions, none in a dry run, and none that was
\* dragged while its issue is open.
LEMMA RunsDelete ==
  ASSUME CalInv, [CalNext]_calVars, calMoves' = calMoves, NEW e \in calEvents, e \notin calEvents'
  PROVE  /\ e.kind = "decision" /\ ~ syncRun.dry
         /\ e.cid \in humanOpen[syncRun.repo] /\ e \in syncRun.seen => ~ Dragged(e)
<1> USE DEF CalInv
<1>1. ~ Disturb BY DEF Disturb, CalTypes
<1>2. DeleteStale \/ RemoveOrphan
  <2> SUFFICES ASSUME ~ (calEvents \subseteq calEvents')
               PROVE  DeleteStale \/ RemoveOrphan
    OBVIOUS
  <2>1. ASSUME NEW r \in CalRepos PROVE ~ StartSync(r, FALSE) /\ ~ StartSync(r, TRUE)
    BY DEF StartSync
  <2>2. ~ ReadHumanIssues BY DEF ReadHumanIssues
  <2>3. ~ KeepSlot BY Zenon DEF KeepSlot
  <2>4. ~ Place BY DEF Place
  <2>5. ~ FinishSync /\ ~ SyncFails BY DEF FinishSync, SyncFails
  <2>6. ASSUME NEW tag PROVE ~ StartTest(tag) BY DEF StartTest
  <2>7. ~ PlaceTest BY DEF PlaceTest
  <2>8. ASSUME NEW d, NEW t PROVE ~ DropEvent(d) /\ ~ MoveEvent(d, t)
    BY <1>1 DEF DropEvent, MoveEvent
  <2>9. ASSUME NEW r, NEW n PROVE ~ CloseHuman(r, n) BY <1>1 DEF CloseHuman
  <2>10. ~ Tick /\ ~ UNCHANGED calVars BY DEF Tick, calVars
  <2> QED BY <2>1, <2>2, <2>3, <2>4, <2>5, <2>6, <2>7, <2>8, <2>9, <2>10 DEF CalNext, SyncStep
<1>3. syncRun \in Reads /\ Seen = syncRun.seen /\ syncRun.at = "decide"
  BY <1>2, RunIs DEF DeleteStale, RemoveOrphan
<1>4. calNow' = calNow BY <1>2 DEF DeleteStale, RemoveOrphan
<1>5. ASSUME NEW d \in syncRun.seen, d.kind = "decision", NEW then, Delete(d, then)
      PROVE  ~ syncRun.dry /\ calEvents' = {o \in calEvents : o.id # d.id}
  BY <1>5 DEF Delete
<1>6. CASE DeleteStale
  <2>1. PICK d \in Existing : ~ Dragged(d) /\ \E then : Delete(d, then)
    BY <1>6 DEF DeleteStale
  <2>2. d \in syncRun.seen /\ d.kind = "decision" BY DEF Existing, DecisionsOf, OfKind
  <2>3. ~ syncRun.dry /\ calEvents' = {o \in calEvents : o.id # d.id} BY <1>5, <2>1, <2>2
  <2>4. e.kind = "decision" BY <1>3, <1>4, <2>2, <2>3, Deleted
  <2>5. e \in syncRun.seen => e = d BY <1>3, <2>2, <2>3 DEF IdsInv
  <2> QED BY <2>1, <2>3, <2>4, <2>5
<1>7. CASE RemoveOrphan
  <2>1. PICK d \in Orphans : \E then : Delete(d, then) BY <1>7 DEF RemoveOrphan
  <2>2. d \in syncRun.seen /\ d.kind = "decision" /\ d.cid \notin syncRun.open
    BY DEF Orphans, OfKind
  <2>3. ~ syncRun.dry /\ calEvents' = {o \in calEvents : o.id # d.id} BY <1>5, <2>1, <2>2
  <2>4. e.kind = "decision" /\ e.cid = d.cid BY <1>3, <1>4, <2>2, <2>3, Deleted
  <2>5. e.cid \notin humanOpen[syncRun.repo] BY <1>3, <2>2, <2>4 DEF ReadInv
  <2> QED BY <2>3, <2>4, <2>5
<1> QED BY <1>2, <1>6, <1>7

\* Manual time-drags are respected: no run deletes a decision that it read at
\* another time than it was scheduled for, while its issue is open; nor windows,
\* blockers or tests; nor anything in a dry run.
THEOREM DragsStay == CalSpec => DragsRespected
<1>1. CalInv /\ [CalNext]_calVars =>
        [calMoves' = calMoves =>
           \A e \in calEvents \ calEvents' :
             /\ e.kind = "decision" /\ ~ syncRun.dry
             /\ e.cid \in humanOpen[syncRun.repo] /\ e \in syncRun.seen => ~ Dragged(e)]_calVars
  BY RunsDelete
<1> QED BY <1>1, CalInitInv, CalNextInv, PTL DEF CalSpec, DragsRespected
=============================================================================
