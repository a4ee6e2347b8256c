------------------------------- MODULE Skills -------------------------------
(***************************************************************************)
(* The commands that hand a skill to a Claude in a tmux session: idle,     *)
(* change-overview, human-ticket draft and close and three architect       *)
(* commands each have a session of a fixed name, the architect's a shared  *)
(* one; architect diagram takes a QA session out of a pool.  Here a pane   *)
(* shows what runs in it; module Pod is about panes that mislead.          *)
(***************************************************************************)
EXTENDS Naturals, FiniteSets

CONSTANTS
  Callers,      \* processes that run commands
  SkillHome,    \* session of a command that has its own
  QaSessions,   \* conductr-<tag>-qa<n>, by number: there may be more than the cap
  MaxQaSlots,   \* max_parallel_qa
  SkillHazards  \* "dies"

ASSUME SkillAssumption ==
  /\ {"idle", "change-overview", "human-ticket-draft", "human-ticket-close",
      "review", "security-review", "plan"} \subseteq DOMAIN SkillHome
  /\ DOMAIN QaSessions \subseteq Nat \ {0} /\ IsFiniteSet(DOMAIN QaSessions)
  /\ MaxQaSlots \in Nat /\ 1..MaxQaSlots \subseteq DOMAIN QaSessions

VARIABLES
  shown,  \* health of a session, or "absent"
  call    \* [at, qa, name, alone] of a process

skillVars == <<shown, call>>

SkillCommands == DOMAIN SkillHome
QaNumbers == DOMAIN QaSessions
QaNames == {QaSessions[n] : n \in QaNumbers}
BeyondCap == {QaSessions[n] : n \in QaNumbers \ 1..MaxQaSlots}
SkillSessions == {SkillHome[c] : c \in SkillCommands} \cup QaNames
NoCall == [at |-> "none"]
BusyPane == {"working", "unknown"}

\* A QA session beyond the cap is left from when the cap was higher.
SkillInit ==
  /\ \E h \in {"absent", "working"} :
       shown = [s \in SkillSessions |-> IF s \in BeyondCap THEN h ELSE "absent"]
  /\ call = [p \in Callers |-> NoCall]

-----------------------------------------------------------------------------
(* What a command decides, and the dry run of diagram.                     *)

\* The match on ensure_session's answer.
Answer(health) ==
  IF health = "absent" THEN <<"create", "launch", "send">>
  ELSE IF health = "crashed" THEN <<"launch", "send">>
  ELSE IF health = "idle" THEN <<"send">> ELSE <<"skip">>

QaIdle(view) == {n \in QaNumbers : view[QaSessions[n]] = "idle"}
QaPresent(view) == {n \in QaNumbers : view[QaSessions[n]] # "absent"}
QaFree(view) == {n \in 1..MaxQaSlots : view[QaSessions[n]] \in {"absent", "idle"}}

FirstOf(slots) == CHOOSE n \in slots : \A m \in slots : n <= m

\* The slot diagram takes: an idle session of any number, else the first within
\* the cap that is not busy; a crashed session is busy.  0 when there is none.
DiagramSlot(view) ==
  LET slots == IF QaIdle(view) # {} THEN QaIdle(view) ELSE QaFree(view)
  IN  IF slots = {} THEN 0 ELSE FirstOf(slots)

\* Mutant: the number of sessions is taken for the number of the next one.
DryDiagramSlotLast(view) ==
  IF QaIdle(view) # {} THEN FirstOf(QaIdle(view))
  ELSE IF QaPresent(view) = {} THEN 1
  ELSE IF Cardinality(QaPresent(view)) < MaxQaSlots THEN Cardinality(QaPresent(view)) ELSE 0

\* run_architect_diagram_dry counts the sessions, but does not look at the cap
\* when there is none.
DryDiagramSlot(view) ==
  IF QaIdle(view) # {} THEN FirstOf(QaIdle(view))
  ELSE IF QaPresent(view) = {} THEN 1
  ELSE IF Cardinality(QaPresent(view)) < MaxQaSlots THEN Cardinality(QaPresent(view)) + 1 ELSE 0

-----------------------------------------------------------------------------
(* The steps.                                                              *)

To(p, next) == call' = [q \in Callers |->
  IF q = p THEN next
  ELSE IF call[q].at # "none" /\ next.at # "none" /\ call[q].name = next.name
  THEN [call[q] EXCEPT !.alone = FALSE] ELSE call[q]]

OnOwn(p, name) == \A q \in Callers \ {p} : call[q].at = "none" \/ call[q].name # name
At(p, at) == [call[p] EXCEPT !.at = at]

SkillCommand(p, cmd) ==
  /\ call[p].at = "none"
  /\ To(p, [at |-> "look", qa |-> FALSE, name |-> SkillHome[cmd],
            alone |-> OnOwn(p, SkillHome[cmd])])
  /\ UNCHANGED shown

RunIdle(p) == SkillCommand(p, "idle")
ChangeOverview(p) == SkillCommand(p, "change-overview")
TicketDraft(p) == SkillCommand(p, "human-ticket-draft")
TicketClose(p) == SkillCommand(p, "human-ticket-close")
ArchitectReview(p) == SkillCommand(p, "review")
SecurityReview(p) == SkillCommand(p, "security-review")
ArchitectPlan(p) == SkillCommand(p, "plan")

\* find_or_spawn_qa_session.  (A probe that fails reads as no session at all; here
\* it does not fail.)
Diagram(p) ==
  /\ call[p].at = "none" /\ DiagramSlot(shown) # 0
  /\ LET name == QaSessions[DiagramSlot(shown)]
     IN  To(p, [at |-> IF shown[name] = "idle" THEN "send" ELSE "look", qa |-> TRUE,
                name |-> name, alone |-> OnOwn(p, name)])
  /\ UNCHANGED shown

\* ensure_session: list, then diagnose or create.
LookUp(p) ==
  /\ call[p].at = "look"
  /\ To(p, At(p, IF shown[call[p].name] = "absent" THEN "create" ELSE "diagnose"))
  /\ UNCHANGED shown

\* Mutant: whatever is no crash will do.
DiagnoseLax(p) ==
  /\ call[p].at = "diagnose" /\ UNCHANGED shown
  /\ To(p, At(p, IF shown[call[p].name] = "crashed" THEN "launch" ELSE "send"))

Diagnose(p) ==
  LET health == shown[call[p].name]
  IN  /\ call[p].at = "diagnose"
      /\ IF Answer(health)[1] \in {"launch", "send"} THEN To(p, At(p, Answer(health)[1]))
         ELSE IF call[p].qa /\ health # "absent"
         THEN To(p, At(p, "send"))   \* any other state falls through
         ELSE To(p, NoCall)
      /\ UNCHANGED shown

\* A session that has appeared meanwhile makes new-session fail.
Create(p) ==
  /\ call[p].at = "create"
  /\ IF shown[call[p].name] = "absent"
     THEN shown' = [shown EXCEPT ![call[p].name] = "crashed"] /\ To(p, At(p, "launch"))
     ELSE To(p, NoCall) /\ UNCHANGED shown

\* send_line: a shell starts Claude, an idle Claude takes it for a prompt.
Typed(name, skill) ==
  shown' = [shown EXCEPT ![name] =
    IF @ = "crashed" THEN IF skill THEN @ ELSE "unknown" ELSE IF @ = "idle" THEN "working" ELSE @]

Launch(p) ==
  /\ call[p].at = "launch"
  /\ IF shown[call[p].name] = "absent" THEN To(p, NoCall) /\ UNCHANGED shown
     ELSE Typed(call[p].name, FALSE) /\ To(p, At(p, "wait"))

AwaitIdle(p) ==
  /\ call[p].at = "wait" /\ shown[call[p].name] = "idle"
  /\ To(p, At(p, "send")) /\ UNCHANGED shown

GiveUpWaiting(p) ==
  /\ call[p].at = "wait" /\ To(p, NoCall) /\ UNCHANGED shown

SendSkill(p) ==
  /\ call[p].at = "send" /\ To(p, NoCall)
  /\ IF shown[call[p].name] = "absent" THEN UNCHANGED shown ELSE Typed(call[p].name, TRUE)

\* External: Claude in a pane.
PaneChanges(s) ==
  /\ \/ shown[s] = "unknown" /\ shown' = [shown EXCEPT ![s] = "idle"]
     \/ shown[s] = "working" /\ shown' = [shown EXCEPT ![s] = "idle"]
     \/ "dies" \in SkillHazards /\ shown[s] \in {"unknown", "working", "idle"}
        /\ shown' = [shown EXCEPT ![s] = "crashed"]
     \/ "dies" \in SkillHazards /\ shown[s] = "crashed"
        /\ shown' = [shown EXCEPT ![s] = "absent"]
  /\ UNCHANGED call

SkillNext ==
  \/ \E p \in Callers :
       \/ RunIdle(p) \/ ChangeOverview(p) \/ TicketDraft(p) \/ TicketClose(p)
       \/ ArchitectReview(p) \/ SecurityReview(p) \/ ArchitectPlan(p)
       \/ Diagram(p)
       \/ LookUp(p) \/ Diagnose(p) \/ Create(p) \/ Launch(p)
       \/ AwaitIdle(p) \/ GiveUpWaiting(p) \/ SendSkill(p)
  \/ \E s \in SkillSessions : PaneChanges(s)

SkillSpec == SkillInit /\ [][SkillNext]_skillVars

-----------------------------------------------------------------------------
(* Properties.                                                             *)

\* A command that had its session for itself since it began types its skill into
\* an idle Claude or, when that died, into nothing: never into a Claude at work.
LoneSkillToIdle ==
  \A p \in Callers :
    call[p].at = "send" /\ call[p].alone => shown[call[p].name] \notin BusyPane

\* No number is missing below the last QA session.
NoGap(view) == QaPresent(view) = 1..Cardinality(QaPresent(view))

\* The dry run of diagram, which counts the QA sessions, names the one that a run
\* takes, which looks for the first free number, or says that there is none when a
\* run would: when a session is idle or the numbers have no gap, and the cap is
\* not 0.  (What the dry runs of the other commands say is not modelled.)
DryPlanTells ==
  MaxQaSlots > 0 /\ (QaIdle(shown) # {} \/ NoGap(shown)) =>
    DryDiagramSlot(shown) = DiagramSlot(shown)
=============================================================================
