----------------------------- MODULE Host_proofs ----------------------------
(***************************************************************************)
(* What several processes do on one host, for any processes, sessions and  *)
(* outlets: commands that hand a skill to a Claude, passes of self-update, *)
(* the dashboard, and what stands between a pull request and its merge,    *)
(* the merge gate and the runs of local CI.                                *)
(***************************************************************************)
EXTENDS Skills, SelfUpdate, Dashboard, MergeGate, LocalCi, WellFoundedInduction, FiniteSetTheorems,
        TLAPS

-----------------------------------------------------------------------------
(* Skills: who has a session for itself types into no Claude at work.      *)

Healths == {"absent", "crashed", "unknown", "idle", "working"}

Calls ==
  {NoCall} \cup [at : {"look", "create", "diagnose", "launch", "wait", "send"}, qa : BOOLEAN,
                 name : SkillSessions, alone : BOOLEAN]

SkillTypes == shown \in [SkillSessions -> Healths] /\ call \in [Callers -> Calls]

\* A command that is alone finds its session as it chose it, or waited for it.
Expects(c) ==
  c.at # "none" /\ c.alone =>
    /\ c.at = "send" => shown[c.name] \notin BusyPane
    /\ c.qa /\ c.at = "look" => shown[c.name] = "absent"
    /\ c.qa => c.at # "diagnose"

Alone(p) == call[p].at # "none" /\ call[p].alone => OnOwn(p, call[p].name)

SkillInv == SkillTypes /\ \A p \in Callers : Expects(call[p]) /\ Alone(p)

-----------------------------------------------------------------------------

LEMMA SkillInitInv == SkillInit => SkillInv
<1> SUFFICES ASSUME SkillInit PROVE SkillInv OBVIOUS
<1>1. NoCall \in Calls /\ NoCall.at = "none" BY DEF NoCall, Calls
<1> QED BY <1>1 DEF SkillInit, SkillInv, SkillTypes, Expects, Alone, Healths

\* The slot that diagram takes is a QA session that is idle or absent.
LEMMA SlotIsFree ==
  ASSUME SkillTypes, DiagramSlot(shown) # 0
  PROVE  /\ DiagramSlot(shown) \in QaNumbers
         /\ shown[QaSessions[DiagramSlot(shown)]] \in {"absent", "idle"}
<1> DEFINE slots == IF QaIdle(shown) # {} THEN QaIdle(shown) ELSE QaFree(shown)
<1>1. slots # {} /\ DiagramSlot(shown) = CHOOSE n \in slots : \A m \in slots : n <= m
  BY DEF DiagramSlot, FirstOf
<1>2. /\ slots \subseteq Nat /\ slots \subseteq QaNumbers
      /\ \A n \in slots : shown[QaSessions[n]] \in {"absent", "idle"}
  BY SkillAssumption DEF QaIdle, QaFree, QaNumbers
<1> HIDE DEF slots
<1>3. \E n \in slots : \A m \in slots : n <= m
  <2>1. PICK n \in slots : \A m \in slots : <<m, n>> \notin OpToRel(<, Nat)
    BY <1>1, <1>2, NatLessThanWellFounded, WFMin, Zenon
  <2>2. \A m \in slots : ~ (m < n) BY <2>1, <1>2 DEF OpToRel
  <2> QED BY <2>2, <1>2
<1>4. DiagramSlot(shown) \in slots BY <1>1, <1>3
<1> QED BY <1>2, <1>4

\* A step of one command that touches no session but its own keeps what all
\* commands expect, if it keeps what it expects itself.
LEMMA CallMoves ==
  ASSUME SkillInv, NEW p \in Callers, NEW next \in Calls, To(p, next),
         shown' \in [SkillSessions -> Healths],
         \/ shown' = shown
         \/ /\ call[p].at # "none"
            /\ \A s \in SkillSessions : s # call[p].name => shown'[s] = shown[s],
         next.at # "none" /\ next.alone =>
           \/ OnOwn(p, next.name)
           \/ call[p].at # "none" /\ call[p].alone /\ call[p].name = next.name,
         Expects(next)'
  PROVE  SkillInv'
<1>0. call \in [Callers -> Calls] BY DEF SkillInv, SkillTypes
<1>1. ASSUME NEW q \in Callers, q # p
      PROVE  /\ call'[q] \in Calls /\ call'[q].at = call[q].at
             /\ call[q].at # "none" => /\ call'[q].name = call[q].name /\ call'[q].qa = call[q].qa
                                       /\ call'[q].alone => call[q].alone
                                       /\ next.at # "none" /\ call[q].name = next.name => ~ call'[q].alone
  <2>1. CASE call[q].at # "none" /\ next.at # "none" /\ call[q].name = next.name
    <3>1. call'[q] = [call[q] EXCEPT !.alone = FALSE] BY <1>1, <2>1 DEF To
    <3>2. call[q] \in Calls \ {NoCall} BY <2>1, <1>0 DEF NoCall
    <3> QED BY <3>1, <3>2 DEF Calls
  <2>2. CASE ~ (call[q].at # "none" /\ next.at # "none" /\ call[q].name = next.name)
    BY <1>1, <2>2, <1>0 DEF To
  <2> QED BY <2>1, <2>2
<1>2. call'[p] = next /\ call' \in [Callers -> Calls]
  BY <1>0, <1>1 DEF To
<1>3. ASSUME NEW q \in Callers PROVE Alone(q)'
  <2>1. CASE q = p
    <3> SUFFICES ASSUME next.at # "none", next.alone, NEW r \in Callers \ {p}
        PROVE call'[r].at = "none" \/ call'[r].name # next.name
      BY <2>1, <1>2 DEF Alone, OnOwn
    <3>1. OnOwn(p, next.name) BY DEF SkillInv, Alone
    <3>2. call[r].at = "none" \/ call[r].name # next.name BY <3>1 DEF OnOwn
    <3> QED BY <3>2, <1>1
  <2>2. CASE q # p
    <3> SUFFICES ASSUME call'[q].at # "none", call'[q].alone, NEW r \in Callers \ {q}
        PROVE call'[r].at = "none" \/ call'[r].name # call'[q].name
      BY DEF Alone, OnOwn
    <3>1. OnOwn(q, call[q].name) /\ call'[q].name = call[q].name
      BY <2>2, <1>1 DEF SkillInv, Alone
    <3>2. CASE r = p BY <3>2, <2>2, <3>1, <1>1, <1>2
    <3>3. CASE r # p
      <4>1. call[r].at = "none" \/ call[r].name # call[q].name BY <3>1 DEF OnOwn
      <4> QED BY <4>1, <3>3, <3>1, <1>1
    <3> QED BY <3>2, <3>3
  <2> QED BY <2>1, <2>2
<1>4. ASSUME NEW q \in Callers PROVE Expects(call[q])'
  <2>1. CASE q = p BY <2>1, <1>2 DEF Expects
  <2>2. CASE q # p
    <3> SUFFICES ASSUME call'[q].at # "none", call'[q].alone
        PROVE /\ call'[q].at = "send" => shown'[call'[q].name] \notin BusyPane
              /\ call'[q].qa /\ call'[q].at = "look" => shown'[call'[q].name] = "absent"
              /\ call'[q].qa => call'[q].at # "diagnose"
      BY DEF Expects, BusyPane
    <3>1. /\ call[q].at # "none" /\ call[q].alone /\ call'[q].at = call[q].at
          /\ call'[q].name = call[q].name /\ call'[q].qa = call[q].qa
          /\ call[q].name \in SkillSessions
      BY <2>2, <1>0, <1>1 DEF Calls, NoCall
    <3>2. shown'[call[q].name] = shown[call[q].name]
      <4>1. OnOwn(q, call[q].name) BY <3>1 DEF SkillInv, Alone
      <4>2. call[p].at = "none" \/ call[p].name # call[q].name BY <4>1, <2>2 DEF OnOwn
      <4> QED BY <4>2, <3>1
    <3>3. Expects(call[q]) BY DEF SkillInv
    <3> QED BY <3>1, <3>2, <3>3 DEF Expects
  <2> QED BY <2>1, <2>2
<1> QED BY <1>2, <1>3, <1>4 DEF SkillInv, SkillTypes

\* A command that gives its session up, or goes on to a step that expects
\* nothing of it.
LEMMA CallGoesOn ==
  ASSUME SkillInv, NEW p \in Callers, call[p].at # "none",
         NEW at \in {"create", "launch", "wait"}, To(p, NoCall) \/ To(p, At(p, at)),
         shown' \in [SkillSessions -> Healths],
         \A s \in SkillSessions : s # call[p].name => shown'[s] = shown[s]
  PROVE  SkillInv'
<1>0. call[p] \in Calls \ {NoCall} BY DEF SkillInv, SkillTypes, NoCall
<1>1. CASE To(p, NoCall)
  <2>1. NoCall \in Calls /\ NoCall.at = "none" BY DEF NoCall, Calls
  <2>2. Expects(NoCall)' BY <2>1 DEF Expects
  <2> QED BY <2>1, <2>2, <1>1, CallMoves
<1>2. CASE To(p, At(p, at))
  <2>1. /\ At(p, at) \in Calls /\ At(p, at).at = at /\ At(p, at).alone = call[p].alone
        /\ At(p, at).name = call[p].name
    BY <1>0 DEF At, Calls
  <2> DEFINE next == At(p, at)
  <2>2. next \in Calls /\ To(p, next) BY <2>1, <1>2
  <2>3. next.at = at /\ (next.alone => call[p].alone) /\ call[p].name = next.name BY <2>1
  <2> HIDE DEF next
  <2>4. PICK c \in Calls : c = next BY <2>2
  <2>5. Expects(c)' BY <2>3, <2>4 DEF Expects
  <2> QED BY <2>2, <2>3, <2>4, <2>5, CallMoves
<1> QED BY <1>1, <1>2

LEMMA TypedTouchesOne ==
  ASSUME SkillTypes, NEW name \in SkillSessions, NEW skill \in BOOLEAN, Typed(name, skill)
  PROVE  /\ shown' \in [SkillSessions -> Healths]
         /\ \A s \in SkillSessions : s # name => shown'[s] = shown[s]
BY DEF SkillTypes, Typed, Healths

\* The step a caller has reached, and its session.
LEMMA CallerIsAt ==
  ASSUME SkillInv, NEW p \in Callers, call[p].at # "none"
  PROVE  /\ call[p] \in Calls \ {NoCall} /\ call[p].name \in SkillSessions
         /\ shown \in [SkillSessions -> Healths]
<1>1. call[p] \in Calls /\ call[p] # NoCall BY DEF SkillInv, SkillTypes, NoCall
<1> QED BY <1>1 DEF Calls, SkillInv, SkillTypes

LEMMA CommandStarts ==
  ASSUME SkillInv, NEW p \in Callers, NEW cmd \in SkillCommands, SkillCommand(p, cmd)
  PROVE  SkillInv'
<1> DEFINE next == [at |-> "look", qa |-> FALSE, name |-> SkillHome[cmd],
                    alone |-> OnOwn(p, SkillHome[cmd])]
<1>1. next \in Calls
  <2>1. SkillHome[cmd] \in SkillSessions BY DEF SkillSessions
  <2>2. OnOwn(p, SkillHome[cmd]) \in BOOLEAN BY DEF OnOwn
  <2> QED BY <2>1, <2>2 DEF Calls
<1>2. To(p, next) /\ shown' = shown BY DEF SkillCommand
<1>3. PICK c \in Calls : c = next BY <1>1
<1>4. Expects(c)' BY <1>3 DEF Expects
<1>5. c.at # "none" /\ c.alone => OnOwn(p, c.name) BY <1>3
<1>6. shown' \in [SkillSessions -> Healths] BY <1>2 DEF SkillInv, SkillTypes
<1>7. To(p, c) BY <1>2, <1>3
<1> QED BY <1>2, <1>4, <1>5, <1>6, <1>7, CallMoves

LEMMA DiagramStarts ==
  ASSUME SkillInv, NEW p \in Callers, Diagram(p)
  PROVE  SkillInv'
<1> DEFINE name == QaSessions[DiagramSlot(shown)]
           next == [at |-> IF shown[name] = "idle" THEN "send" ELSE "look", qa |-> TRUE,
                    name |-> name, alone |-> OnOwn(p, name)]
<1>0. SkillTypes /\ DiagramSlot(shown) # 0 BY DEF SkillInv, Diagram
<1>1. name \in SkillSessions /\ shown[name] \in {"absent", "idle"}
  BY <1>0, SlotIsFree DEF SkillSessions, QaNames
<1>2. next \in Calls
  <2>1. OnOwn(p, name) \in BOOLEAN BY DEF OnOwn
  <2> QED BY <1>1, <2>1 DEF Calls
<1>3. To(p, next) /\ shown' = shown BY DEF Diagram
<1>4. PICK c \in Calls : c = next BY <1>2
<1>5. Expects(c)' BY <1>1, <1>3, <1>4 DEF Expects, BusyPane
<1>6. c.at # "none" /\ c.alone => OnOwn(p, c.name) BY <1>4
<1>7. shown' \in [SkillSessions -> Healths] BY <1>3 DEF SkillInv, SkillTypes
<1>8. To(p, c) BY <1>3, <1>4
<1> QED BY <1>3, <1>5, <1>6, <1>7, <1>8, CallMoves

\* A command that goes on at its session, with the sessions as they are.
LEMMA CallSteps ==
  ASSUME SkillInv, NEW p \in Callers, call[p].at # "none",
         NEW at \in {"create", "diagnose", "launch", "wait", "send"}, To(p, At(p, at)),
         shown' = shown,
         call[p].alone /\ at = "send" => shown[call[p].name] \notin BusyPane,
         call[p].alone /\ at = "diagnose" => ~ call[p].qa
  PROVE  SkillInv'
<1>0. /\ call[p] \in Calls \ {NoCall} /\ call[p].name \in SkillSessions
      /\ shown \in [SkillSessions -> Healths]
  BY CallerIsAt
<1> DEFINE next == At(p, at)
<1>1. /\ next \in Calls /\ next.at = at /\ next.alone = call[p].alone
      /\ next.name = call[p].name /\ next.qa = call[p].qa
  BY <1>0 DEF At, Calls
<1>2. To(p, next) OBVIOUS
<1> HIDE DEF next
<1>3. PICK c \in Calls : c = next BY <1>1
<1>4. Expects(c)' BY <1>1, <1>3 DEF Expects, BusyPane
<1> QED BY <1>0, <1>1, <1>2, <1>3, <1>4, CallMoves

LEMMA LookUpKeeps ==
  ASSUME SkillInv, NEW p \in Callers, LookUp(p)
  PROVE  SkillInv'
<1>1. call[p].at = "look" /\ shown' = shown BY DEF LookUp
<1>2. CASE shown[call[p].name] = "absent"
  <2>1. To(p, At(p, "create")) BY <1>2 DEF LookUp
  <2> QED BY <1>1, <2>1, CallSteps
<1>3. CASE shown[call[p].name] # "absent"
  <2>1. To(p, At(p, "diagnose")) BY <1>3 DEF LookUp
  <2>2. Expects(call[p]) BY DEF SkillInv
  <2>3. call[p].alone => ~ call[p].qa BY <1>1, <1>3, <2>2 DEF Expects
  <2> QED BY <1>1, <2>1, <2>3, CallSteps
<1> QED BY <1>2, <1>3

LEMMA DiagnoseKeeps ==
  ASSUME SkillInv, NEW p \in Callers, Diagnose(p)
  PROVE  SkillInv'
<1> DEFINE health == shown[call[p].name]
<1>1. call[p].at = "diagnose" /\ shown' = shown BY DEF Diagnose
<1>2. health \in Healths /\ shown \in [SkillSessions -> Healths] BY <1>1, CallerIsAt
<1>3. /\ Answer("absent")[1] = "create" /\ Answer("crashed")[1] = "launch"
      /\ Answer("idle")[1] = "send"
      /\ \A h \in BusyPane : Answer(h)[1] = "skip"
  BY DEF Answer, BusyPane
<1>4. CASE health = "crashed"
  <2>1. To(p, At(p, "launch")) BY <1>3, <1>4 DEF Diagnose
  <2> QED BY <1>1, <2>1, CallSteps
<1>5. CASE health = "idle"
  <2>1. To(p, At(p, "send")) BY <1>3, <1>5 DEF Diagnose
  <2>2. health \notin BusyPane BY <1>5 DEF BusyPane
  <2> QED BY <1>1, <2>1, <2>2, CallSteps
<1>6. CASE health \in {"absent"} \cup BusyPane
  <2>1. Answer(health)[1] \notin {"launch", "send"} BY <1>3, <1>6
  <2>2. CASE call[p].qa /\ health # "absent"
    <3>1. To(p, At(p, "send")) BY <2>1, <2>2 DEF Diagnose
    <3>2. Expects(call[p]) BY DEF SkillInv
    <3>3. ~ call[p].alone BY <1>1, <2>2, <3>2 DEF Expects
    <3> QED BY <1>1, <3>1, <3>3, CallSteps
  <2>3. CASE ~ (call[p].qa /\ health # "absent")
    <3>1. To(p, NoCall) BY <2>1, <2>3 DEF Diagnose
    <3> QED BY <1>1, <1>2, <3>1, CallGoesOn
  <2> QED BY <2>2, <2>3
<1> QED BY <1>2, <1>4, <1>5, <1>6 DEF Healths, BusyPane

LEMMA CreateKeeps ==
  ASSUME SkillInv, NEW p \in Callers, Create(p)
  PROVE  SkillInv'
<1>1. call[p].at = "create" BY DEF Create
<1>2. call[p].name \in SkillSessions /\ shown \in [SkillSessions -> Healths]
  BY <1>1, CallerIsAt
<1>3. /\ shown' \in [SkillSessions -> Healths]
      /\ \A s \in SkillSessions : s # call[p].name => shown'[s] = shown[s]
  BY <1>2 DEF Create, Healths
<1>4. To(p, NoCall) \/ To(p, At(p, "launch")) BY DEF Create
<1> QED BY <1>1, <1>3, <1>4, CallGoesOn

LEMMA LaunchKeeps ==
  ASSUME SkillInv, NEW p \in Callers, Launch(p)
  PROVE  SkillInv'
<1>1. call[p].at = "launch" BY DEF Launch
<1>2. call[p].name \in SkillSessions /\ shown \in [SkillSessions -> Healths] /\ SkillTypes
  BY <1>1, CallerIsAt DEF SkillInv
<1>3. /\ shown' \in [SkillSessions -> Healths]
      /\ \A s \in SkillSessions : s # call[p].name => shown'[s] = shown[s]
  BY <1>2, TypedTouchesOne DEF Launch
<1>4. To(p, NoCall) \/ To(p, At(p, "wait")) BY DEF Launch
<1> QED BY <1>1, <1>3, <1>4, CallGoesOn

LEMMA WaitKeeps ==
  ASSUME SkillInv, NEW p \in Callers, AwaitIdle(p) \/ GiveUpWaiting(p)
  PROVE  SkillInv'
<1>1. call[p].at = "wait" /\ shown' = shown BY DEF AwaitIdle, GiveUpWaiting
<1>2. shown \in [SkillSessions -> Healths] BY <1>1, CallerIsAt
<1>3. CASE AwaitIdle(p)
  <2>1. To(p, At(p, "send")) /\ shown[call[p].name] \notin BusyPane
    BY <1>3 DEF AwaitIdle, BusyPane
  <2> QED BY <1>1, <2>1, CallSteps
<1>4. CASE GiveUpWaiting(p)
  <2>1. To(p, NoCall) BY <1>4 DEF GiveUpWaiting
  <2> QED BY <1>1, <1>2, <2>1, CallGoesOn
<1> QED BY <1>3, <1>4

LEMMA SendKeeps ==
  ASSUME SkillInv, NEW p \in Callers, SendSkill(p)
  PROVE  SkillInv'
<1>1. call[p].at # "none" /\ To(p, NoCall) BY DEF SendSkill
<1>2. call[p].name \in SkillSessions /\ shown \in [SkillSessions -> Healths] /\ SkillTypes
  BY <1>1, CallerIsAt DEF SkillInv
<1>3. /\ shown' \in [SkillSessions -> Healths]
      /\ \A s \in SkillSessions : s # call[p].name => shown'[s] = shown[s]
  BY <1>2, TypedTouchesOne DEF SendSkill
<1> QED BY <1>1, <1>3, CallGoesOn

\* What Claude does by itself makes no session busy and brings none back.
LEMMA PaneKeeps ==
  ASSUME SkillInv, NEW s \in SkillSessions, PaneChanges(s)
  PROVE  SkillInv'
<1>1. call' = call /\ call \in [Callers -> Calls] BY DEF PaneChanges, SkillInv, SkillTypes
<1>2. /\ shown' \in [SkillSessions -> Healths]
      /\ \A t \in SkillSessions : /\ shown[t] \notin BusyPane => shown'[t] \notin BusyPane
                                  /\ shown[t] = "absent" => shown'[t] = "absent"
  BY DEF PaneChanges, SkillInv, SkillTypes, Healths, BusyPane
<1>3. ASSUME NEW q \in Callers PROVE Expects(call[q])' /\ Alone(q)'
  <2>1. Alone(q)' BY <1>1 DEF SkillInv, Alone, OnOwn
  <2>2. Expects(call[q])'
    <3>1. call[q].at # "none" => call[q].name \in SkillSessions BY CallerIsAt
    <3>2. Expects(call[q]) BY DEF SkillInv
    <3> QED BY <1>1, <1>2, <3>1, <3>2 DEF Expects, BusyPane
  <2> QED BY <2>1, <2>2
<1> QED BY <1>1, <1>2, <1>3 DEF SkillInv, SkillTypes

LEMMA SkillNextInv == SkillInv /\ [SkillNext]_skillVars => SkillInv'
<1> SUFFICES ASSUME SkillInv, [SkillNext]_skillVars PROVE SkillInv' OBVIOUS
<1>1. CASE UNCHANGED skillVars
  BY <1>1 DEF skillVars, SkillInv, SkillTypes, Expects, Alone, OnOwn
<1>2. CASE \E p \in Callers, cmd \in SkillCommands : SkillCommand(p, cmd)
  BY <1>2, CommandStarts
<1>3. CASE \E p \in Callers : Diagram(p) BY <1>3, DiagramStarts
<1>4. CASE \E p \in Callers : LookUp(p) BY <1>4, LookUpKeeps
<1>5. CASE \E p \in Callers : Diagnose(p) BY <1>5, DiagnoseKeeps
<1>6. CASE \E p \in Callers : Create(p) BY <1>6, CreateKeeps
<1>7. CASE \E p \in Callers : Launch(p) BY <1>7, LaunchKeeps
<1>8. CASE \E p \in Callers : AwaitIdle(p) \/ GiveUpWaiting(p) BY <1>8, WaitKeeps
<1>9. CASE \E p \in Callers : SendSkill(p) BY <1>9, SendKeeps
<1>10. CASE \E s \in SkillSessions : PaneChanges(s) BY <1>10, PaneKeeps
<1> QED BY <1>1, <1>2, <1>3, <1>4, <1>5, <1>6, <1>7, <1>8, <1>9, <1>10, SkillAssumption
       DEF SkillNext, RunIdle, ChangeOverview, TicketDraft, TicketClose, ArchitectReview,
           SecurityReview, ArchitectPlan, SkillCommands

\* A command that had its session for itself never types its skill into a Claude
\* at work.
THEOREM SkillsGoToIdle == SkillSpec => []LoneSkillToIdle
<1>1. SkillInv => LoneSkillToIdle
  <2> SUFFICES ASSUME SkillInv, NEW p \in Callers, call[p].at = "send", call[p].alone
      PROVE shown[call[p].name] \notin BusyPane
    BY DEF LoneSkillToIdle
  <2>1. Expects(call[p]) BY DEF SkillInv
  <2> QED BY <2>1 DEF Expects
<1> QED BY <1>1, SkillInitInv, SkillNextInv, PTL DEF SkillSpec

\* With no idle QA session and the numbers from 1 to k there, the first free number
\* within the cap is k + 1.
LEMMA FirstFreeIsNext ==
  ASSUME NEW view, NEW k \in Nat, QaIdle(view) = {}, QaPresent(view) = 1..k
  PROVE  DiagramSlot(view) = IF k < MaxQaSlots THEN k + 1 ELSE 0
<1>1. QaFree(view) = (k + 1)..MaxQaSlots
  BY SkillAssumption DEF QaFree, QaIdle, QaPresent, QaNumbers
<1>2. CASE k < MaxQaSlots
  <2>1. k + 1 \in QaFree(view) /\ \A m \in QaFree(view) : k + 1 <= m
    BY SkillAssumption, <1>1, <1>2
  <2>2. \A n \in QaFree(view) : (\A m \in QaFree(view) : n <= m) => n = k + 1
    BY SkillAssumption, <1>1, <2>1
  <2>3. FirstOf(QaFree(view)) = k + 1 BY <2>1, <2>2 DEF FirstOf
  <2> QED BY <1>2, <2>1, <2>3 DEF DiagramSlot
<1>3. CASE ~ (k < MaxQaSlots)
  <2>1. QaFree(view) = {} BY SkillAssumption, <1>1, <1>3
  <2> QED BY <1>3, <2>1 DEF DiagramSlot
<1> QED BY <1>2, <1>3

\* What the dry run of diagram finds by counting the QA sessions is what a run
\* finds by looking for the first free number, while the numbers have no gap.
LEMMA CountIsFirstFree ==
  ASSUME NEW view, MaxQaSlots > 0, QaIdle(view) = {}, NoGap(view)
  PROVE  DryDiagramSlot(view) = DiagramSlot(view)
<1> DEFINE k == Cardinality(QaPresent(view))
<1>1. QaPresent(view) \subseteq QaNumbers /\ IsFiniteSet(QaNumbers)
  BY SkillAssumption DEF QaPresent, QaNumbers
<1>2. k \in Nat BY <1>1, FS_Subset, FS_CardinalityType
<1>3. QaPresent(view) = 1..k BY DEF NoGap
<1> HIDE DEF k
<1>4. DiagramSlot(view) = IF k < MaxQaSlots THEN k + 1 ELSE 0 BY <1>2, <1>3, FirstFreeIsNext
<1>5. DryDiagramSlot(view) = IF QaPresent(view) = {} THEN 1 ELSE IF k < MaxQaSlots THEN k + 1 ELSE 0
  BY DEF DryDiagramSlot, k
<1>6. CASE QaPresent(view) = {}
  <2>1. k = 0 BY <1>6, FS_EmptySet DEF k
  <2> QED BY SkillAssumption, <1>4, <1>5, <1>6, <2>1
<1> QED BY <1>4, <1>5, <1>6

\* The dry run of diagram names the QA session that a run takes, or none when a run
\* finds none, for any number of sessions within and beyond the cap: when one is
\* idle or their numbers have no gap, and the cap is not 0.
THEOREM DryRunTells == SkillSpec => []DryPlanTells
<1>1. QaIdle(shown) # {} => DryDiagramSlot(shown) = DiagramSlot(shown)
  BY DEF DryDiagramSlot, DiagramSlot
<1>2. DryPlanTells BY <1>1, CountIsFirstFree DEF DryPlanTells
<1> QED BY <1>2, PTL

-----------------------------------------------------------------------------
(* Self-update: passes on one checkout leave the binary not behind it.     *)

\* The checkout that a pass takes when none is named.
Home == ResolveRepo(NoCheckout)

PassStates ==
  {NoPass} \cup [at : {"before", "pull", "after", "install"}, repo : {Home}, force : BOOLEAN,
                 age : Nat, before : Nat]

UpdTypes ==
  /\ upstream \in Nat /\ headOf \in [{Home} -> Nat] /\ installed \in Nat
  /\ stamp \in Nat /\ updPass \in [Passes -> PassStates]

\* HEAD only moves on: what a pass has read before is not newer.
HeadMovesOn ==
  /\ headOf[Home] <= upstream
  /\ \A p \in Passes : updPass[p].at \in {"pull", "after"} => updPass[p].before <= headOf[Home]

\* A pass that will install: it is at it, or will find that HEAD has moved.
Installs(p) ==
  \/ updPass[p].at = "install"
  \/ updPass[p].at = "after" /\ (updPass[p].force \/ updPass[p].before # headOf[Home])

\* Whoever moves HEAD sees that it did, so a binary that is behind has somebody
\* who will build it.
SomebodyInstalls == installed # headOf[Home] => \E p \in Passes : Installs(p)

UpdInv == UpdTypes /\ HeadMovesOn /\ SomebodyInstalls

-----------------------------------------------------------------------------

\* A step of one pass that leaves HEAD and the binary alone keeps the invariant
\* when the pass goes on installing if it was to.
LEMMA PassMoves ==
  ASSUME UpdInv, NEW p \in Passes, NEW next \in PassStates, Go(p, next),
         next.at \in {"pull", "after"} => next.before <= headOf[Home],
         Installs(p) => \/ next.at = "install"
                        \/ next.at = "after" /\ (next.force \/ next.before # headOf[Home]),
         UNCHANGED <<upstream, headOf, installed>>, stamp' \in Nat
  PROVE  UpdInv'
<1>1. /\ updPass' \in [Passes -> PassStates] /\ updPass'[p] = next
      /\ \A q \in Passes \ {p} : updPass'[q] = updPass[q]
  BY DEF Go, UpdInv, UpdTypes
<1>2. UpdTypes' /\ HeadMovesOn' BY <1>1 DEF UpdInv, UpdTypes, HeadMovesOn
<1>3. SomebodyInstalls'
  <2> SUFFICES ASSUME installed # headOf[Home] PROVE \E q \in Passes : Installs(q)'
    BY DEF SomebodyInstalls
  <2>1. PICK q \in Passes : Installs(q) BY DEF UpdInv, SomebodyInstalls
  <2>2. CASE q = p BY <2>1, <2>2, <1>1 DEF Installs
  <2>3. CASE q # p BY <2>1, <2>3, <1>1 DEF Installs
  <2> QED BY <2>2, <2>3
<1> QED BY <1>2, <1>3 DEF UpdInv

LEMMA PullKeeps ==
  ASSUME UpdInv, NEW p \in Passes, Pull(p) PROVE UpdInv'
<1>a. updPass[p].at = "pull" /\ updPass[p] \in PassStates /\ updPass[p] # NoPass
  BY DEF Pull, UpdInv, UpdTypes, NoPass
<1>b. updPass[p].repo = Home /\ updPass[p].before \in Nat
  BY <1>a DEF PassStates
<1>c. /\ headOf' \in [{Home} -> Nat] /\ headOf'[Home] = upstream
      /\ UNCHANGED <<upstream, installed, stamp>>
  BY <1>b DEF Pull, UpdInv, UpdTypes
<1>d. /\ [updPass[p] EXCEPT !.at = "after"] \in PassStates
      /\ [updPass[p] EXCEPT !.at = "after"].at = "after"
      /\ [updPass[p] EXCEPT !.at = "after"].before = updPass[p].before
  BY <1>a DEF PassStates
<1>e. /\ updPass' \in [Passes -> PassStates] /\ updPass'[p] = [updPass[p] EXCEPT !.at = "after"]
      /\ \A q \in Passes \ {p} : updPass'[q] = updPass[q]
  BY <1>d DEF Pull, Go, UpdInv, UpdTypes
<1>f. headOf[Home] \in Nat /\ upstream \in Nat /\ headOf[Home] <= upstream
  BY DEF UpdInv, UpdTypes, HeadMovesOn
<1>1. UpdTypes' BY <1>c, <1>e DEF UpdInv, UpdTypes
<1>2. HeadMovesOn'
  <2>1. ASSUME NEW q \in Passes, updPass'[q].at \in {"pull", "after"}
        PROVE  updPass'[q].before <= headOf'[Home]
    <3>1. updPass[q].at \in {"pull", "after"} /\ updPass'[q].before = updPass[q].before
      BY <2>1, <1>a, <1>d, <1>e
    <3>2. updPass[q].before \in Nat
      BY <3>1 DEF UpdInv, UpdTypes, PassStates, NoPass
    <3>3. updPass[q].before <= headOf[Home] BY <3>1 DEF UpdInv, HeadMovesOn
    <3> QED BY <3>1, <3>2, <3>3, <1>c, <1>f
  <2> QED BY <2>1, <1>c, <1>f DEF HeadMovesOn
<1>3. SomebodyInstalls'
  <2>1. CASE headOf'[Home] = headOf[Home]
    <3> SUFFICES ASSUME installed # headOf[Home] PROVE \E q \in Passes : Installs(q)'
      BY <2>1, <1>c DEF SomebodyInstalls
    <3>1. PICK q \in Passes : Installs(q) BY DEF UpdInv, SomebodyInstalls
    <3>2. q # p BY <3>1, <1>a DEF Installs
    <3> QED BY <3>1, <3>2, <2>1, <1>e DEF Installs
  <2>2. CASE headOf'[Home] # headOf[Home]
    <3>1. updPass[p].before <= headOf[Home] BY <1>a DEF UpdInv, HeadMovesOn
    <3>2. updPass'[p].before # headOf'[Home] BY <3>1, <2>2, <1>b, <1>c, <1>d, <1>e, <1>f
    <3> QED BY <3>2, <1>d, <1>e DEF SomebodyInstalls, Installs
  <2> QED BY <2>1, <2>2
<1> QED BY <1>1, <1>2, <1>3 DEF UpdInv

LEMMA UpdNextInv ==
  ASSUME Checkouts = {Home}, Interval \in Nat, UpdInv, [UpdNext]_updVars
  PROVE  UpdInv'
<1>n. NoPass \in PassStates /\ NoPass.at = "none" BY DEF NoPass, PassStates
<1>t. UpdTypes BY DEF UpdInv
<1>1. ASSUME NEW p \in Passes, NEW c \in Checkouts \cup {NoCheckout}, NEW f \in BOOLEAN, Begin(p, c, f)
      PROVE  UpdInv'
  <2>1. ResolveRepo(c) = Home BY DEF ResolveRepo, Home
  <2>2. CASE UNCHANGED updPass
    BY <2>2, <1>1 DEF Begin, UpdInv, UpdTypes, HeadMovesOn, SomebodyInstalls, Installs
  <2>3. CASE ~ UNCHANGED updPass
    <3> DEFINE next == [at |-> "before", repo |-> ResolveRepo(c), force |-> f, age |-> 0, before |-> 0]
    <3>1. next \in PassStates /\ next.at = "before" BY <2>1 DEF PassStates
    <3>2. Go(p, next) /\ UNCHANGED <<upstream, headOf, installed, stamp>> /\ ~ Installs(p)
      BY <1>1, <2>3 DEF Begin, Installs
    <3> HIDE DEF next
    <3> QED BY <3>1, <3>2, <1>t, PassMoves DEF UpdTypes
  <2> QED BY <2>2, <2>3
<1>2. ASSUME NEW p \in Passes, ReadBefore(p) PROVE UpdInv'
  <2> DEFINE next == [updPass[p] EXCEPT !.at = "pull", !.before = headOf[updPass[p].repo]]
  <2>1. updPass[p].at = "before" /\ updPass[p] \in PassStates \ {NoPass}
    BY <1>2, <1>t, <1>n DEF ReadBefore, UpdTypes
  <2>2. updPass[p].repo = Home BY <2>1 DEF PassStates
  <2>3. next \in PassStates /\ next.at = "pull" /\ next.before = headOf[Home]
    BY <2>1, <2>2, <1>t DEF PassStates, UpdTypes
  <2>4. Go(p, next) /\ UNCHANGED <<upstream, headOf, installed, stamp>> /\ ~ Installs(p)
    BY <1>2 DEF ReadBefore, Installs
  <2> HIDE DEF next
  <2> QED BY <2>3, <2>4, <1>t, PassMoves DEF UpdTypes
<1>3. ASSUME NEW p \in Passes, Pull(p) PROVE UpdInv' BY <1>3, PullKeeps
<1>4. ASSUME NEW p \in Passes, PullFails(p) PROVE UpdInv'
  <2>1. Go(p, NoPass) /\ UNCHANGED <<upstream, headOf, installed, stamp>> /\ ~ Installs(p)
    BY <1>4 DEF PullFails, Leave, Installs
  <2> QED BY <2>1, <1>n, <1>t, PassMoves DEF UpdTypes
<1>5. ASSUME NEW p \in Passes, ReadAfter(p) PROVE UpdInv'
  <2>1. updPass[p].at = "after" /\ updPass[p] \in PassStates \ {NoPass}
    BY <1>5, <1>t, <1>n DEF ReadAfter, UpdTypes
  <2>2. updPass[p].repo = Home /\ updPass[p].age \in Nat BY <2>1 DEF PassStates
  <2>3. CASE headOf[Home] = updPass[p].before /\ ~ updPass[p].force
    <3>1. Go(p, NoPass) /\ UNCHANGED <<upstream, headOf, installed>> /\ stamp' \in Nat /\ ~ Installs(p)
      BY <1>5, <2>1, <2>2, <2>3 DEF ReadAfter, Leave, Installs
    <3> QED BY <3>1, <1>n, PassMoves
  <2>4. CASE ~ (headOf[Home] = updPass[p].before /\ ~ updPass[p].force)
    <3> DEFINE next == [updPass[p] EXCEPT !.at = "install"]
    <3>1. next \in PassStates /\ next.at = "install" BY <2>1 DEF PassStates
    <3>2. Go(p, next) /\ UNCHANGED <<upstream, headOf, installed, stamp>>
      BY <1>5, <2>2, <2>4 DEF ReadAfter
    <3> HIDE DEF next
    <3> QED BY <3>1, <3>2, <1>t, PassMoves DEF UpdTypes
  <2> QED BY <2>3, <2>4
<1>6. ASSUME NEW p \in Passes, Install(p) PROVE UpdInv'
  <2>1. updPass[p].at = "install" /\ updPass[p] \in PassStates \ {NoPass}
    BY <1>6, <1>t, <1>n DEF Install, UpdTypes
  <2>2. updPass[p].repo = Home /\ updPass[p].age \in Nat BY <2>1 DEF PassStates
  <2>3. /\ updPass' \in [Passes -> PassStates] /\ updPass'[p] = NoPass
        /\ \A q \in Passes \ {p} : updPass'[q] = updPass[q]
        /\ UNCHANGED <<upstream, headOf>> /\ installed' = headOf[Home] /\ stamp' \in Nat
    BY <1>6, <1>n, <1>t, <2>2 DEF Install, Leave, Go, UpdTypes
  <2> QED BY <2>3, <1>n, <1>t DEF UpdInv, UpdTypes, HeadMovesOn, SomebodyInstalls
<1>7. CASE Push
  BY <1>7 DEF Push, UpdInv, UpdTypes, HeadMovesOn, SomebodyInstalls, Installs
<1>8. CASE HourPasses
  <2>1. \A age \in Nat : Older(age) \in Nat BY DEF Older
  <2>2. ASSUME NEW p \in Passes
        PROVE  /\ updPass'[p] \in PassStates
               /\ updPass'[p].at = updPass[p].at
               /\ updPass[p].at # "none" => /\ updPass'[p].before = updPass[p].before
                                            /\ updPass'[p].force = updPass[p].force
    <3>1. CASE updPass[p].at = "none" BY <3>1, <1>8, <1>n DEF HourPasses
    <3>2. CASE updPass[p].at # "none"
      <4>1. updPass'[p] = [updPass[p] EXCEPT !.age = Older(updPass[p].age)] BY <3>2, <1>8 DEF HourPasses
      <4>2. updPass[p] \in PassStates \ {NoPass} BY <3>2, <1>n, <1>t DEF UpdTypes
      <4> QED BY <4>1, <4>2, <2>1 DEF PassStates
    <3> QED BY <3>1, <3>2
  <2>3. updPass' \in [Passes -> PassStates] /\ stamp' \in Nat /\ UNCHANGED <<upstream, headOf, installed>>
    BY <2>1, <2>2, <1>8, <1>t DEF HourPasses, UpdTypes
  <2> QED BY <2>2, <2>3 DEF UpdInv, UpdTypes, HeadMovesOn, SomebodyInstalls, Installs
<1>9. CASE UNCHANGED updVars
  BY <1>9 DEF updVars, UpdInv, UpdTypes, HeadMovesOn, SomebodyInstalls, Installs
<1> QED BY <1>1, <1>2, <1>3, <1>4, <1>5, <1>6, <1>7, <1>8, <1>9 DEF UpdNext, PassStep

\* With one checkout, and installs that do not fail, the binary is the one of
\* the checkout whenever no pass is at work, however passes overlap
\* (self_update.rs: HEAD before and after the pull).
THEOREM BinaryFollows ==
  ASSUME Checkouts = {Home}, Interval \in Nat
  PROVE  UpdSpec => []PulledIsInstalled
<1>1. UpdInit => UpdInv
  BY DEF UpdInit, UpdInv, UpdTypes, HeadMovesOn, SomebodyInstalls, PassStates, NoPass, Never
<1>2. UpdInv /\ [UpdNext]_updVars => UpdInv' BY UpdNextInv
<1>3. UpdInv => PulledIsInstalled
  BY DEF UpdInv, SomebodyInstalls, Installs, PulledIsInstalled, Home
<1> QED BY <1>1, <1>2, <1>3, PTL DEF UpdSpec

-----------------------------------------------------------------------------
(* Dashboard: an outlet that keeps up is told of what it does not show.    *)

PaneHealths == {"absent", "crashed", "working", "idle"}
Snapshots == [PodSessions -> PaneHealths]

OutletStates ==
  [at : {"off", "on"}, inbox : Seq(PodSessions), view : Snapshots, due : BOOLEAN,
   after : BOOLEAN, early : BOOLEAN, lagged : BOOLEAN]

Refreshes ==
  [at : {"none", "look"}, todo : SUBSET PodSessions, taken : Snapshots, told : SUBSET PodSessions]

DashTypes ==
  /\ snapshot \in Snapshots /\ refresh \in Refreshes /\ outlet \in [Outlets -> OutletStates]

\* What a refresh has not announced stays as it is, or goes.
Announced ==
  /\ refresh.at = "none" => refresh.told = {}
  /\ \A s \in PodSessions :
       s \notin refresh.told => refresh.taken[s] = "absent" \/ refresh.taken[s] = snapshot[s]

\* An outlet with nothing to read shows what the snapshot has, and has missed no
\* announcement of the refresh that is under way.
UpToDate(o) ==
  o.after /\ ~ o.early /\ ~ o.lagged /\ o.inbox = <<>> /\ ~ o.due =>
    /\ refresh.told = {}
    /\ \A s \in PodSessions : snapshot[s] = "absent" \/ snapshot[s] = o.view[s]

DashInv ==
  /\ DashTypes /\ Announced
  /\ \A o \in Outlets : UpToDate(outlet[o]) /\ (outlet[o].at = "off" => ~ outlet[o].after)

-----------------------------------------------------------------------------

LEMMA NothingIsShown == NothingShown \in Snapshots BY DEF NothingShown, Snapshots, PaneHealths

LEMMA DashInitInv == DashInit => DashInv
<1> SUFFICES ASSUME DashInit PROVE DashInv OBVIOUS
<1>1. NoRefresh \in Refreshes /\ Offline \in OutletStates
  BY NothingIsShown DEF NoRefresh, Offline, Refreshes, OutletStates
<1>2. DashTypes BY <1>1, NothingIsShown DEF DashInit, DashTypes
<1>3. Announced BY DEF DashInit, Announced, NoRefresh
<1>4. ~ Offline.after BY DEF Offline
<1> QED BY <1>2, <1>3, <1>4 DEF DashInit, DashInv, UpToDate

\* An outlet that an event reaches has something to read, or is not there.
LEMMA ReceiveTells ==
  ASSUME NEW o \in OutletStates, NEW s \in PodSessions
  PROVE  /\ Receive(o, s) \in OutletStates /\ Receive(o, s).at = o.at
         /\ Receive(o, s).after = o.after
         /\ o.at = "on" => Receive(o, s).inbox # <<>>
<1>1. CASE o.at = "off" BY <1>1 DEF Receive
<1>2. CASE o.at # "off" /\ Len(o.inbox) < ChannelCap
  <2>1. Append(o.inbox, s) \in Seq(PodSessions) /\ Append(o.inbox, s) # <<>>
    BY DEF OutletStates
  <2>2. Receive(o, s) = [o EXCEPT !.inbox = Append(o.inbox, s)] BY <1>2 DEF Receive
  <2> QED BY <2>1, <2>2 DEF OutletStates
<1>3. CASE o.at # "off" /\ ~ (Len(o.inbox) < ChannelCap)
  <2>0. o.inbox # <<>> BY <1>3, ChannelHolds
  <2>1. Tail(o.inbox) \in Seq(PodSessions) BY <2>0 DEF OutletStates
  <2>2. Append(Tail(o.inbox), s) \in Seq(PodSessions) /\ Append(Tail(o.inbox), s) # <<>> BY <2>1
  <2>3. Receive(o, s) = [o EXCEPT !.inbox = Append(Tail(o.inbox), s), !.lagged = TRUE]
    BY <1>3 DEF Receive
  <2> QED BY <2>2, <2>3 DEF OutletStates
<1> QED BY <1>1, <1>2, <1>3

-----------------------------------------------------------------------------
(* The steps of the poll loop.                                             *)

\* Looking at a session: it is announced, or it is as it was.
LEMMA LookAtKeeps ==
  ASSUME DashInv, NEW s \in PodSessions, LookAt(s) PROVE DashInv'
<1> DEFINE health == ClassifyPane(podPanes[s])
<1>0. health \in PaneHealths /\ refresh \in Refreshes /\ refresh.at = "look" /\ snapshot' = snapshot
  BY DEF ClassifyPane, PaneHealths, LookAt, DashInv, DashTypes
<1> HIDE DEF health
<1>1. CASE snapshot[s] = health
  <2>1. refresh' = [refresh EXCEPT !.todo = refresh.todo \ {s}, !.taken = [refresh.taken EXCEPT ![s] = health]]
    BY <1>0, <1>1 DEF LookAt, health, Refreshes
  <2>2. /\ refresh' \in Refreshes /\ refresh'.at = "look" /\ refresh'.told = refresh.told
        /\ refresh'.taken = [refresh.taken EXCEPT ![s] = health]
    BY <2>1, <1>0 DEF Refreshes, Snapshots
  <2>3. outlet' = outlet BY <1>1 DEF LookAt, health
  <2>4. refresh.taken \in Snapshots BY <1>0 DEF Refreshes
  <2>5. Announced' BY <2>2, <2>4, <1>0, <1>1 DEF Announced, DashInv, Snapshots
  <2>6. DashTypes' BY <2>2, <2>3, <1>0 DEF DashInv, DashTypes
  <2> QED BY <2>2, <2>3, <2>5, <2>6, <1>0 DEF DashInv, UpToDate
<1>2. CASE snapshot[s] # health
  <2>1. refresh' = [refresh EXCEPT !.todo = refresh.todo \ {s}, !.taken = [refresh.taken EXCEPT ![s] = health],
                                   !.told = refresh.told \cup {s}]
    BY <1>0, <1>2 DEF LookAt, health, Refreshes
  <2>2. /\ refresh' \in Refreshes /\ refresh'.at = "look" /\ refresh'.told = refresh.told \cup {s}
        /\ refresh'.taken = [refresh.taken EXCEPT ![s] = health]
    BY <2>1, <1>0 DEF Refreshes, Snapshots
  <2>3. outlet' = [o \in Outlets |-> Receive(outlet[o], s)] BY <1>2 DEF LookAt, SendEvent, health
  <2>4. refresh.taken \in Snapshots BY <1>0 DEF Refreshes
  <2>5. Announced' BY <2>2, <2>4, <1>0 DEF Announced, DashInv, Snapshots
  <2>6. ASSUME NEW o \in Outlets
        PROVE  /\ outlet'[o] \in OutletStates /\ UpToDate(outlet[o])'
               /\ outlet'[o].at = "off" => ~ outlet'[o].after
    <3>1. outlet[o] \in OutletStates BY DEF DashInv, DashTypes
    <3>2. outlet'[o] = Receive(outlet[o], s) BY <2>3
    <3>3. outlet[o].at = "off" => ~ outlet[o].after BY DEF DashInv
    <3>4. outlet[o].at \in {"off", "on"} BY <3>1 DEF OutletStates
    <3> QED BY <3>1, <3>2, <3>3, <3>4, ReceiveTells DEF UpToDate
  <2>7. DashTypes' BY <2>2, <2>3, <2>6, <1>0 DEF DashInv, DashTypes
  <2> QED BY <2>5, <2>6, <2>7 DEF DashInv
<1> QED BY <1>1, <1>2

\* The snapshot is replaced: an outlet that heard nothing sees no difference.
LEMMA WriteSnapshotKeeps ==
  ASSUME DashInv, WriteSnapshot PROVE DashInv'
<1>1. /\ refresh \in Refreshes /\ snapshot' = refresh.taken /\ outlet' = outlet
      /\ refresh' = NoRefresh /\ NoRefresh \in Refreshes /\ refresh.taken \in Snapshots
  BY NothingIsShown DEF WriteSnapshot, DashInv, DashTypes, NoRefresh, Refreshes
<1>2. DashTypes' BY <1>1 DEF DashInv, DashTypes
<1>3. refresh'.told = {} /\ \A s \in PodSessions : refresh'.taken[s] = "absent"
  BY <1>1 DEF NoRefresh, NothingShown
<1>4. Announced' BY <1>3 DEF Announced
<1>5. ASSUME NEW o \in Outlets PROVE UpToDate(outlet[o])'
  <2> SUFFICES ASSUME outlet[o].after, ~ outlet[o].early, ~ outlet[o].lagged,
                      outlet[o].inbox = <<>>, ~ outlet[o].due, NEW s \in PodSessions
      PROVE snapshot'[s] = "absent" \/ snapshot'[s] = outlet[o].view[s]
    BY <1>1, <1>3 DEF UpToDate
  <2>1. /\ refresh.told = {}
        /\ snapshot[s] = "absent" \/ snapshot[s] = outlet[o].view[s]
    BY DEF DashInv, UpToDate
  <2>2. refresh.taken[s] = "absent" \/ refresh.taken[s] = snapshot[s]
    BY <2>1 DEF DashInv, Announced
  <2> QED BY <2>1, <2>2, <1>1
<1> QED BY <1>1, <1>2, <1>4, <1>5 DEF DashInv

LEMMA ListAndFailKeep ==
  ASSUME DashInv, ListSessions \/ \E s \in PodSessions : DiagnoseFails(s) PROVE DashInv'
<1>0. refresh \in Refreshes /\ UNCHANGED <<snapshot, outlet>>
  BY DEF DashInv, DashTypes, ListSessions, DiagnoseFails
<1>1. CASE ListSessions
  <2>1. /\ refresh' \in Refreshes /\ refresh'.at = "look" /\ refresh'.told = {}
        /\ refresh'.taken = NothingShown /\ refresh.told = {}
    BY <1>1, NothingIsShown DEF ListSessions, NoRefresh, Refreshes, DashInv, Announced
  <2> QED BY <2>1, <1>0 DEF DashInv, DashTypes, Announced, UpToDate, NothingShown
<1>2. CASE \E s \in PodSessions : DiagnoseFails(s)
  <2>1. /\ refresh' \in Refreshes /\ refresh'.at = refresh.at /\ refresh'.told = refresh.told
        /\ refresh'.taken = refresh.taken
    BY <1>0, <1>2 DEF DiagnoseFails, Refreshes
  <2> QED BY <2>1, <1>0 DEF DashInv, DashTypes, Announced, UpToDate
<1> QED BY <1>1, <1>2

\* A step of one outlet that leaves it up to date.
LEMMA OutletMoves ==
  ASSUME DashInv, NEW o \in Outlets, NEW next \in OutletStates, Becomes(o, next),
         UpToDate(next), next.at = "off" => ~ next.after
  PROVE  DashInv'
<1>1. UNCHANGED <<snapshot, refresh>> BY DEF Becomes
<1>2. /\ outlet' \in [Outlets -> OutletStates] /\ outlet'[o] = next
      /\ \A q \in Outlets \ {o} : outlet'[q] = outlet[q]
  BY DEF Becomes, DashInv, DashTypes
<1>3. \A q \in Outlets : UpToDate(outlet[q])' BY <1>1, <1>2 DEF DashInv, UpToDate
<1>4. \A q \in Outlets : outlet'[q].at = "off" => ~ outlet'[q].after BY <1>2 DEF DashInv
<1> QED BY <1>1, <1>2, <1>3, <1>4 DEF DashInv, DashTypes, Announced

LEMMA OutletKeeps ==
  ASSUME DashInv, NEW o \in Outlets,
         HandleSse(o) \/ HandlePod(o) \/ TakeEvent(o) \/ HangUp(o)
  PROVE  DashInv'
<1>0. /\ outlet[o] \in OutletStates /\ UpToDate(outlet[o]) /\ snapshot \in Snapshots
      /\ outlet[o].at = "off" => ~ outlet[o].after
  BY DEF DashInv, DashTypes
<1>1. CASE HandleSse(o)
  <2> DEFINE next == [outlet[o] EXCEPT !.at = "on"]
  <2>1. next \in OutletStates /\ next.at = "on" /\ ~ next.after BY <1>0, <1>1 DEF OutletStates, HandleSse
  <2>2. Becomes(o, next) BY <1>1 DEF HandleSse
  <2> HIDE DEF next
  <2> QED BY <2>1, <2>2, OutletMoves DEF UpToDate
<1>2. CASE HandlePod(o)
  <2> DEFINE next == [outlet[o] EXCEPT !.view = snapshot, !.due = FALSE, !.after = (outlet[o].at = "on"),
                                       !.early = (refresh.told # {})]
  <2>1. /\ next \in OutletStates /\ next.at = outlet[o].at /\ next.view = snapshot
        /\ next.after <=> outlet[o].at = "on"
        /\ next.early <=> refresh.told # {}
    BY <1>0 DEF OutletStates
  <2>2. Becomes(o, next) BY <1>2 DEF HandlePod
  <2> HIDE DEF next
  <2> QED BY <2>1, <2>2, OutletMoves DEF UpToDate
<1>3. CASE TakeEvent(o)
  <2> DEFINE next == [outlet[o] EXCEPT !.inbox = Tail(outlet[o].inbox), !.due = TRUE]
  <2>1. Tail(outlet[o].inbox) \in Seq(PodSessions) BY <1>0, <1>3 DEF TakeEvent, OutletStates
  <2>2. /\ next \in OutletStates /\ next.at = outlet[o].at /\ next.due
        /\ next.after = outlet[o].after
    BY <1>0, <2>1 DEF OutletStates
  <2>3. Becomes(o, next) BY <1>3 DEF TakeEvent
  <2> HIDE DEF next
  <2> QED BY <2>2, <2>3, <1>0, OutletMoves DEF UpToDate
<1>4. CASE HangUp(o)
  <2>1. Offline \in OutletStates /\ ~ Offline.after
    BY NothingIsShown DEF Offline, OutletStates
  <2> QED BY <2>1, <1>4, OutletMoves DEF HangUp, UpToDate
<1> QED BY <1>1, <1>2, <1>3, <1>4

LEMMA DashNextInv == DashInv /\ [DashNext]_dashVars => DashInv'
<1> SUFFICES ASSUME DashInv, [DashNext]_dashVars PROVE DashInv' OBVIOUS
<1>1. CASE \E s \in PodSessions : PaneShows(s)
  BY <1>1 DEF PaneShows, dashVars, DashInv, DashTypes, Announced, UpToDate
<1>2. CASE UNCHANGED dashVars
  BY <1>2 DEF dashVars, DashInv, DashTypes, Announced, UpToDate
<1> QED BY <1>1, <1>2, LookAtKeeps, WriteSnapshotKeeps, ListAndFailKeep, OutletKeeps DEF DashNext

\* aggregators/pod.rs and server.rs: an outlet that subscribed, then read the
\* pod between two refreshes, and follows the events, is not left behind.
THEOREM TheToldAreCurrent == DashSpec => []OutletsAreTold
<1>1. DashInv => OutletsAreTold BY DEF DashInv, UpToDate, OutletsAreTold
<1> QED BY <1>1, DashInitInv, DashNextInv, PTL DEF DashSpec

-----------------------------------------------------------------------------
(* The merge gate: the presets stand in order, Passing on good checks.     *)

\* A conclusion comes with a check that is completed, and with no other one.
Entries == [conclusion : Conclusions \cup {"none"}, completed : BOOLEAN]

GateInv ==
  /\ rollup \in Seq(Entries)
  /\ \A i \in DOMAIN rollup : rollup[i].completed <=> rollup[i].conclusion # "none"

LEMMA GateSpecInv == ASSUME "none" \notin Conclusions PROVE GateSpec => []GateInv
<1>1. GateInit => GateInv BY DEF GateInit, GateInv
<1>2. GateInv /\ [GateNext]_gateVars => GateInv'
  <2> SUFFICES ASSUME GateInv, [GateNext]_gateVars PROVE GateInv' OBVIOUS
  <2>1. ASSUME NEW c \in Conclusions \cup {"none"}, Report(c) PROVE GateInv'
    <3> DEFINE entry == [conclusion |-> c, completed |-> c # "none"]
    <3>1. entry \in Entries /\ (entry.completed <=> entry.conclusion # "none")
      BY DEF Entries
    <3>2. rollup' = Append(rollup, entry) BY <2>1 DEF Report
    <3> HIDE DEF entry
    <3>3. rollup' \in Seq(Entries) BY <3>1, <3>2 DEF GateInv
    <3>4. \A i \in DOMAIN rollup' : rollup'[i] = entry \/ (i \in DOMAIN rollup /\ rollup'[i] = rollup[i])
      BY <3>1, <3>2 DEF GateInv
    <3>5. ASSUME NEW i \in DOMAIN rollup'
          PROVE  (rollup'[i].completed <=> rollup'[i].conclusion # "none")
      <4>1. CASE rollup'[i] = entry BY <4>1, <3>1
      <4>2. CASE i \in DOMAIN rollup /\ rollup'[i] = rollup[i] BY <4>2 DEF GateInv
      <4> QED BY <3>4, <4>1, <4>2
    <3> QED BY <3>3, <3>5 DEF GateInv
  <2>2. CASE UNCHANGED rollup BY <2>2 DEF GateInv
  <2> QED BY <2>1, <2>2 DEF GateNext, gateVars, AddCheck, Approve, CloseLinked, AddAdr
<1> QED BY <1>1, <1>2, PTL DEF GateSpec

-----------------------------------------------------------------------------

\* What each preset lets through, without its reasons.
LEMMA WhatIsAllowed ==
  ASSUME NEW b
  PROVE  /\ CanMerge(b, "Unhinged") = Allowed
         /\ CanMerge(b, "Feral") = Allowed
              <=> Required(b) = {} \/ Required(b) \cap With(b, "Green") # {}
         /\ CanMerge(b, "Fast") = Allowed <=> Required(b) \cap NotGreen(b) = {}
         /\ CanMerge(b, "Strict") = Allowed
              <=> NotGreen(b) \ With(b, "Transient") = {} /\ With(b, "Transient") = {}
         /\ CanMerge(b, "Bureaucratic") = Allowed
              <=> NotGreen(b) = {} /\ b.reviewApproved /\ b.linkedIssueClosed /\ b.adrPresent
<1>1. \A reason : BlockedBy(reason) # Allowed BY DEF BlockedBy, Allowed
<1>2. <<"RetryOnce">> # Allowed BY DEF Allowed
<1>3. \A c : CheckFailed(c) # Allowed BY <1>1 DEF CheckFailed
<1>4. CanMerge(b, "Unhinged") = Allowed BY DEF CanMerge
<1>5. CanMerge(b, "Feral") = Allowed
        <=> Required(b) = {} \/ Required(b) \cap With(b, "Green") # {}
  BY <1>1 DEF CanMerge, FeralPredicate
<1>6. CanMerge(b, "Fast") = Allowed <=> Required(b) \cap NotGreen(b) = {}
  BY <1>3 DEF CanMerge, FastPredicate
<1>7. CanMerge(b, "Strict") = Allowed
        <=> NotGreen(b) \ With(b, "Transient") = {} /\ With(b, "Transient") = {}
  BY <1>2, <1>3 DEF CanMerge, StrictPredicate
<1>8. CanMerge(b, "Bureaucratic") = Allowed
        <=> NotGreen(b) = {} /\ b.reviewApproved /\ b.linkedIssueClosed /\ b.adrPresent
  BY <1>1, <1>3 DEF CanMerge, BureaucraticPredicate
<1> QED BY <1>4, <1>5, <1>6, <1>7, <1>8

\* What BUREAUCRATIC lets through STRICT does, what that does FAST does, then
\* FERAL, then UNHINGED (ci_gate.rs), whatever the checks are.
THEOREM DetentsInOrder == GateSpec => []StricterAllowsLess
<1>1. StricterAllowsLess
  <2> DEFINE May(i) == CanMerge(branch, Detents[i]) = Allowed
  <2>1. DOMAIN Detents = 1..5 /\ May(1) BY WhatIsAllowed DEF Detents
  <2>2. May(5) => May(4)
    <3>1. NotGreen(branch) = {} => With(branch, "Transient") = {} BY DEF NotGreen, With
    <3> QED BY <3>1, WhatIsAllowed DEF Detents
  <2>3. May(4) => May(3) BY WhatIsAllowed DEF Detents
  <2>4. May(3) => May(2)
    <3>1. Required(branch) \subseteq With(branch, "Green") \cup NotGreen(branch)
      BY DEF Required, With, NotGreen
    <3> QED BY <3>1, WhatIsAllowed DEF Detents
  <2> HIDE DEF May
  <2>5. \A i, j \in 1..5 : i < j /\ May(j) => May(i) BY <2>1, <2>2, <2>3, <2>4
  <2> USE DEF May
  <2> QED BY <2>1, <2>5 DEF StricterAllowsLess
<1> QED BY <1>1, PTL

\* A roll-up is Passing only on good conclusions, and Failing as soon as one is
\* bad, while the conclusions are among those of gh_cli.rs.
THEOREM PassingStandsOnGood == ASSUME "none" \notin Conclusions PROVE GateSpec => []RollupTells
<1>1. GateInv => RollupTells
  <2> SUFFICES ASSUME GateInv,
                      \A i \in DOMAIN rollup : rollup[i].conclusion \in Good \cup Bad \cup {"none"}
      PROVE /\ RollupToCi(rollup) = "Passing" =>
                 rollup # <<>> /\ \A i \in DOMAIN rollup : rollup[i].conclusion \in Good
            /\ ~ (\A i \in DOMAIN rollup : rollup[i].conclusion \in Good \cup {"none"})
                 => RollupToCi(rollup) = "Failing"
    BY DEF RollupTells
  <2>1. ASSUME RollupToCi(rollup) = "Passing"
        PROVE  rollup # <<>> /\ \A i \in DOMAIN rollup : rollup[i].conclusion \in Good
    <3>1. /\ rollup # <<>> /\ \A i \in DOMAIN rollup : rollup[i].conclusion \notin Bad
          /\ \A i \in DOMAIN rollup : rollup[i].conclusion \notin Good \cup Bad => rollup[i].completed
      BY <2>1 DEF RollupToCi
    <3> QED BY <3>1 DEF GateInv, Good, Bad
  <2>2. ASSUME NEW i \in DOMAIN rollup, rollup[i].conclusion \notin Good \cup {"none"}
        PROVE  RollupToCi(rollup) = "Failing"
    <3>1. rollup[i].conclusion \in Bad /\ rollup # <<>> BY <2>2
    <3> QED BY <3>1 DEF RollupToCi
  <2> QED BY <2>1, <2>2
<1> QED BY <1>1, GateSpecInv, PTL

-----------------------------------------------------------------------------
(* Local CI: a run tests what its own fetch brought, in a tree of its own.   *)

Heads == {<<>>} \cup (Branches \X Nat)
Paths == {<<>>} \cup ({SafeRef[b] : b \in Branches} \X Nat)

Runs == [pc : {"idle", "fetch", "add", "commands", "over", "dead"},
         branch : Branches \cup {"none"}, path : Paths, commit : Heads, asked : Heads,
         alone : BOOLEAN, next : Nat, status : {"none", "Unknown", "Failing", "Passing"}]

CiTypes ==
  /\ ciRun \in [CiRunners -> Runs] /\ clock \in Nat /\ origin \in [Branches -> Nat]
  /\ fetchHead \in Heads /\ worktrees \in [DOMAIN worktrees -> Heads]
  /\ \A r \in CiRunners : ciRun[r].pc = "fetch" => ciRun[r].branch \in Branches

\* FETCH_HEAD is still what a run that nobody fetched after has asked for.
Undisturbed ==
  \A r \in CiRunners : ciRun[r].pc = "add" /\ ciRun[r].alone => fetchHead = ciRun[r].asked

CiInv == CiTypes /\ Undisturbed /\ LoneVerdict /\ TreeIsOwn

-----------------------------------------------------------------------------

LEMMA CiInitInv == CiInit => CiInv
<1> SUFFICES ASSUME CiInit PROVE CiInv OBVIOUS
<1>1. CiTypes BY DEF CiInit, CiTypes, NoRun, Runs, Heads, Paths
<1>2. Undisturbed /\ LoneVerdict /\ TreeIsOwn
  BY DEF CiInit, NoRun, Undisturbed, TreeIsOwn, LoneVerdict
<1> QED BY <1>1, <1>2 DEF CiInv

\* Leaving the worktrees and FETCH_HEAD alone, a run that moves on without
\* taking up, or letting go of, a worktree disturbs nothing.
LEMMA QuietStep ==
  ASSUME CiInv, CiTypes', NEW r \in CiRunners, fetchHead' = fetchHead, worktrees' = worktrees,
         \A q \in CiRunners \ {r} : ciRun'[q] = ciRun[q],
         \/ ciRun'[r].pc \in {"fetch", "dead"}
         \/ ciRun[r].pc = "commands" /\ ciRun'[r].pc = "commands",
         ciRun[r].pc = "commands" => /\ ciRun'[r].path = ciRun[r].path
                                     /\ ciRun'[r].asked = ciRun[r].asked
                                     /\ ciRun'[r].alone = ciRun[r].alone
                                     /\ ciRun'[r].commit = ciRun[r].commit
  PROVE  CiInv'
<1>1. Undisturbed' BY DEF CiInv, Undisturbed
<1>2. TreeIsOwn' BY DEF CiInv, TreeIsOwn
<1>3. LoneVerdict' BY DEF CiInv, LoneVerdict
<1> QED BY <1>1, <1>2, <1>3 DEF CiInv

\* A fetch, whoever makes it, tells the runs that wait to check theirs out.
LEMMA FetchStep ==
  ASSUME CiInv, CiTypes', worktrees' = worktrees,
         \A q \in CiRunners :
           /\ ciRun'[q].path = ciRun[q].path
           /\ ciRun[q].pc # "fetch" => ciRun'[q].pc = ciRun[q].pc
           /\ ciRun[q].pc = "fetch" => ciRun'[q].pc \in {"fetch", "add"}
           /\ ciRun[q].pc = "commands" => ciRun'[q] = ciRun[q]
           /\ ciRun'[q].pc = "add" /\ ciRun'[q].alone => fetchHead' = ciRun'[q].asked
  PROVE  CiInv'
<1>1. Undisturbed' BY DEF Undisturbed
<1>2. \A q \in CiRunners : ciRun'[q].pc = "commands" => ciRun[q].pc = "commands" /\ ciRun'[q] = ciRun[q]
  <2> SUFFICES ASSUME NEW q \in CiRunners, ciRun'[q].pc = "commands"
      PROVE ciRun[q].pc = "commands" /\ ciRun'[q] = ciRun[q]
    OBVIOUS
  <2>1. ciRun[q].pc # "fetch" OBVIOUS
  <2> QED BY <2>1
<1>3. TreeIsOwn' BY <1>2 DEF CiInv, TreeIsOwn
<1>4. LoneVerdict' BY <1>2 DEF CiInv, LoneVerdict
<1> QED BY <1>1, <1>3, <1>4 DEF CiInv

\* A run that is over takes its own worktree along, or none.
LEMMA ConcludeStep ==
  ASSUME CiInv, NEW r \in CiRunners, NEW status \in {"Unknown", "Failing", "Passing"},
         ciRun[r].pc \in {"fetch", "add", "commands"}, Conclude(r, status),
         fetchHead' = fetchHead, clock' = clock, origin' = origin
  PROVE  CiInv'
<1>a. ciRun[r] \in Runs BY DEF CiInv, CiTypes
<1>b. /\ ciRun' = [ciRun EXCEPT ![r] = [NoRun EXCEPT !.pc = "over", !.status = status]]
      /\ [NoRun EXCEPT !.pc = "over", !.status = status] \in Runs
  BY DEF Conclude, Over, NoRun, Runs, Heads, Paths
<1>c. /\ ciRun' \in [CiRunners -> Runs] /\ ciRun'[r].pc = "over"
      /\ \A q \in CiRunners \ {r} : ciRun'[q] = ciRun[q]
  BY <1>b DEF CiInv, CiTypes, NoRun
<1>d. /\ worktrees' \in [DOMAIN worktrees' -> Heads] /\ DOMAIN worktrees' \subseteq DOMAIN worktrees
      /\ \A p \in DOMAIN worktrees' : worktrees'[p] = worktrees[p]
      /\ \/ worktrees' = worktrees
         \/ ciRun[r].pc = "commands" /\ DOMAIN worktrees' = DOMAIN worktrees \ {ciRun[r].path}
  <2>1. CASE worktrees' = worktrees BY <2>1 DEF CiInv, CiTypes
  <2>2. CASE worktrees' = Without(worktrees, ciRun[r].path) /\ ciRun[r].pc = "commands"
    BY <2>2 DEF Without, CiInv, CiTypes
  <2> QED BY <2>1, <2>2 DEF Conclude
<1>1. CiTypes' BY <1>c, <1>d DEF CiInv, CiTypes
<1>2. Undisturbed' BY <1>c DEF CiInv, Undisturbed
<1>3. TreeIsOwn'
  <2> SUFFICES ASSUME NEW q \in CiRunners, ciRun'[q].pc = "commands"
      PROVE /\ ciRun'[q].path \in DOMAIN worktrees' /\ worktrees'[ciRun'[q].path] = ciRun'[q].commit
            /\ \A o \in CiRunners \ {q} : ciRun'[o].pc = "commands" => ciRun'[o].path # ciRun'[q].path
    BY DEF TreeIsOwn
  <2>1. q # r /\ ciRun'[q] = ciRun[q] BY <1>c
  <2>2. ciRun[q].path \in DOMAIN worktrees'
    BY <2>1, <1>d DEF CiInv, TreeIsOwn
  <2> QED BY <2>1, <2>2, <1>c, <1>d DEF CiInv, TreeIsOwn
<1>4. LoneVerdict' BY <1>3, <1>c, <1>d DEF CiInv, LoneVerdict, TreeIsOwn
<1> QED BY <1>1, <1>2, <1>3, <1>4 DEF CiInv

LEMMA AddWorktreeStep ==
  ASSUME CiInv, NEW r \in CiRunners, AddWorktree(r) PROVE CiInv'
<1>a. /\ ciRun[r].pc = "add" /\ ciRun[r].path \notin DOMAIN worktrees /\ ciRun[r] \in Runs
      /\ DOMAIN worktrees' = DOMAIN worktrees \cup {ciRun[r].path}
      /\ worktrees'[ciRun[r].path] = fetchHead
      /\ \A p \in DOMAIN worktrees : worktrees'[p] = worktrees[p]
      /\ worktrees' \in [DOMAIN worktrees' -> Heads]
      /\ fetchHead' = fetchHead /\ clock' = clock /\ origin' = origin
  BY DEF CiInv, CiTypes, AddWorktree, CheckOut
<1>b. ciRun' = [ciRun EXCEPT ![r] = [ciRun[r] EXCEPT !.pc = "commands", !.commit = fetchHead]]
  BY DEF CiInv, CiTypes, AddWorktree, CheckOut
<1>c. /\ ciRun' \in [CiRunners -> Runs]
      /\ ciRun'[r].pc = "commands" /\ ciRun'[r].path = ciRun[r].path
      /\ ciRun'[r].asked = ciRun[r].asked /\ ciRun'[r].alone = ciRun[r].alone
      /\ ciRun'[r].commit = fetchHead
      /\ \A q \in CiRunners \ {r} : ciRun'[q] = ciRun[q]
  <2>1. [ciRun[r] EXCEPT !.pc = "commands", !.commit = fetchHead] \in Runs
    BY <1>a DEF CiInv, CiTypes, Runs
  <2>2. /\ [ciRun[r] EXCEPT !.pc = "commands", !.commit = fetchHead].pc = "commands"
        /\ [ciRun[r] EXCEPT !.pc = "commands", !.commit = fetchHead].path = ciRun[r].path
        /\ [ciRun[r] EXCEPT !.pc = "commands", !.commit = fetchHead].asked = ciRun[r].asked
        /\ [ciRun[r] EXCEPT !.pc = "commands", !.commit = fetchHead].alone = ciRun[r].alone
        /\ [ciRun[r] EXCEPT !.pc = "commands", !.commit = fetchHead].commit = fetchHead
    BY <1>a DEF Runs
  <2> QED BY <1>b, <2>1, <2>2 DEF CiInv, CiTypes
<1>1. CiTypes' BY <1>a, <1>c DEF CiInv, CiTypes
<1>2. Undisturbed' BY <1>a, <1>c DEF CiInv, Undisturbed
<1>3. TreeIsOwn' BY <1>a, <1>c DEF CiInv, TreeIsOwn
<1>4. LoneVerdict'
  <2> SUFFICES ASSUME NEW q \in CiRunners, ciRun'[q].pc = "commands", ciRun'[q].alone
      PROVE worktrees'[ciRun'[q].path] = ciRun'[q].asked
    BY DEF LoneVerdict
  <2>1. CASE q = r BY <2>1, <1>a, <1>c DEF CiInv, Undisturbed
  <2>2. CASE q # r BY <2>2, <1>a, <1>c DEF CiInv, LoneVerdict, TreeIsOwn
  <2> QED BY <2>1, <2>2
<1> QED BY <1>1, <1>2, <1>3, <1>4 DEF CiInv

LEMMA CiNextInv == CiInv /\ [CiNext]_ciVars => CiInv'
<1> SUFFICES ASSUME CiInv, [CiNext]_ciVars PROVE CiInv' OBVIOUS
<1> USE DEF CiTypes
<1>a. CiTypes BY DEF CiInv
<1>1. ASSUME NEW r \in CiRunners, NEW b \in Branches, StartRun(r, b) PROVE CiInv'
  <2> DEFINE run == [NoRun EXCEPT !.pc = "fetch", !.branch = b, !.path = <<SafeRef[b], clock>>]
  <2>1. run \in Runs /\ run.pc = "fetch" /\ run.branch = b BY <1>a DEF NoRun, Runs, Heads, Paths
  <2>2. ciRun' = [ciRun EXCEPT ![r] = run] /\ UNCHANGED <<origin, fetchHead, worktrees, clock>>
        /\ ciRun[r].pc \in {"idle", "over"}
    BY <1>1 DEF StartRun
  <2> HIDE DEF run
  <2>3. ciRun' \in [CiRunners -> Runs] /\ ciRun'[r] = run
        /\ \A q \in CiRunners \ {r} : ciRun'[q] = ciRun[q]
    BY <2>1, <2>2, <1>a
  <2>4. CiTypes' BY <2>1, <2>2, <2>3, <1>a
  <2> QED BY <2>1, <2>2, <2>3, <2>4, QuietStep
<1>2. ASSUME NEW r \in CiRunners, Fetch(r) PROVE CiInv'
  <2> DEFINE head == <<ciRun[r].branch, origin[ciRun[r].branch]>>
  <2>1. /\ ciRun[r].pc = "fetch" /\ fetchHead' = head /\ head \in Heads
        /\ ciRun' = [FetchedOver(CiRunners \ {r}) EXCEPT ![r].pc = "add", ![r].asked = head]
        /\ UNCHANGED <<origin, worktrees, clock>>
    BY <1>2, <1>a DEF Fetch, Heads
  <2> HIDE DEF head
  <2>2. /\ FetchedOver(CiRunners \ {r}) \in [CiRunners -> Runs] /\ FetchedOver(CiRunners \ {r})[r] = ciRun[r]
        /\ \A q \in CiRunners \ {r} :
             FetchedOver(CiRunners \ {r})[q] = IF ciRun[q].pc = "add" THEN [ciRun[q] EXCEPT !.alone = FALSE] ELSE ciRun[q]
    BY <1>a DEF FetchedOver, Runs
  <2>3. ciRun' = [FetchedOver(CiRunners \ {r}) EXCEPT ![r] = [ciRun[r] EXCEPT !.pc = "add", !.asked = head]]
    BY <2>1, <2>2
  <2>4. /\ [ciRun[r] EXCEPT !.pc = "add", !.asked = head] \in Runs
        /\ [ciRun[r] EXCEPT !.pc = "add", !.asked = head].pc = "add"
        /\ [ciRun[r] EXCEPT !.pc = "add", !.asked = head].asked = head
        /\ [ciRun[r] EXCEPT !.pc = "add", !.asked = head].path = ciRun[r].path
    BY <1>a, <2>1 DEF Runs
  <2>5. /\ ciRun' \in [CiRunners -> Runs] /\ ciRun'[r] = [ciRun[r] EXCEPT !.pc = "add", !.asked = head]
        /\ \A q \in CiRunners \ {r} :
             ciRun'[q] = IF ciRun[q].pc = "add" THEN [ciRun[q] EXCEPT !.alone = FALSE] ELSE ciRun[q]
    BY <2>2, <2>3, <2>4
  <2>6. \A q \in CiRunners \ {r} :
          /\ ciRun'[q].pc = ciRun[q].pc /\ ciRun'[q].path = ciRun[q].path
          /\ ciRun'[q].branch = ciRun[q].branch
          /\ ciRun[q].pc = "add" => ~ ciRun'[q].alone
          /\ ciRun[q].pc # "add" => ciRun'[q] = ciRun[q]
    BY <2>5, <1>a DEF Runs
  <2>7. CiTypes' BY <2>1, <2>4, <2>5, <2>6, <1>a
  <2>8. /\ ciRun'[r].pc = "add" /\ ciRun'[r].path = ciRun[r].path
        /\ fetchHead' = ciRun'[r].asked
    BY <2>1, <2>4, <2>5
  <2>9. \A q \in CiRunners :
           /\ ciRun'[q].path = ciRun[q].path
           /\ ciRun[q].pc # "fetch" => ciRun'[q].pc = ciRun[q].pc
           /\ ciRun[q].pc = "fetch" => ciRun'[q].pc \in {"fetch", "add"}
           /\ ciRun[q].pc = "commands" => ciRun'[q] = ciRun[q]
           /\ ciRun'[q].pc = "add" /\ ciRun'[q].alone => fetchHead' = ciRun'[q].asked
    <3> TAKE q \in CiRunners
    <3>1. CASE q = r BY <3>1, <2>1, <2>8
    <3>2. CASE q # r BY <3>2, <2>6
    <3> QED BY <3>1, <3>2
  <2> QED BY <2>1, <2>7, <2>9, FetchStep
<1>3. ASSUME NEW r \in CiRunners, GitFails(r) PROVE CiInv'
  BY <1>3, ConcludeStep DEF GitFails
<1>4. ASSUME NEW r \in CiRunners, AddWorktree(r) PROVE CiInv'
  BY <1>4, AddWorktreeStep
<1>5. ASSUME NEW r \in CiRunners, NEW exit \in {0, 1}, RunCommand(r, exit) PROVE CiInv'
  <2>1. CASE exit # 0 BY <2>1, <1>5, ConcludeStep DEF RunCommand
  <2>2. CASE exit = 0
    <3>1. /\ ciRun[r].pc = "commands" /\ ciRun[r] \in Runs
          /\ ciRun' = [ciRun EXCEPT ![r] = [ciRun[r] EXCEPT !.next = ciRun[r].next + 1]]
          /\ UNCHANGED <<origin, fetchHead, worktrees, clock>>
      BY <2>2, <1>5, <1>a DEF RunCommand
    <3>2. /\ [ciRun[r] EXCEPT !.next = ciRun[r].next + 1] \in Runs
          /\ [ciRun[r] EXCEPT !.next = ciRun[r].next + 1].pc = "commands"
          /\ [ciRun[r] EXCEPT !.next = ciRun[r].next + 1].path = ciRun[r].path
          /\ [ciRun[r] EXCEPT !.next = ciRun[r].next + 1].asked = ciRun[r].asked
          /\ [ciRun[r] EXCEPT !.next = ciRun[r].next + 1].alone = ciRun[r].alone
          /\ [ciRun[r] EXCEPT !.next = ciRun[r].next + 1].commit = ciRun[r].commit
      BY <3>1 DEF Runs
    <3>3. /\ ciRun' \in [CiRunners -> Runs]
          /\ ciRun'[r] = [ciRun[r] EXCEPT !.next = ciRun[r].next + 1]
          /\ \A q \in CiRunners \ {r} : ciRun'[q] = ciRun[q]
      BY <3>1, <3>2, <1>a
    <3>4. CiTypes' BY <3>1, <3>2, <3>3, <1>a
    <3> QED BY <3>1, <3>2, <3>3, <3>4, QuietStep
  <2> QED BY <2>1, <2>2
<1>6. ASSUME NEW r \in CiRunners, CommandFails(r) PROVE CiInv'
  BY <1>6, ConcludeStep DEF CommandFails
<1>7. ASSUME NEW r \in CiRunners, AllPassed(r) PROVE CiInv'
  BY <1>7, ConcludeStep DEF AllPassed
<1>8. ASSUME NEW r \in CiRunners, RunnerDies(r) PROVE CiInv'
  <2>1. /\ ciRun[r].pc \in {"fetch", "add", "commands"} /\ ciRun[r] \in Runs
        /\ ciRun' = [ciRun EXCEPT ![r] = [ciRun[r] EXCEPT !.pc = "dead"]]
        /\ UNCHANGED <<origin, fetchHead, worktrees, clock>>
    BY <1>8, <1>a DEF RunnerDies
  <2>2. /\ [ciRun[r] EXCEPT !.pc = "dead"] \in Runs /\ [ciRun[r] EXCEPT !.pc = "dead"].pc = "dead"
        /\ [ciRun[r] EXCEPT !.pc = "dead"].path = ciRun[r].path
        /\ [ciRun[r] EXCEPT !.pc = "dead"].asked = ciRun[r].asked
        /\ [ciRun[r] EXCEPT !.pc = "dead"].alone = ciRun[r].alone
    BY <2>1 DEF Runs
  <2>3. /\ ciRun' \in [CiRunners -> Runs] /\ ciRun'[r] = [ciRun[r] EXCEPT !.pc = "dead"]
        /\ \A q \in CiRunners \ {r} : ciRun'[q] = ciRun[q]
    BY <2>1, <2>2, <1>a
  <2>4. CiTypes' BY <2>1, <2>2, <2>3, <1>a
  <2> QED BY <2>1, <2>2, <2>3, <2>4, QuietStep
<1>9. ASSUME NEW b \in Branches, PushHead(b) PROVE CiInv'
  <2>1. origin' \in [Branches -> Nat] /\ UNCHANGED <<fetchHead, worktrees, ciRun, clock>>
    BY <1>9, <1>a DEF PushHead
  <2> QED BY <2>1 DEF CiInv, Undisturbed, LoneVerdict, TreeIsOwn
<1>10. ASSUME NEW b \in Branches, FetchByHand(b) PROVE CiInv'
  <2>1. /\ fetchHead' \in Heads /\ UNCHANGED <<origin, worktrees, clock>>
        /\ ciRun' = FetchedOver(CiRunners)
    BY <1>10, <1>a DEF FetchByHand, Heads
  <2>2. /\ ciRun' \in [CiRunners -> Runs]
        /\ \A q \in CiRunners :
             ciRun'[q] = IF ciRun[q].pc = "add" THEN [ciRun[q] EXCEPT !.alone = FALSE] ELSE ciRun[q]
    BY <2>1, <1>a DEF FetchedOver, Runs
  <2>3. \A q \in CiRunners :
          /\ ciRun'[q].pc = ciRun[q].pc /\ ciRun'[q].path = ciRun[q].path
          /\ ciRun'[q].branch = ciRun[q].branch
          /\ ciRun[q].pc = "add" => ~ ciRun'[q].alone
          /\ ciRun[q].pc # "add" => ciRun'[q] = ciRun[q]
    BY <2>2, <1>a DEF Runs
  <2>4. CiTypes' BY <2>1, <2>2, <2>3, <1>a
  <2> QED BY <2>1, <2>3, <2>4, FetchStep
<1>11. CASE ClockTicks
  <2>1. clock' \in Nat /\ UNCHANGED <<origin, fetchHead, worktrees, ciRun>>
    BY <1>11, <1>a DEF ClockTicks
  <2> QED BY <2>1 DEF CiInv, Undisturbed, LoneVerdict, TreeIsOwn
<1>12. CASE UNCHANGED ciVars
  BY <1>12 DEF ciVars, CiInv, Undisturbed, LoneVerdict, TreeIsOwn
<1> QED BY <1>1, <1>2, <1>3, <1>4, <1>5, <1>6, <1>7, <1>8, <1>9, <1>10, <1>11, <1>12 DEF CiNext

LEMMA CiSpecInv == CiSpec => []CiInv
BY CiInitInv, CiNextInv, PTL DEF CiSpec

\* A verdict is one on the head that the run fetched, unless somebody else
\* fetched in between (local_ci.rs, fetch and worktree add).
THEOREM VerdictIsOnHead == CiSpec => []LoneVerdict
BY CiSpecInv, PTL DEF CiInv

\* Runs never work in one another's worktree, and none takes a tree away from
\* another: for any processes and branches, also when paths are the same.
THEOREM TreesAreOwn == CiSpec => []TreeIsOwn
BY CiSpecInv, PTL DEF CiInv
=============================================================================
