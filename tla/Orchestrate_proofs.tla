------------------------- MODULE Orchestrate_proofs -------------------------
(***************************************************************************)
(* Safety of the orchestration loop for any number of issues, pull         *)
(* requests, slots and processes, and for every combination of hazards     *)
(* that a theorem does not exclude.                                        *)
(***************************************************************************)
EXTENDS Orchestrate, WellFoundedInduction, FiniteSetTheorems, TLAPS

-----------------------------------------------------------------------------
(* The inductive invariant.                                                *)

\* What a process holds while it is busy with one issue or pull request.
Focused(o) ==
  /\ pc[o] \in {"claim", "trigger", "session", "prompt", "rollback"}
       => cur[o] \in Issues
  /\ pc[o] = "claim" => slot[o] \in {0} \cup AgentSlots
  /\ pc[o] \in {"session", "prompt"} => slot[o] \in AgentSlots
  /\ pc[o] \in {"qa", "qaPrompt"} => todo[o] \subseteq PRs
  /\ pc[o] = "qaPrompt" => cur[o] \in PRs /\ slot[o] \in QaSlots

TypeInv == TypeOK /\ \A o \in Orchs : Focused(o)

\* No snapshot takes an open issue for closed, however old it is.
SnapshotsSound == \A o \in Orchs : snap[o].closed \cap issueOpen = {}

\* The issue a process is about to give to a worker is unblocked.
ChoicesSound ==
  \A o \in Orchs : pc[o] \in {"claim", "trigger", "session", "prompt"}
                     => Deps[cur[o]] \cap issueOpen = {}

DepsInv == SnapshotsSound /\ ChoicesSound /\ DependenciesDone

-----------------------------------------------------------------------------

\* The initial state is well typed.
LEMMA InitTypeInv == ASSUME ConstantsAssumption, Init PROVE TypeInv
BY DEF Init, TypeInv, TypeOK, GithubOK, WorkersOK, ProcessOK, Focused,
   NoSnapshot, Snapshot, CiStatuses, MaxRuns, AgentSlots, QaSlots, PassSteps

\* A snapshot in which some of its fields are read anew is a snapshot.
LEMMA SnapshotUpdates ==
  ASSUME NEW s \in Snapshot, NEW A \in SUBSET Issues, NEW B \in SUBSET Issues,
         NEW P \in SUBSET PRs, NEW c \in [PRs -> CiStatuses]
  PROVE  /\ [s EXCEPT !.open = A, !.label = B] \in Snapshot
         /\ [s EXCEPT !.prs = P, !.ci = c] \in Snapshot
         /\ [s EXCEPT !.ci = c] \in Snapshot
<1>1. [s EXCEPT !.open = A, !.label = B] \in Snapshot BY DEF Snapshot
<1>2. [s EXCEPT !.ci = c] \in Snapshot BY DEF Snapshot
<1>3. [s EXCEPT !.prs = P, !.ci = c] \in Snapshot BY DEF Snapshot
<1> QED BY <1>1, <1>2, <1>3

LEMMA ClosedPrsUpdate ==
  ASSUME NEW s \in Snapshot, NEW P \in SUBSET PRs
  PROVE  [s EXCEPT !.closedPrs = P] \in Snapshot
BY DEF Snapshot

LEMMA IssuesUpdate ==
  ASSUME NEW s \in Snapshot, NEW A \in SUBSET Issues
  PROVE  /\ [s EXCEPT !.closed = A] \in Snapshot
         /\ [s EXCEPT !.triggered = A] \in Snapshot
<1>1. [s EXCEPT !.closed = A] \in Snapshot BY DEF Snapshot
<1>2. [s EXCEPT !.triggered = A] \in Snapshot BY DEF Snapshot
<1> QED BY <1>1, <1>2

\* What a process that forgets its pass is left with.
LEMMA ForgetPassTypes ==
  ASSUME ConstantsAssumption, TypeInv, NEW o \in Orchs, ForgetPass(o),
         pc' \in [Orchs -> PassSteps \cup {"down"}],
         held' \in [Orchs -> [Issues -> {"no", "waiting", "expired"}]]
  PROVE  ProcessOK' /\ (snap \in [Orchs -> Snapshot])'
<1> USE DEF TypeInv, TypeOK
<1>1. NoSnapshot \in Snapshot BY DEF NoSnapshot, Snapshot, CiStatuses
<1>2. snap' \in [Orchs -> Snapshot] BY <1>1 DEF ForgetPass
<1> QED BY <1>2 DEF ForgetPass, ProcessOK

LEMMA ExitTypes ==
  ASSUME ConstantsAssumption, TypeInv, NEW o \in Orchs, Exit(o)
  PROVE  ProcessOK' /\ (snap \in [Orchs -> Snapshot])'
<1>1. pc' \in [Orchs -> PassSteps \cup {"down"}]
  BY DEF Exit, Goto, TypeInv, TypeOK, ProcessOK
<1>2. held' \in [Orchs -> [Issues -> {"no", "waiting", "expired"}]]
  BY DEF Exit, TypeInv, TypeOK, ProcessOK
<1> QED BY <1>1, <1>2, ForgetPassTypes DEF Exit

\* A worker that leaves leaves well-typed slots behind.
LEMMA WorkerLeavesTypes ==
  ASSUME WorkersOK, NEW i \in Issues, WorkerLeaves(i)
  PROVE  /\ agent' \in [AgentSlots -> Issues \cup {NoSession, Fresh, Parked}]
         /\ web' \in [Issues -> 0..MaxRuns]
BY DEF WorkersOK, WorkerLeaves, MaxRuns

\* Reading the repository keeps the types.
LEMMA SurveyTypes ==
  ASSUME ConstantsAssumption, TypeInv, NEW o \in Orchs, Survey(o)
  PROVE  TypeInv'
<1> USE DEF TypeInv, TypeOK
<1>1. CASE ReadClosedPrs(o)
  <2>1. GithubOK' BY <1>1 DEF ReadClosedPrs, GithubOK, github
  <2>2. WorkersOK' BY <1>1 DEF ReadClosedPrs, WorkersOK, mail, tmux
  <2>3. (snap \in [Orchs -> Snapshot])'
    <3>1. PICK read \in SUBSET PRs :
            snap' = [snap EXCEPT ![o] = [snap[o] EXCEPT !.closedPrs = read]]
      BY <1>1 DEF ReadClosedPrs
    <3>2. [snap[o] EXCEPT !.closedPrs = read] \in Snapshot BY ClosedPrsUpdate
    <3> QED BY <3>1, <3>2
  <2>4. ProcessOK'
    BY <1>1 DEF ReadClosedPrs, ProcessOK, Snapshot, Goto, PassSteps, pass,
       proc, AgentSlots, QaSlots, Focused
  <2>5. \A q \in Orchs : Focused(q)'
    BY <1>1 DEF ReadClosedPrs, Focused, ProcessOK, Snapshot, Goto,
       PassSteps, pass, proc, AgentSlots, QaSlots
  <2> QED BY <2>1, <2>2, <2>3, <2>4, <2>5
<1>2. CASE ReadOpenIssues(o)
  <2>1. GithubOK' BY <1>2 DEF ReadOpenIssues, GithubOK, github
  <2>2. WorkersOK' BY <1>2 DEF ReadOpenIssues, WorkersOK, mail, tmux
  <2>3. (snap \in [Orchs -> Snapshot])'
    <3> DEFINE s == [snap[o] EXCEPT !.open = issueOpen,
                                    !.label = inFlight \cap issueOpen]
    <3>1. s \in Snapshot BY SnapshotUpdates DEF GithubOK
    <3>2. snap' = [snap EXCEPT ![o] = s] BY <1>2 DEF ReadOpenIssues
    <3> QED BY <3>1, <3>2
  <2>4. ProcessOK'
    BY <1>2 DEF ReadOpenIssues, ProcessOK, Snapshot, Goto, PassSteps, pass,
       proc, AgentSlots, QaSlots, Focused
  <2>5. \A q \in Orchs : Focused(q)'
    BY <1>2 DEF ReadOpenIssues, Focused, ProcessOK, Snapshot, Goto,
       PassSteps, pass, proc, AgentSlots, QaSlots
  <2> QED BY <2>1, <2>2, <2>3, <2>4, <2>5
<1>3. CASE ReadClosedIssues(o)
  <2>1. GithubOK'
    BY <1>3 DEF ReadClosedIssues, GithubOK, github, GithubOK, Snapshot
  <2>2. WorkersOK'
    BY <1>3 DEF ReadClosedIssues, WorkersOK, mail, tmux, GithubOK, Snapshot
  <2>3. (snap \in [Orchs -> Snapshot])'
    <3> DEFINE s == [snap[o] EXCEPT !.closed = Issues \ issueOpen]
    <3>1. s \in Snapshot BY IssuesUpdate
    <3>2. snap' = [snap EXCEPT ![o] = s] BY <1>3 DEF ReadClosedIssues
    <3> QED BY <3>1, <3>2
  <2>4. ProcessOK'
    BY <1>3 DEF ReadClosedIssues, ProcessOK, Snapshot, Goto, PassSteps,
       pass, proc, AgentSlots, QaSlots, Focused, GithubOK, Snapshot
  <2>5. \A q \in Orchs : Focused(q)'
    BY <1>3 DEF ReadClosedIssues, Focused, ProcessOK, Snapshot, Goto,
       PassSteps, pass, proc, AgentSlots, QaSlots, GithubOK, Snapshot
  <2> QED BY <2>1, <2>2, <2>3, <2>4, <2>5
<1>4. CASE ReadOpenPrs(o)
  <2>1. GithubOK' BY <1>4 DEF ReadOpenPrs, GithubOK, github
  <2>2. WorkersOK' BY <1>4 DEF ReadOpenPrs, WorkersOK, mail, tmux
  <2>3. (snap \in [Orchs -> Snapshot])'
    <3> DEFINE open == {p \in PRs : pr[p] = "open"}
               status == [p \in PRs |-> IF p \in open THEN ci[p] ELSE "Unknown"]
               s == [snap[o] EXCEPT !.prs = open, !.ci = status]
    <3>1. snap' = [snap EXCEPT ![o] = s] BY <1>4 DEF ReadOpenPrs
    <3>2. status \in [PRs -> CiStatuses] /\ open \in SUBSET PRs
      BY DEF GithubOK, CiStatuses
    <3> HIDE DEF open, status
    <3>3. s \in Snapshot BY <3>2, SnapshotUpdates
    <3> QED BY <3>1, <3>3
  <2>4. ProcessOK'
    BY <1>4 DEF ReadOpenPrs, ProcessOK, Snapshot, Goto, PassSteps, pass,
       proc, AgentSlots, QaSlots, Focused
  <2>5. \A q \in Orchs : Focused(q)'
    BY <1>4 DEF ReadOpenPrs, Focused, ProcessOK, Snapshot, Goto, PassSteps,
       pass, proc, AgentSlots, QaSlots
  <2> QED BY <2>1, <2>2, <2>3, <2>4, <2>5
<1>5. CASE SurveyFails(o)
  <2>1. GithubOK' BY <1>5 DEF SurveyFails, GithubOK, github, Exit, ForgetPass
  <2>2. WorkersOK'
    BY <1>5 DEF SurveyFails, WorkersOK, mail, tmux, Exit, ForgetPass
  <2>3. (snap \in [Orchs -> Snapshot])' BY <1>5, ExitTypes DEF SurveyFails
  <2>4. ProcessOK' BY <1>5, ExitTypes DEF SurveyFails
  <2>5. \A q \in Orchs : Focused(q)'
    BY <1>5 DEF SurveyFails, Focused, ProcessOK, Snapshot, Goto, PassSteps,
       pass, proc, AgentSlots, QaSlots, Exit, ForgetPass
  <2> QED BY <2>1, <2>2, <2>3, <2>4, <2>5
<1>6. CASE ClearLabel(o)
  <2>1. GithubOK' BY <1>6 DEF ClearLabel, GithubOK, github
  <2>2. WorkersOK' BY <1>6 DEF ClearLabel, WorkersOK, mail, tmux
  <2>3. (snap \in [Orchs -> Snapshot])' BY <1>6 DEF ClearLabel, pass, proc
  <2>4. ProcessOK'
    BY <1>6 DEF ClearLabel, ProcessOK, Snapshot, Goto, PassSteps, pass,
       proc, AgentSlots, QaSlots, Focused
  <2>5. \A q \in Orchs : Focused(q)'
    BY <1>6 DEF ClearLabel, Focused, ProcessOK, Snapshot, Goto, PassSteps,
       pass, proc, AgentSlots, QaSlots
  <2> QED BY <2>1, <2>2, <2>3, <2>4, <2>5
<1>7. CASE ClearDone(o)
  <2>1. GithubOK' BY <1>7 DEF ClearDone, GithubOK, github
  <2>2. WorkersOK' BY <1>7 DEF ClearDone, WorkersOK, mail, tmux
  <2>3. (snap \in [Orchs -> Snapshot])' BY <1>7 DEF ClearDone, pass, proc
  <2>4. ProcessOK'
    BY <1>7 DEF ClearDone, ProcessOK, Snapshot, Goto, PassSteps, pass, proc,
       AgentSlots, QaSlots, Focused
  <2>5. \A q \in Orchs : Focused(q)'
    BY <1>7 DEF ClearDone, Focused, ProcessOK, Snapshot, Goto, PassSteps,
       pass, proc, AgentSlots, QaSlots
  <2> QED BY <2>1, <2>2, <2>3, <2>4, <2>5
<1>8. CASE RunLocalCi(o)
  <2>1. GithubOK' BY <1>8 DEF RunLocalCi, GithubOK, github
  <2>2. WorkersOK' BY <1>8 DEF RunLocalCi, WorkersOK, mail, tmux
  <2>3. (snap \in [Orchs -> Snapshot])'
    <3>1. PICK status \in [PRs -> CiStatuses] :
            snap' = [snap EXCEPT ![o] = [snap[o] EXCEPT !.ci = status]]
      BY <1>8 DEF RunLocalCi
    <3>2. [snap[o] EXCEPT !.ci = status] \in Snapshot BY SnapshotUpdates
    <3> QED BY <3>1, <3>2
  <2>4. ProcessOK'
    BY <1>8 DEF RunLocalCi, ProcessOK, Snapshot, Goto, PassSteps, pass,
       proc, AgentSlots, QaSlots, Focused
  <2>5. \A q \in Orchs : Focused(q)'
    BY <1>8 DEF RunLocalCi, Focused, ProcessOK, Snapshot, Goto, PassSteps,
       pass, proc, AgentSlots, QaSlots
  <2> QED BY <2>1, <2>2, <2>3, <2>4, <2>5
<1>9. CASE ReadComments(o)
  <2>1. GithubOK' BY <1>9 DEF ReadComments, GithubOK, github, Snapshot
  <2>2. WorkersOK' BY <1>9 DEF ReadComments, WorkersOK, mail, tmux, Snapshot
  <2>3. (snap \in [Orchs -> Snapshot])'
    <3>1. PICK unread \in SUBSET snap[o].open :
            snap' = [snap EXCEPT ![o] = [snap[o] EXCEPT !.triggered =
                       (commented \cap snap[o].open) \ unread]]
      BY <1>9 DEF ReadComments
    <3>2. (commented \cap snap[o].open) \ unread \in SUBSET Issues
      BY DEF GithubOK
    <3>3. [snap[o] EXCEPT !.triggered =
             (commented \cap snap[o].open) \ unread] \in Snapshot
      BY <3>2, IssuesUpdate
    <3> QED BY <3>1, <3>3
  <2>4. ProcessOK'
    BY <1>9 DEF ReadComments, ProcessOK, Snapshot, Goto, PassSteps, pass,
       proc, AgentSlots, QaSlots, Focused, Snapshot
  <2>5. \A q \in Orchs : Focused(q)'
    BY <1>9 DEF ReadComments, Focused, ProcessOK, Snapshot, Goto, PassSteps,
       pass, proc, AgentSlots, QaSlots, Snapshot
  <2> QED BY <2>1, <2>2, <2>3, <2>4, <2>5
<1>10. CASE ReadSessions(o)
  <2>1. GithubOK' BY <1>10 DEF ReadSessions, GithubOK, github
  <2>2. WorkersOK' BY <1>10 DEF ReadSessions, WorkersOK, mail, tmux
  <2>3. (snap \in [Orchs -> Snapshot])' BY <1>10 DEF ReadSessions, pass, proc
  <2>4. ProcessOK'
    BY <1>10 DEF ReadSessions, ProcessOK, Snapshot, Goto, PassSteps, pass,
       proc, AgentSlots, QaSlots, Focused
  <2>5. \A q \in Orchs : Focused(q)'
    BY <1>10 DEF ReadSessions, Focused, ProcessOK, Snapshot, Goto,
       PassSteps, pass, proc, AgentSlots, QaSlots
  <2> QED BY <2>1, <2>2, <2>3, <2>4, <2>5
<1> QED BY <1>1, <1>2, <1>3, <1>4, <1>5, <1>6, <1>7, <1>8, <1>9, <1>10 DEF Survey

\* Merging and the QA slots keep the types.
LEMMA MergeAndQaTypes ==
  ASSUME ConstantsAssumption, TypeInv, NEW o \in Orchs,
         \/ MergePr(o) \/ MergeSkipped(o) \/ MergeDone(o)
         \/ OpenQaSession(o) \/ QaSkipped(o) \/ PromptQa(o) \/ QaDone(o)
  PROVE  TypeInv'
<1> USE DEF TypeInv, TypeOK
<1>1. CASE MergePr(o)
  <2>1. GithubOK'
    <3>1. PICK i, p : /\ pr' = [pr EXCEPT ![p] = "merged"]
                      /\ issueOpen' = IF p \in ClosingPRs
                                      THEN issueOpen \ {i} ELSE issueOpen
      BY <1>1 DEF MergePr
    <3> QED BY <1>1, <3>1 DEF MergePr, GithubOK
  <2>2. WorkersOK' BY <1>1 DEF MergePr, WorkersOK, mail, tmux
  <2>3. (snap \in [Orchs -> Snapshot])' BY <1>1 DEF MergePr, pass, proc
  <2>4. ProcessOK'
    BY <1>1 DEF MergePr, ProcessOK, Snapshot, Goto, PassSteps, pass, proc,
       AgentSlots, QaSlots, Focused
  <2>5. \A q \in Orchs : Focused(q)'
    BY <1>1 DEF MergePr, Focused, ProcessOK, Snapshot, Goto, PassSteps,
       pass, proc, AgentSlots, QaSlots
  <2> QED BY <2>1, <2>2, <2>3, <2>4, <2>5
<1>2. CASE MergeSkipped(o)
  <2>1. GithubOK' BY <1>2 DEF MergeSkipped, GithubOK, github
  <2>2. WorkersOK' BY <1>2 DEF MergeSkipped, WorkersOK, mail, tmux
  <2>3. (snap \in [Orchs -> Snapshot])' BY <1>2 DEF MergeSkipped, pass, proc
  <2>4. ProcessOK'
    BY <1>2 DEF MergeSkipped, ProcessOK, Snapshot, Goto, PassSteps, pass,
       proc, AgentSlots, QaSlots, Focused
  <2>5. \A q \in Orchs : Focused(q)'
    BY <1>2 DEF MergeSkipped, Focused, ProcessOK, Snapshot, Goto, PassSteps,
       pass, proc, AgentSlots, QaSlots
  <2> QED BY <2>1, <2>2, <2>3, <2>4, <2>5
<1>3. CASE MergeDone(o)
  <2>1. GithubOK' BY <1>3 DEF MergeDone, GithubOK, github
  <2>2. WorkersOK' BY <1>3 DEF MergeDone, WorkersOK, mail, tmux
  <2>3. (snap \in [Orchs -> Snapshot])' BY <1>3 DEF MergeDone, pass, proc
  <2>4. ProcessOK'
    BY <1>3 DEF MergeDone, ProcessOK, Snapshot, Goto, PassSteps, pass, proc,
       AgentSlots, QaSlots, Focused
  <2>5. \A q \in Orchs : Focused(q)'
    BY <1>3 DEF MergeDone, Focused, ProcessOK, Snapshot, Goto, PassSteps,
       pass, proc, AgentSlots, QaSlots
  <2> QED BY <2>1, <2>2, <2>3, <2>4, <2>5
<1>4. CASE OpenQaSession(o)
  <2>1. GithubOK'
    BY <1>4 DEF OpenQaSession, GithubOK, github, FirstFree, FreeSlots
  <2>2. WorkersOK'
    BY <1>4 DEF OpenQaSession, WorkersOK, mail, tmux, FirstFree, FreeSlots
  <2>3. (snap \in [Orchs -> Snapshot])'
    BY <1>4 DEF OpenQaSession, pass, proc, FirstFree, FreeSlots
  <2>4. ProcessOK'
    BY <1>4 DEF OpenQaSession, ProcessOK, Snapshot, Goto, PassSteps, pass,
       proc, AgentSlots, QaSlots, Focused, FirstFree, FreeSlots
  <2>5. \A q \in Orchs : Focused(q)'
    BY <1>4 DEF OpenQaSession, Focused, ProcessOK, Snapshot, Goto,
       PassSteps, pass, proc, AgentSlots, QaSlots, FirstFree, FreeSlots
  <2> QED BY <2>1, <2>2, <2>3, <2>4, <2>5
<1>5. CASE QaSkipped(o)
  <2>1. GithubOK' BY <1>5 DEF QaSkipped, GithubOK, github
  <2>2. WorkersOK' BY <1>5 DEF QaSkipped, WorkersOK, mail, tmux
  <2>3. (snap \in [Orchs -> Snapshot])' BY <1>5 DEF QaSkipped, pass, proc
  <2>4. ProcessOK'
    BY <1>5 DEF QaSkipped, ProcessOK, Snapshot, Goto, PassSteps, pass, proc,
       AgentSlots, QaSlots, Focused
  <2>5. \A q \in Orchs : Focused(q)'
    BY <1>5 DEF QaSkipped, Focused, ProcessOK, Snapshot, Goto, PassSteps,
       pass, proc, AgentSlots, QaSlots
  <2> QED BY <2>1, <2>2, <2>3, <2>4, <2>5
<1>6. CASE PromptQa(o)
  <2>1. GithubOK' BY <1>6 DEF PromptQa, GithubOK, github
  <2>2. WorkersOK'
    <3>1. cur[o] \in PRs /\ slot[o] \in QaSlots BY <1>6 DEF PromptQa, Focused
    <3>2. \/ qa' = [qa EXCEPT ![slot[o]] = cur[o]]
          \/ qa' = [qa EXCEPT ![slot[o]] = Parked]
      BY <1>6 DEF PromptQa
    <3>3. qa' \in [QaSlots -> PRs \cup {NoSession, Fresh, Parked}]
      BY <3>1, <3>2 DEF WorkersOK
    <3> QED BY <1>6, <3>3 DEF PromptQa, WorkersOK, mail
  <2>3. (snap \in [Orchs -> Snapshot])' BY <1>6 DEF PromptQa, pass, proc
  <2>4. ProcessOK'
    BY <1>6 DEF PromptQa, ProcessOK, Snapshot, Goto, PassSteps, pass, proc,
       AgentSlots, QaSlots, Focused
  <2>5. \A q \in Orchs : Focused(q)'
    BY <1>6 DEF PromptQa, Focused, ProcessOK, Snapshot, Goto, PassSteps,
       pass, proc, AgentSlots, QaSlots
  <2> QED BY <2>1, <2>2, <2>3, <2>4, <2>5
<1>7. CASE QaDone(o)
  <2>1. GithubOK' BY <1>7 DEF QaDone, GithubOK, github
  <2>2. WorkersOK' BY <1>7 DEF QaDone, WorkersOK, mail, tmux
  <2>3. (snap \in [Orchs -> Snapshot])' BY <1>7 DEF QaDone, pass, proc
  <2>4. ProcessOK'
    BY <1>7 DEF QaDone, ProcessOK, Snapshot, Goto, PassSteps, pass, proc,
       AgentSlots, QaSlots, Focused
  <2>5. \A q \in Orchs : Focused(q)'
    BY <1>7 DEF QaDone, Focused, ProcessOK, Snapshot, Goto, PassSteps, pass,
       proc, AgentSlots, QaSlots
  <2> QED BY <2>1, <2>2, <2>3, <2>4, <2>5
<1> QED BY <1>1, <1>2, <1>3, <1>4, <1>5, <1>6, <1>7

\* Dispatching keeps the types.
LEMMA DispatchTypes ==
  ASSUME ConstantsAssumption, TypeInv, NEW o \in Orchs,
         \/ PassOver(o) \/ HoldBack(o) \/ Defer(o) \/ Choose(o)
         \/ ClaimIssue(o) \/ PostTrigger(o) \/ OpenSession(o)
         \/ SendPrompt(o) \/ RollBack(o)
  PROVE  TypeInv'
<1> USE DEF TypeInv, TypeOK
<1>1. CASE PassOver(o)
  <2>1. GithubOK'
    <3>1. PICK i \in todo[o], r \in Outcomes :
            assigned' = IF /\ Bucket(snap[o], i) = "Human" /\ AssignHumans
                           /\ ~DryRun /\ TookEffect(r)
                        THEN assigned \cup {i} ELSE assigned
      BY <1>1 DEF PassOver
    <3>2. Bucket(snap[o], i) = "Human" => i \in HumanIssues BY DEF Bucket
    <3> QED BY <1>1, <3>1, <3>2, ConstantsAssumption DEF PassOver, GithubOK
  <2>2. WorkersOK' BY <1>1 DEF PassOver, WorkersOK, mail, tmux
  <2>3. (snap \in [Orchs -> Snapshot])' BY <1>1 DEF PassOver, pass, proc
  <2>4. ProcessOK'
    BY <1>1 DEF PassOver, ProcessOK, Snapshot, Goto, PassSteps, pass, proc,
       AgentSlots, QaSlots, Focused
  <2>5. \A q \in Orchs : Focused(q)'
    BY <1>1 DEF PassOver, Focused, ProcessOK, Snapshot, Goto, PassSteps,
       pass, proc, AgentSlots, QaSlots
  <2> QED BY <2>1, <2>2, <2>3, <2>4, <2>5
<1>2. CASE HoldBack(o)
  <2>1. GithubOK' BY <1>2 DEF HoldBack, GithubOK, github
  <2>2. WorkersOK' BY <1>2 DEF HoldBack, WorkersOK, mail, tmux
  <2>3. (snap \in [Orchs -> Snapshot])' BY <1>2 DEF HoldBack, pass, proc
  <2>4. ProcessOK'
    BY <1>2 DEF HoldBack, ProcessOK, Snapshot, Goto, PassSteps, pass, proc,
       AgentSlots, QaSlots, Focused
  <2>5. \A q \in Orchs : Focused(q)'
    BY <1>2 DEF HoldBack, Focused, ProcessOK, Snapshot, Goto, PassSteps,
       pass, proc, AgentSlots, QaSlots
  <2> QED BY <2>1, <2>2, <2>3, <2>4, <2>5
<1>3. CASE Defer(o)
  <2>1. GithubOK' BY <1>3 DEF Defer, GithubOK, github, Cleared
  <2>2. WorkersOK'
    <3>1. PICK i \in Issues : Cleared(o, i) BY <1>3 DEF Defer
    <3>2. Siblings(snap[o], i) \subseteq PRs BY DEF Siblings, Snapshot
    <3>3. yells' \subseteq Issues \X PRs BY <3>1, <3>2 DEF Cleared, WorkersOK
    <3> QED BY <1>3, <3>1, <3>3 DEF Defer, Cleared, WorkersOK, tmux
  <2>3. (snap \in [Orchs -> Snapshot])' BY <1>3 DEF Defer, pass, proc, Cleared
  <2>4. ProcessOK'
    BY <1>3 DEF Defer, ProcessOK, Snapshot, Goto, PassSteps, pass, proc,
       AgentSlots, QaSlots, Focused, Cleared
  <2>5. \A q \in Orchs : Focused(q)'
    BY <1>3 DEF Defer, Focused, ProcessOK, Snapshot, Goto, PassSteps, pass,
       proc, AgentSlots, QaSlots, Cleared
  <2> QED BY <2>1, <2>2, <2>3, <2>4, <2>5
<1>4. CASE Choose(o)
  <2>1. GithubOK'
    BY <1>4 DEF Choose, GithubOK, github, Cleared, FirstFree, FreeSlots
  <2>2. WorkersOK'
    <3>1. PICK i \in Issues : Cleared(o, i) BY <1>4 DEF Choose
    <3>2. Siblings(snap[o], i) \subseteq PRs BY DEF Siblings, Snapshot
    <3>3. yells' \subseteq Issues \X PRs BY <3>1, <3>2 DEF Cleared, WorkersOK
    <3> QED BY <1>4, <3>1, <3>3 DEF Choose, Cleared, WorkersOK, tmux
  <2>3. (snap \in [Orchs -> Snapshot])'
    BY <1>4 DEF Choose, pass, proc, Cleared, FirstFree, FreeSlots
  <2>4. ProcessOK'
    BY <1>4 DEF Choose, ProcessOK, Snapshot, Goto, PassSteps, pass, proc,
       AgentSlots, QaSlots, Focused, Cleared, FirstFree, FreeSlots
  <2>5. \A q \in Orchs : Focused(q)'
    BY <1>4 DEF Choose, Focused, ProcessOK, Snapshot, Goto, PassSteps, pass,
       proc, AgentSlots, QaSlots, Cleared, FirstFree, FreeSlots
  <2> QED BY <2>1, <2>2, <2>3, <2>4, <2>5
<1>5. CASE ClaimIssue(o)
  <2>1. GithubOK'
    <3>1. cur[o] \in Issues BY <1>5 DEF ClaimIssue, Focused
    <3>2. inFlight' = inFlight \cup {cur[o]} \/ inFlight' = inFlight
      BY <1>5 DEF ClaimIssue
    <3>3. inFlight' \subseteq Issues BY <3>1, <3>2 DEF GithubOK
    <3> QED BY <1>5, <3>3 DEF ClaimIssue, GithubOK
  <2>2. WorkersOK' BY <1>5 DEF ClaimIssue, WorkersOK, mail, tmux
  <2>3. (snap \in [Orchs -> Snapshot])' BY <1>5 DEF ClaimIssue, pass, proc
  <2>4. ProcessOK'
    <3>1. \/ Goto(o, "trigger") \/ Goto(o, "session") \/ Goto(o, "dispatch")
      BY <1>5 DEF ClaimIssue
    <3>3. pc' \in [Orchs -> PassSteps \cup {"down"}]
      BY <3>1 DEF ProcessOK, Goto, PassSteps
    <3>2. /\ cur' \in [Orchs -> Issues \cup PRs \cup {NoIssue}]
          /\ slot' \in [Orchs -> {0} \cup AgentSlots \cup QaSlots]
      BY <1>5 DEF ClaimIssue, ProcessOK
    <3> QED BY <1>5, <3>3, <3>2 DEF ClaimIssue, ProcessOK
  <2>5. \A q \in Orchs : Focused(q)'
    BY <1>5 DEF ClaimIssue, Focused, ProcessOK, Snapshot, Goto, PassSteps,
       pass, proc, AgentSlots, QaSlots
  <2> QED BY <2>1, <2>2, <2>3, <2>4, <2>5
<1>6. CASE PostTrigger(o)
  <2>1. GithubOK'
    <3>1. cur[o] \in Issues BY <1>6 DEF PostTrigger, Focused
    <3>2. commented' \subseteq Issues BY <1>6, <3>1 DEF PostTrigger, GithubOK
    <3> QED BY <1>6, <3>2 DEF PostTrigger, GithubOK
  <2>2. WorkersOK'
    <3>1. cur[o] \in Issues BY <1>6 DEF PostTrigger, Focused
    <3>2. web' \in [Issues -> 0..MaxRuns]
      BY <1>6, <3>1 DEF PostTrigger, WorkersOK, MaxRuns
    <3> QED BY <1>6, <3>2 DEF PostTrigger, WorkersOK, mail, tmux
  <2>3. (snap \in [Orchs -> Snapshot])'
    BY <1>6 DEF PostTrigger, pass, proc, Dispatched, RollBackNext
  <2>4. ProcessOK'
    <3>1. Dispatched(o) \/ RollBackNext(o) BY <1>6 DEF PostTrigger
    <3>2. CASE Dispatched(o)
      BY <1>6, <3>2 DEF PostTrigger, Dispatched, ProcessOK, Goto, PassSteps
    <3>3. CASE RollBackNext(o)
      BY <1>6, <3>3 DEF PostTrigger, RollBackNext, ProcessOK, Goto, PassSteps
    <3> QED BY <3>1, <3>2, <3>3
  <2>5. \A q \in Orchs : Focused(q)'
    BY <1>6 DEF PostTrigger, Focused, ProcessOK, Snapshot, Goto, PassSteps,
       pass, proc, AgentSlots, QaSlots, Dispatched, RollBackNext
  <2> QED BY <2>1, <2>2, <2>3, <2>4, <2>5
<1>7. CASE OpenSession(o)
  <2>1. GithubOK' BY <1>7 DEF OpenSession, GithubOK, github
  <2>2. WorkersOK' BY <1>7 DEF OpenSession, WorkersOK, mail, tmux
  <2>3. (snap \in [Orchs -> Snapshot])' BY <1>7 DEF OpenSession, pass, proc
  <2>4. ProcessOK'
    BY <1>7 DEF OpenSession, ProcessOK, Snapshot, Goto, PassSteps, pass,
       proc, AgentSlots, QaSlots, Focused
  <2>5. \A q \in Orchs : Focused(q)'
    BY <1>7 DEF OpenSession, Focused, ProcessOK, Snapshot, Goto, PassSteps,
       pass, proc, AgentSlots, QaSlots
  <2> QED BY <2>1, <2>2, <2>3, <2>4, <2>5
<1>8. CASE SendPrompt(o)
  <2>1. GithubOK'
    BY <1>8 DEF SendPrompt, GithubOK, github, Dispatched, RollBackNext
  <2>2. WorkersOK'
    <3>1. cur[o] \in Issues /\ slot[o] \in AgentSlots
      BY <1>8 DEF SendPrompt, Focused
    <3>2. \/ agent' = [agent EXCEPT ![slot[o]] = cur[o]]
          \/ agent' = [agent EXCEPT ![slot[o]] = Parked]
      BY <1>8 DEF SendPrompt
    <3>3. agent' \in [AgentSlots -> Issues \cup {NoSession, Fresh, Parked}]
      BY <3>1, <3>2 DEF WorkersOK
    <3> QED BY <1>8, <3>3 DEF SendPrompt, WorkersOK, mail
  <2>3. (snap \in [Orchs -> Snapshot])'
    BY <1>8 DEF SendPrompt, pass, proc, Dispatched, RollBackNext
  <2>4. ProcessOK'
    <3>1. slot[o] \in AgentSlots BY <1>8 DEF SendPrompt, Focused
    <3>2. agents' = [agents EXCEPT ![o] = @ \cup {slot[o]}] \/ agents' = agents
      BY <1>8 DEF SendPrompt
    <3>3. agents' \in [Orchs -> SUBSET AgentSlots] BY <3>1, <3>2 DEF ProcessOK
    <3>4. Dispatched(o) \/ RollBackNext(o) BY <1>8 DEF SendPrompt
    <3>5. CASE Dispatched(o)
      BY <1>8, <3>3, <3>5
         DEF SendPrompt, Dispatched, ProcessOK, Goto, PassSteps
    <3>6. CASE RollBackNext(o)
      BY <1>8, <3>3, <3>6
         DEF SendPrompt, RollBackNext, ProcessOK, Goto, PassSteps
    <3> QED BY <3>4, <3>5, <3>6
  <2>5. \A q \in Orchs : Focused(q)'
    BY <1>8 DEF SendPrompt, Focused, ProcessOK, Snapshot, Goto, PassSteps,
       pass, proc, AgentSlots, QaSlots, Dispatched, RollBackNext
  <2> QED BY <2>1, <2>2, <2>3, <2>4, <2>5
<1>9. CASE RollBack(o)
  <2>1. GithubOK' BY <1>9 DEF RollBack, GithubOK, github
  <2>2. WorkersOK' BY <1>9 DEF RollBack, WorkersOK, mail, tmux
  <2>3. (snap \in [Orchs -> Snapshot])' BY <1>9 DEF RollBack, pass, proc
  <2>4. ProcessOK'
    BY <1>9 DEF RollBack, ProcessOK, Snapshot, Goto, PassSteps, pass, proc,
       AgentSlots, QaSlots, Focused
  <2>5. \A q \in Orchs : Focused(q)'
    BY <1>9 DEF RollBack, Focused, ProcessOK, Snapshot, Goto, PassSteps,
       pass, proc, AgentSlots, QaSlots
  <2> QED BY <2>1, <2>2, <2>3, <2>4, <2>5
<1> QED BY <1>1, <1>2, <1>3, <1>4, <1>5, <1>6, <1>7, <1>8, <1>9

\* Starting, dying, waiting and ending a pass keep the types.
LEMMA LifeTypes ==
  ASSUME ConstantsAssumption, TypeInv, NEW o \in Orchs,
         Start(o) \/ EndPass(o) \/ SoftChordExpires(o) \/ Crash(o)
  PROVE  TypeInv'
<1> USE DEF TypeInv, TypeOK
<1>1. CASE Start(o)
  <2>1. GithubOK' BY <1>1 DEF Start, GithubOK, github
  <2>2. WorkersOK' BY <1>1 DEF Start, WorkersOK, mail, tmux
  <2>3. (snap \in [Orchs -> Snapshot])' BY <1>1 DEF Start, pass, proc
  <2>4. ProcessOK'
    BY <1>1 DEF Start, ProcessOK, Snapshot, Goto, PassSteps, pass, proc,
       AgentSlots, QaSlots, Focused
  <2>5. \A q \in Orchs : Focused(q)'
    BY <1>1 DEF Start, Focused, ProcessOK, Snapshot, Goto, PassSteps, pass,
       proc, AgentSlots, QaSlots
  <2> QED BY <2>1, <2>2, <2>3, <2>4, <2>5
<1>2. CASE EndPass(o)
  <2>1. GithubOK' BY <1>2 DEF EndPass, GithubOK, github, Exit, ForgetPass
  <2>2. WorkersOK' BY <1>2 DEF EndPass, WorkersOK, mail, tmux, Exit, ForgetPass
  <2>3. (snap \in [Orchs -> Snapshot])'
    <3>1. CASE Exit(o) BY <3>1, ExitTypes
    <3>2. CASE ~Exit(o)
      <4>1. /\ ForgetPass(o) /\ Goto(o, "closedPrs") /\ held' = held
        BY <1>2, <3>2 DEF EndPass
      <4>2. pc' \in [Orchs -> PassSteps \cup {"down"}]
        BY <4>1 DEF Goto, ProcessOK, PassSteps
      <4> QED BY <4>1, <4>2, ForgetPassTypes DEF ProcessOK
    <3> QED BY <3>1, <3>2
  <2>4. ProcessOK'
    <3>1. CASE Exit(o) BY <3>1, ExitTypes
    <3>2. CASE ~Exit(o)
      <4>1. /\ ForgetPass(o) /\ Goto(o, "closedPrs") /\ held' = held
        BY <1>2, <3>2 DEF EndPass
      <4>2. pc' \in [Orchs -> PassSteps \cup {"down"}]
        BY <4>1 DEF Goto, ProcessOK, PassSteps
      <4> QED BY <4>1, <4>2, ForgetPassTypes DEF ProcessOK
    <3> QED BY <3>1, <3>2
  <2>5. \A q \in Orchs : Focused(q)'
    <3>1. ForgetPass(o) /\ (Goto(o, "down") \/ Goto(o, "closedPrs"))
      BY <1>2 DEF EndPass, Exit
    <3>2. pc'[o] \in {"down", "closedPrs"} BY <3>1 DEF Goto, ProcessOK
    <3>3. Focused(o)' BY <3>2 DEF Focused
    <3>4. ASSUME NEW q \in Orchs, q # o PROVE Focused(q)'
      BY <3>1, <3>4 DEF Focused, ForgetPass, Goto, ProcessOK
    <3> QED BY <3>3, <3>4
  <2> QED BY <2>1, <2>2, <2>3, <2>4, <2>5
<1>3. CASE SoftChordExpires(o)
  <2>1. GithubOK' BY <1>3 DEF SoftChordExpires, GithubOK, github
  <2>2. WorkersOK' BY <1>3 DEF SoftChordExpires, WorkersOK, mail, tmux
  <2>3. (snap \in [Orchs -> Snapshot])'
    BY <1>3 DEF SoftChordExpires, pass, proc
  <2>4. ProcessOK'
    BY <1>3 DEF SoftChordExpires, ProcessOK, Snapshot, Goto, PassSteps,
       pass, proc, AgentSlots, QaSlots, Focused
  <2>5. \A q \in Orchs : Focused(q)'
    BY <1>3 DEF SoftChordExpires, Focused, ProcessOK, Snapshot, Goto,
       PassSteps, pass, proc, AgentSlots, QaSlots
  <2> QED BY <2>1, <2>2, <2>3, <2>4, <2>5
<1>4. CASE Crash(o)
  <2>1. GithubOK' BY <1>4 DEF Crash, GithubOK, github, Exit, ForgetPass
  <2>2. WorkersOK' BY <1>4 DEF Crash, WorkersOK, mail, tmux, Exit, ForgetPass
  <2>3. (snap \in [Orchs -> Snapshot])' BY <1>4, ExitTypes DEF Crash
  <2>4. ProcessOK' BY <1>4, ExitTypes DEF Crash
  <2>5. \A q \in Orchs : Focused(q)'
    BY <1>4 DEF Crash, Focused, ProcessOK, Snapshot, Goto, PassSteps, pass,
       proc, AgentSlots, QaSlots, Exit, ForgetPass
  <2> QED BY <2>1, <2>2, <2>3, <2>4, <2>5
<1> QED BY <1>1, <1>2, <1>3, <1>4

\* Agents, CI and people keep the types.
LEMMA EnvironmentTypes ==
  ASSUME ConstantsAssumption, TypeInv, Environment
  PROVE  TypeInv'
<1> USE DEF TypeInv, TypeOK
<1>a. ProcessOK' /\ (snap \in [Orchs -> Snapshot])'
      /\ \A o \in Orchs : Focused(o)'
  BY DEF Environment, AgentOpensPr, HumanOpensPr, ClosePr, CiReports,
     AgentGivesUp, CloseIssue, ClaimScope, AgentSessionEnds, QaSessionEnds,
     proc, pass, ProcessOK, Focused
<1>1. ASSUME NEW p \in PRs, AgentOpensPr(p) PROVE GithubOK' /\ WorkersOK'
  <2>1. GithubOK' BY <1>1 DEF AgentOpensPr, GithubOK, CiStatuses, github
  <2>2. PrIssue[p] \in Issues /\ WorkerLeaves(PrIssue[p])
    BY <1>1, ConstantsAssumption DEF AgentOpensPr
  <2>3. WorkersOK'
    BY <1>1, <2>2, WorkerLeavesTypes DEF AgentOpensPr, WorkersOK, mail
  <2> QED BY <2>1, <2>3
<1>2. ASSUME NEW p \in PRs, HumanOpensPr(p) PROVE GithubOK' /\ WorkersOK'
  <2>1. GithubOK' BY <1>2 DEF HumanOpensPr, GithubOK, CiStatuses, github
  <2>2. WorkersOK' BY <1>2 DEF HumanOpensPr, WorkersOK, mail, tmux
  <2> QED BY <2>1, <2>2
<1>3. ASSUME NEW p \in PRs, ClosePr(p) PROVE GithubOK' /\ WorkersOK'
  <2>1. GithubOK' BY <1>3 DEF ClosePr, GithubOK, CiStatuses, github
  <2>2. WorkersOK' BY <1>3 DEF ClosePr, WorkersOK, mail, tmux
  <2> QED BY <2>1, <2>2
<1>4. ASSUME NEW p \in PRs, CiReports(p) PROVE GithubOK' /\ WorkersOK'
  <2>1. GithubOK' BY <1>4 DEF CiReports, GithubOK, CiStatuses, github
  <2>2. WorkersOK' BY <1>4 DEF CiReports, WorkersOK, mail, tmux
  <2> QED BY <2>1, <2>2
<1>5. ASSUME NEW i \in Issues, AgentGivesUp(i) PROVE GithubOK' /\ WorkersOK'
  <2>1. GithubOK' BY <1>5 DEF AgentGivesUp, GithubOK, CiStatuses, github
  <2>2. i \in Issues /\ WorkerLeaves(i)
    BY <1>5, ConstantsAssumption DEF AgentGivesUp
  <2>3. WorkersOK'
    BY <1>5, <2>2, WorkerLeavesTypes DEF AgentGivesUp, WorkersOK, mail
  <2> QED BY <2>1, <2>3
<1>6. ASSUME NEW i \in Issues, CloseIssue(i) PROVE GithubOK' /\ WorkersOK'
  <2>1. GithubOK' BY <1>6 DEF CloseIssue, GithubOK, CiStatuses, github
  <2>2. WorkersOK' BY <1>6 DEF CloseIssue, WorkersOK, mail, tmux
  <2> QED BY <2>1, <2>2
<1>7. ASSUME NEW i \in Issues, ClaimScope(i) PROVE GithubOK' /\ WorkersOK'
  <2>1. GithubOK' BY <1>7 DEF ClaimScope, GithubOK, CiStatuses, github
  <2>2. WorkersOK' BY <1>7 DEF ClaimScope, WorkersOK, mail, tmux
  <2> QED BY <2>1, <2>2
<1>8. ASSUME NEW n \in AgentSlots, AgentSessionEnds(n) PROVE GithubOK' /\ WorkersOK'
  <2>1. GithubOK' BY <1>8 DEF AgentSessionEnds, GithubOK, CiStatuses, github
  <2>2. WorkersOK' BY <1>8 DEF AgentSessionEnds, WorkersOK, mail, tmux
  <2> QED BY <2>1, <2>2
<1>9. ASSUME NEW n \in QaSlots, QaSessionEnds(n) PROVE GithubOK' /\ WorkersOK'
  <2>1. GithubOK' BY <1>9 DEF QaSessionEnds, GithubOK, CiStatuses, github
  <2>2. WorkersOK' BY <1>9 DEF QaSessionEnds, WorkersOK, mail, tmux
  <2> QED BY <2>1, <2>2
<1> QED
  BY <1>a, <1>1, <1>2, <1>3, <1>4, <1>5, <1>6, <1>7, <1>8, <1>9 DEF Environment

\* Every step keeps the types.
LEMMA NextTypeInv ==
  ASSUME ConstantsAssumption, TypeInv, [Next]_vars
  PROVE  TypeInv'
<1>1. CASE UNCHANGED vars
  BY <1>1 DEF TypeInv, TypeOK, GithubOK, WorkersOK, ProcessOK, Focused, vars,
     github, mail, tmux, proc, pass
<1>2. CASE Next
  BY <1>2, SurveyTypes, MergeAndQaTypes, DispatchTypes, LifeTypes,
     EnvironmentTypes DEF Next, Process, Act
<1> QED BY <1>1, <1>2

\* Every variable keeps its type in every reachable state.
THEOREM TypeCorrect == Spec => []TypeOK
<1>1. Spec => []TypeInv
  BY InitTypeInv, NextTypeInv, ConstantsAssumption, PTL DEF Spec
<1>2. TypeInv => TypeOK BY DEF TypeInv
<1> QED BY <1>1, <1>2, PTL

-----------------------------------------------------------------------------
(* Dependencies.  Closed issues stay closed, so what a snapshot says is     *)
(* closed remains so: a process may act on an old snapshot and still give   *)
(* out only unblocked work.                                                 *)

\* The steps of a process other than those that change what DepsInv is about.
Quiet(o) ==
  \/ Start(o) \/ ReadClosedPrs(o) \/ ReadOpenIssues(o) \/ ReadOpenPrs(o)
  \/ ClearLabel(o) \/ ClearDone(o) \/ RunLocalCi(o) \/ ReadComments(o)
  \/ ReadSessions(o) \/ MergeSkipped(o) \/ MergeDone(o) \/ OpenQaSession(o)
  \/ QaSkipped(o) \/ PromptQa(o) \/ QaDone(o) \/ PassOver(o) \/ HoldBack(o)
  \/ Defer(o) \/ RollBack(o) \/ SoftChordExpires(o)

LEMMA QuietSteps ==
  ASSUME TypeInv, NEW o \in Orchs, Quiet(o)
  PROVE  /\ UNCHANGED <<issueOpen, web, agent>>
         /\ \A q \in Orchs : snap'[q].closed = snap[q].closed
         /\ \A q \in Orchs :
              pc'[q] \in {"claim", "trigger", "session", "prompt"}
                => pc'[q] = pc[q] /\ cur'[q] = cur[q]
<1> USE DEF Goto, github, mail, tmux, pass, proc, TypeInv, TypeOK, ProcessOK,
            Snapshot
<1>1. CASE Start(o) BY <1>1 DEF Start
<1>2. CASE ReadClosedPrs(o) BY <1>2 DEF ReadClosedPrs
<1>3. CASE ReadOpenIssues(o) BY <1>3 DEF ReadOpenIssues
<1>4. CASE ReadOpenPrs(o) BY <1>4 DEF ReadOpenPrs
<1>5. CASE ClearLabel(o) BY <1>5 DEF ClearLabel
<1>6. CASE ClearDone(o) BY <1>6 DEF ClearDone
<1>7. CASE RunLocalCi(o) BY <1>7 DEF RunLocalCi
<1>8. CASE ReadComments(o) BY <1>8 DEF ReadComments
<1>9. CASE ReadSessions(o) BY <1>9 DEF ReadSessions
<1>10. CASE MergeSkipped(o) BY <1>10 DEF MergeSkipped
<1>11. CASE MergeDone(o) BY <1>11 DEF MergeDone
<1>12. CASE OpenQaSession(o) BY <1>12 DEF OpenQaSession
<1>13. CASE QaSkipped(o) BY <1>13 DEF QaSkipped
<1>14. CASE PromptQa(o) BY <1>14 DEF PromptQa
<1>15. CASE QaDone(o) BY <1>15 DEF QaDone
<1>16. CASE PassOver(o) BY <1>16 DEF PassOver
<1>17. CASE HoldBack(o) BY <1>17 DEF HoldBack
<1>18. CASE Defer(o) BY <1>18 DEF Defer, Cleared
<1>19. CASE RollBack(o) BY <1>19 DEF RollBack
<1>20. CASE SoftChordExpires(o) BY <1>20 DEF SoftChordExpires
<1> QED
  BY <1>1, <1>2, <1>3, <1>4, <1>5, <1>6, <1>7, <1>8, <1>9, <1>10, <1>11,
     <1>12, <1>13, <1>14, <1>15, <1>16, <1>17, <1>18, <1>19, <1>20 DEF Quiet

\* A Ready issue is one whose dependencies the snapshot has as closed.
LEMMA ReadyUnblocked ==
  ASSUME NEW s, NEW i, Bucket(s, i) = "Ready"
  PROVE  Deps[i] \subseteq s.closed
BY DEF Bucket

LEMMA InitDepsInv == ASSUME ConstantsAssumption, Init PROVE DepsInv
BY DEF ConstantsAssumption, Init, DepsInv, SnapshotsSound, ChoicesSound,
   DependenciesDone, AtWork, NoSnapshot

\* A process that forgets its pass holds no unsound snapshot and no choice.
LEMMA ForgetPassDeps ==
  ASSUME TypeInv, DepsInv, NEW o \in Orchs, ForgetPass(o),
         pc'[o] \in {"down", "closedPrs"},
         \A q \in Orchs \ {o} : pc'[q] = pc[q],
         UNCHANGED <<issueOpen, web>>,
         \A n \in AgentSlots : agent'[n] \in Issues => agent'[n] = agent[n]
  PROVE  DepsInv'
<1> USE DEF TypeInv, TypeOK, ProcessOK, DepsInv
<1>1. SnapshotsSound' BY DEF SnapshotsSound, ForgetPass, NoSnapshot
<1>2. ChoicesSound' BY DEF ChoicesSound, ForgetPass
<1>3. DependenciesDone' BY DEF DependenciesDone, AtWork
<1> QED BY <1>1, <1>2, <1>3

LEMMA NextDepsInv ==
  ASSUME ConstantsAssumption, TypeInv, DepsInv, [Next]_vars
  PROVE  DepsInv'
<1> USE DEF DepsInv
<1>1. ASSUME NEW o \in Orchs, Quiet(o) PROVE DepsInv'
  BY <1>1, QuietSteps
     DEF SnapshotsSound, ChoicesSound, DependenciesDone, AtWork
<1>2. ASSUME NEW o \in Orchs, ReadClosedIssues(o) PROVE DepsInv'
  <2> USE <1>2 DEF ReadClosedIssues, Goto, TypeInv, TypeOK, ProcessOK, github,
                   tmux
  <2>1. SnapshotsSound' BY DEF SnapshotsSound, Snapshot
  <2>2. ChoicesSound' BY DEF ChoicesSound
  <2>3. DependenciesDone' BY DEF DependenciesDone, AtWork
  <2> QED BY <2>1, <2>2, <2>3
<1>3. ASSUME NEW o \in Orchs, Exit(o), UNCHANGED <<issueOpen, web>>,
             \A n \in AgentSlots : agent'[n] \in Issues => agent'[n] = agent[n]
      PROVE  DepsInv'
  BY <1>3, ForgetPassDeps DEF Exit, Goto, TypeInv, TypeOK, ProcessOK
<1>4. ASSUME NEW o \in Orchs, SurveyFails(o) PROVE DepsInv'
  BY <1>3, <1>4 DEF SurveyFails, github, tmux
<1>5. ASSUME NEW o \in Orchs, Crash(o) PROVE DepsInv'
  <2>1. \A n \in AgentSlots : agent'[n] \in Issues => agent'[n] = agent[n]
    BY <1>5, ConstantsAssumption DEF Crash
  <2> QED BY <1>3, <1>5, <2>1 DEF Crash, github
<1>6. ASSUME NEW o \in Orchs, EndPass(o) PROVE DepsInv'
  <2>1. ForgetPass(o) /\ pc' = [pc EXCEPT ![o] = pc'[o]]
        /\ pc'[o] \in {"down", "closedPrs"}
    BY <1>6 DEF EndPass, Exit, Goto, TypeInv, TypeOK, ProcessOK
  <2> QED BY <1>6, <2>1, ForgetPassDeps
             DEF EndPass, github, tmux, TypeInv, TypeOK, ProcessOK
<1>7. ASSUME NEW o \in Orchs, MergePr(o) PROVE DepsInv'
  <2>1. issueOpen' \subseteq issueOpen BY <1>7 DEF MergePr
  <2> QED BY <1>7, <2>1 DEF MergePr, tmux, SnapshotsSound, ChoicesSound,
                            DependenciesDone, AtWork
<1>8. ASSUME NEW o \in Orchs, Choose(o) PROVE DepsInv'
  <2>1. PICK i \in Issues : Cleared(o, i) /\ cur' = [cur EXCEPT ![o] = i]
    BY <1>8 DEF Choose
  <2>2. Deps[i] \subseteq snap[o].closed
    BY <2>1, ReadyUnblocked DEF Cleared, Considered
  <2>3. Deps[i] \cap issueOpen = {} BY <2>2 DEF SnapshotsSound
  <2>4. pc' = [pc EXCEPT ![o] = "claim"]
        /\ UNCHANGED <<issueOpen, snap, web, agent>>
    BY <1>8, <2>1 DEF Choose, Cleared, Goto, tmux
  <2> QED BY <2>1, <2>3, <2>4 DEF SnapshotsSound, ChoicesSound,
             DependenciesDone, AtWork, TypeInv, TypeOK, ProcessOK
<1>9. ASSUME NEW o \in Orchs, ClaimIssue(o) \/ OpenSession(o) PROVE DepsInv'
  <2>1. /\ UNCHANGED <<issueOpen, snap, web>>
        /\ \A n \in AgentSlots : agent'[n] \in Issues => agent'[n] = agent[n]
    BY <1>9, ConstantsAssumption
       DEF ClaimIssue, OpenSession, github, tmux, pass, TypeInv, TypeOK, WorkersOK
  <2>2. /\ pc[o] \in {"claim", "session"}
        /\ \A q \in Orchs \ {o} : pc'[q] = pc[q] /\ cur'[q] = cur[q]
        /\ pc'[o] \in {"trigger", "session", "prompt"} => cur'[o] = cur[o]
        /\ pc'[o] # "claim"
    BY <1>9 DEF ClaimIssue, OpenSession, Goto, pass, TypeInv, TypeOK, ProcessOK
  <2>3. SnapshotsSound' BY <2>1 DEF SnapshotsSound
  <2>4. ChoicesSound' BY <2>1, <2>2 DEF ChoicesSound
  <2>5. DependenciesDone' BY <2>1 DEF DependenciesDone, AtWork
  <2> QED BY <2>3, <2>4, <2>5
<1>10. ASSUME NEW o \in Orchs, PostTrigger(o) \/ SendPrompt(o) PROVE DepsInv'
  <2>1. /\ UNCHANGED <<issueOpen, snap>>
        /\ pc[o] \in {"trigger", "prompt"} /\ cur[o] \in Issues
    BY <1>10 DEF PostTrigger, SendPrompt, github, TypeInv, Focused
  <2>2. \A i \in Issues : AtWork(i)' => AtWork(i) \/ i = cur[o]
    BY <1>10, <2>1, ConstantsAssumption
       DEF PostTrigger, SendPrompt, AtWork, tmux, TypeInv, TypeOK, WorkersOK
  <2>3. /\ \A q \in Orchs \ {o} : pc'[q] = pc[q] /\ cur'[q] = cur[q]
        /\ pc'[o] \in {"dispatch", "rollback"}
    BY <1>10 DEF PostTrigger, SendPrompt, Dispatched, RollBackNext, Goto,
                 TypeInv, TypeOK, ProcessOK
  <2> QED BY <2>1, <2>2, <2>3
             DEF SnapshotsSound, ChoicesSound, DependenciesDone
<1>11. ASSUME Environment PROVE DepsInv'
  <2>1. UNCHANGED proc /\ issueOpen' \subseteq issueOpen
    BY <1>11 DEF Environment, AgentOpensPr, HumanOpensPr, ClosePr, CiReports,
         AgentGivesUp, CloseIssue, ClaimScope, AgentSessionEnds, QaSessionEnds,
         github
  <2>2. \A i \in Issues : AtWork(i)' => AtWork(i)
    <3>1. ASSUME NEW j \in Issues, WorkerLeaves(j)
          PROVE  \A i \in Issues : AtWork(i)' => AtWork(i)
      BY <3>1, ConstantsAssumption
         DEF WorkerLeaves, AtWork, TypeInv, TypeOK, WorkersOK, MaxRuns
    <3>2. ASSUME NEW n \in AgentSlots, AgentSessionEnds(n)
          PROVE  \A i \in Issues : AtWork(i)' => AtWork(i)
      BY <3>2, ConstantsAssumption
         DEF AgentSessionEnds, AtWork, TypeInv, TypeOK, WorkersOK
    <3>3. \/ UNCHANGED <<web, agent>>
          \/ \E j \in Issues : WorkerLeaves(j)
          \/ \E n \in AgentSlots : AgentSessionEnds(n)
      BY <1>11, ConstantsAssumption
         DEF Environment, AgentOpensPr, HumanOpensPr, ClosePr, CiReports,
         AgentGivesUp, CloseIssue, ClaimScope, QaSessionEnds, tmux
    <3> QED BY <3>1, <3>2, <3>3 DEF AtWork
  <2> QED BY <2>1, <2>2 DEF proc, pass, SnapshotsSound, ChoicesSound,
                            DependenciesDone
<1>12. CASE UNCHANGED vars
  BY <1>12 DEF vars, github, tmux, proc, pass, SnapshotsSound, ChoicesSound,
               DependenciesDone, AtWork
<1> QED
  BY <1>1, <1>2, <1>4, <1>5, <1>6, <1>7, <1>8, <1>9, <1>10, <1>11, <1>12
     DEF Next, Process, Survey, Act, Quiet

\* However many processes act on however old snapshots, and whatever fails or
\* dies, an issue is at work only when all it depends on is closed.
THEOREM WorkIsUnblocked == Spec => []DependenciesDone
<1>1. Init => TypeInv /\ DepsInv
  BY InitTypeInv, InitDepsInv, ConstantsAssumption
<1>2. TypeInv /\ DepsInv /\ [Next]_vars => (TypeInv /\ DepsInv)'
  BY NextTypeInv, NextDepsInv, ConstantsAssumption
<1>3. DepsInv => DependenciesDone BY DEF DepsInv
<1> QED BY <1>1, <1>2, <1>3, PTL DEF Spec

-----------------------------------------------------------------------------
(* Sessions.  tmux refuses a name that exists, and that alone keeps two     *)
(* processes apart: between creating a session and prompting it a process   *)
(* is the only one that may.                                                *)

\* Who is about to prompt keeps its slot and finds it fresh.
LEMMA Undisturbed ==
  ASSUME TypeInv, OwnSession,
         \A q \in Orchs : pc'[q] \in {"prompt", "qaPrompt"} =>
           /\ pc'[q] = pc[q] /\ slot'[q] = slot[q]
           /\ pc[q] = "prompt" => agent'[slot[q]] = agent[slot[q]]
           /\ pc[q] = "qaPrompt" => qa'[slot[q]] = qa[slot[q]]
  PROVE  OwnSession'
BY DEF OwnSession

LEMMA InitOwnSession == Init => OwnSession
BY DEF Init, OwnSession

LEMMA NextOwnSession ==
  ASSUME ConstantsAssumption, TypeInv, OwnSession, [Next]_vars
  PROVE  OwnSession'
<1> USE DEF TypeInv, TypeOK, ProcessOK
<1>1. ASSUME NEW o \in Orchs,
             \/ Start(o) \/ Survey(o) \/ SoftChordExpires(o) \/ EndPass(o)
      PROVE  OwnSession'
  <2>1. UNCHANGED tmux
    BY <1>1 DEF Start, Survey, SoftChordExpires, EndPass, ReadClosedPrs,
         ReadOpenIssues, ReadClosedIssues, ReadOpenPrs, SurveyFails, ClearLabel,
         ClearDone, RunLocalCi, ReadComments, ReadSessions, tmux
  <2>2. /\ \A q \in Orchs \ {o} : pc'[q] = pc[q] /\ slot'[q] = slot[q]
        /\ pc'[o] \notin {"prompt", "qaPrompt"}
    BY <1>1 DEF Start, Survey, SoftChordExpires, EndPass, ReadClosedPrs,
         ReadOpenIssues, ReadClosedIssues, ReadOpenPrs, SurveyFails, ClearLabel,
         ClearDone, RunLocalCi, ReadComments, ReadSessions, Goto, Exit,
         ForgetPass, pass
  <2> QED BY <2>1, <2>2, Undisturbed DEF tmux
<1>2. ASSUME NEW o \in Orchs,
             \/ MergePr(o) \/ MergeSkipped(o) \/ MergeDone(o) \/ QaSkipped(o)
             \/ QaDone(o) \/ PassOver(o) \/ HoldBack(o) \/ Defer(o) \/ Choose(o)
             \/ ClaimIssue(o) \/ PostTrigger(o) \/ RollBack(o)
      PROVE  OwnSession'
  <2>1. UNCHANGED tmux
    BY <1>2 DEF MergePr, MergeSkipped, MergeDone, QaSkipped, QaDone, PassOver,
         HoldBack, Defer, Choose, Cleared, ClaimIssue, PostTrigger, RollBack,
         tmux
  <2>2. /\ \A q \in Orchs \ {o} : pc'[q] = pc[q] /\ slot'[q] = slot[q]
        /\ pc'[o] \notin {"prompt", "qaPrompt"}
    <3>1. CASE Choose(o) BY <3>1 DEF Choose, Cleared, Goto
    <3>2. CASE ClaimIssue(o) BY <3>2 DEF ClaimIssue, Goto
    <3>3. CASE PostTrigger(o)
      BY <3>3 DEF PostTrigger, Dispatched, RollBackNext, Goto
    <3>4. CASE Defer(o) BY <3>4 DEF Defer, Cleared, Considered
    <3>5. CASE \/ MergePr(o) \/ MergeSkipped(o) \/ MergeDone(o) \/ QaSkipped(o)
               \/ QaDone(o) \/ PassOver(o) \/ HoldBack(o) \/ RollBack(o)
      BY <3>5 DEF MergePr, MergeSkipped, MergeDone, QaSkipped, QaDone, PassOver,
           HoldBack, Considered, RollBack, Goto
    <3> QED BY <1>2, <3>1, <3>2, <3>3, <3>4, <3>5
  <2> QED BY <2>1, <2>2, Undisturbed DEF tmux
<1>3. ASSUME NEW o \in Orchs, Crash(o) PROVE OwnSession'
  <2>1. pc' = [pc EXCEPT ![o] = "down"] /\ slot' = [slot EXCEPT ![o] = 0]
    BY <1>3 DEF Crash, Exit, Goto, ForgetPass
  <2>2. ASSUME NEW q \in Orchs, pc'[q] = "prompt"
        PROVE  agent'[slot[q]] = agent[slot[q]]
    BY <1>3, <2>1, <2>2 DEF Crash, OwnSession, Focused
  <2>3. ASSUME NEW q \in Orchs, pc'[q] = "qaPrompt"
        PROVE  qa'[slot[q]] = qa[slot[q]]
    BY <1>3, <2>1, <2>3 DEF Crash, OwnSession, Focused
  <2> QED BY <2>1, <2>2, <2>3, Undisturbed
<1>4. ASSUME NEW o \in Orchs, OpenSession(o) PROVE OwnSession'
  <2>1. slot' = slot /\ qa' = qa /\ slot[o] \in AgentSlots
    BY <1>4 DEF OpenSession, pass, Focused
  <2>2. CASE /\ agent[slot[o]] = NoSession
             /\ agent' = [agent EXCEPT ![slot[o]] = Fresh]
             /\ Goto(o, "prompt")
    <3>1. \A q \in Orchs : pc[q] = "prompt" => slot[q] # slot[o]
      BY <2>2, ConstantsAssumption DEF OwnSession
    <3>2. \A q \in Orchs : pc'[q] = "prompt" => agent'[slot'[q]] = Fresh
      BY <2>1, <2>2, <3>1 DEF OwnSession, Goto, WorkersOK, Focused
    <3> QED BY <2>1, <2>2, <3>1, <3>2 DEF OwnSession, Goto
  <2>3. CASE Goto(o, "rollback") /\ agent' = agent
    BY <2>1, <2>3, Undisturbed DEF Goto
  <2> QED BY <1>4, <2>2, <2>3 DEF OpenSession
<1>5. ASSUME NEW o \in Orchs, SendPrompt(o) PROVE OwnSession'
  <2>1. /\ pc[o] = "prompt" /\ qa' = qa
        /\ \E a : agent' = [agent EXCEPT ![slot[o]] = a]
    BY <1>5 DEF SendPrompt
  <2>2. /\ \A q \in Orchs \ {o} : pc'[q] = pc[q] /\ slot'[q] = slot[q]
        /\ pc'[o] \notin {"prompt", "qaPrompt"}
    BY <1>5 DEF SendPrompt, Dispatched, RollBackNext, Goto
  <2>3. \A q \in Orchs \ {o} : pc[q] = "prompt" => slot[q] # slot[o]
    BY <2>1 DEF OwnSession
  <2> QED BY <2>1, <2>2, <2>3, Undisturbed DEF WorkersOK, Focused
<1>6. ASSUME NEW o \in Orchs, OpenQaSession(o) PROVE OwnSession'
  <2>1. PICK n \in QaSlots :
          /\ qa[n] = NoSession /\ qa' = [qa EXCEPT ![n] = Fresh]
          /\ slot' = [slot EXCEPT ![o] = n] /\ pc' = [pc EXCEPT ![o] = "qaPrompt"]
          /\ agent' = agent
    BY <1>6 DEF OpenQaSession, FirstFree, FreeSlots, QaSlots, Goto
  <2>2. \A q \in Orchs : pc[q] = "qaPrompt" => slot[q] # n
    BY <2>1, ConstantsAssumption DEF OwnSession
  <2>3. \A q \in Orchs : pc'[q] = "qaPrompt" => qa'[slot'[q]] = Fresh
    BY <2>1, <2>2 DEF OwnSession, WorkersOK, Focused
  <2> QED BY <2>1, <2>2, <2>3 DEF OwnSession
<1>7. ASSUME NEW o \in Orchs, PromptQa(o) PROVE OwnSession'
  <2>1. /\ pc[o] = "qaPrompt" /\ agent' = agent
        /\ \E a : qa' = [qa EXCEPT ![slot[o]] = a]
        /\ pc' = [pc EXCEPT ![o] = "qa"] /\ slot' = [slot EXCEPT ![o] = 0]
    BY <1>7 DEF PromptQa, Goto
  <2>2. \A q \in Orchs \ {o} : pc[q] = "qaPrompt" => slot[q] # slot[o]
    BY <2>1 DEF OwnSession
  <2> QED BY <2>1, <2>2, Undisturbed DEF WorkersOK, Focused
<1>8. ASSUME Environment PROVE OwnSession'
  <2>1. UNCHANGED <<pc, slot>>
    BY <1>8 DEF Environment, AgentOpensPr, HumanOpensPr, ClosePr, CiReports,
         AgentGivesUp, CloseIssue, ClaimScope, AgentSessionEnds, QaSessionEnds,
         proc, pass
  <2>2. \A n \in AgentSlots : agent[n] = Fresh => agent'[n] = Fresh
    <3>1. ASSUME NEW j \in Issues, WorkerLeaves(j), NEW n \in AgentSlots,
                 agent[n] = Fresh
          PROVE  agent'[n] = Fresh
      BY <3>1, ConstantsAssumption DEF WorkerLeaves, WorkersOK
    <3>2. ASSUME NEW m \in AgentSlots, AgentSessionEnds(m),
                 NEW n \in AgentSlots, agent[n] = Fresh
          PROVE  agent'[n] = Fresh
      BY <3>2, ConstantsAssumption DEF AgentSessionEnds, WorkersOK
    <3>3. \/ UNCHANGED agent
          \/ \E j \in Issues : WorkerLeaves(j)
          \/ \E m \in AgentSlots : AgentSessionEnds(m)
      BY <1>8, ConstantsAssumption
         DEF Environment, AgentOpensPr, HumanOpensPr, ClosePr, CiReports,
         AgentGivesUp, CloseIssue, ClaimScope, QaSessionEnds, tmux
    <3> QED BY <3>1, <3>2, <3>3
  <2>3. \A n \in QaSlots : qa[n] = Fresh => qa'[n] = Fresh
    <3>1. ASSUME NEW m \in QaSlots, QaSessionEnds(m),
                 NEW n \in QaSlots, qa[n] = Fresh
          PROVE  qa'[n] = Fresh
      BY <3>1, ConstantsAssumption DEF QaSessionEnds, WorkersOK
    <3>2. UNCHANGED qa \/ \E m \in QaSlots : QaSessionEnds(m)
      BY <1>8 DEF Environment, AgentOpensPr, HumanOpensPr, ClosePr, CiReports,
         AgentGivesUp, CloseIssue, ClaimScope, AgentSessionEnds, tmux
    <3> QED BY <3>1, <3>2
  <2> QED BY <2>1, <2>2, <2>3, Undisturbed DEF OwnSession, Focused
<1>9. CASE UNCHANGED vars
  BY <1>9, Undisturbed DEF vars, tmux, proc, pass
<1> QED
  BY <1>1, <1>2, <1>3, <1>4, <1>5, <1>6, <1>7, <1>8, <1>9
     DEF Next, Process, Act

\* However many processes look at the slots at once, a prompt goes to a
\* session its sender has just created and nobody else has prompted.
THEOREM SessionsAreOwned == Spec => []OwnSession
<1>1. Init => TypeInv /\ OwnSession
  BY InitTypeInv, InitOwnSession, ConstantsAssumption
<1>2. TypeInv /\ OwnSession /\ [Next]_vars => (TypeInv /\ OwnSession)'
  BY NextTypeInv, NextOwnSession, ConstantsAssumption
<1> QED BY <1>1, <1>2, PTL DEF Spec

-----------------------------------------------------------------------------
(* Dry runs.  A process that never gets to a step that writes leaves GitHub *)
(* and tmux as they are; people and CI may still do what they like.         *)

Writing == {"qaPrompt", "claim", "trigger", "session", "prompt", "rollback"}

DryInv == DryRunSilent /\ (DryRun => \A o \in Orchs : pc[o] \notin Writing)

LEMMA InitDryInv == Init => DryInv
BY DEF Init, DryInv, DryRunSilent, Writing

LEMMA NextDryInv ==
  ASSUME ConstantsAssumption, TypeInv, DryInv, [Next]_vars
  PROVE  DryInv'
<1> SUFFICES ASSUME DryRun PROVE DryInv'
  BY DEF DryInv, DryRunSilent
<1> USE DEF TypeInv, TypeOK, ProcessOK, WorkersOK, GithubOK, github, mail, tmux, pass, proc
<1>0. /\ inFlight = {} /\ commented = {} /\ noticed = {} /\ assigned = {}
      /\ \A p \in PRs : pr[p] # "merged"
      /\ \A n \in AgentSlots : agent[n] = NoSession
      /\ \A n \in QaSlots : qa[n] = NoSession
      /\ \A o \in Orchs : pc[o] \notin Writing
  BY DEF DryInv, DryRunSilent
\* Nothing written, and nobody gets to a step that writes.
<1> DEFINE Silent == /\ UNCHANGED <<commented, noticed, assigned, pr, agent, qa>>
                     /\ inFlight' \subseteq inFlight
                     /\ \A o \in Orchs : pc'[o] \notin Writing
<1>1. ASSUME Silent PROVE DryInv'
  BY <1>0, <1>1 DEF DryInv, DryRunSilent
<1>2. ASSUME NEW o \in Orchs, Start(o) \/ Survey(o) \/ SoftChordExpires(o) \/ EndPass(o)
      PROVE  DryInv'
  <2>1. UNCHANGED <<commented, noticed, assigned, pr, agent, qa>> /\ inFlight' \subseteq inFlight
    BY <1>2 DEF Start, Survey, SoftChordExpires, EndPass, ReadClosedPrs,
         ReadOpenIssues, ReadClosedIssues, ReadOpenPrs, SurveyFails, ClearLabel,
         ClearDone, RunLocalCi, ReadComments, ReadSessions
  <2>2. \/ UNCHANGED pc
        \/ \E step \in (PassSteps \cup {"down"}) \ Writing : pc' = [pc EXCEPT ![o] = step]
    <3>1. {"openIssues", "closedIssues", "openPrs", "clear", "localCi", "comments", "sessions",
           "merge", "closedPrs", "down"} \subseteq (PassSteps \cup {"down"}) \ Writing
      BY DEF PassSteps, Writing
    <3>2. CASE Start(o) BY <3>1, <3>2 DEF Start, Goto
    <3>3. CASE SoftChordExpires(o) BY <3>3 DEF SoftChordExpires
    <3>4. CASE EndPass(o) BY <3>1, <3>4 DEF EndPass, Exit, Goto
    <3>5. CASE Survey(o)
      BY <3>1, <3>5 DEF Survey, ReadClosedPrs,
         ReadOpenIssues, ReadClosedIssues, ReadOpenPrs, SurveyFails, ClearLabel,
         ClearDone, RunLocalCi, ReadComments, ReadSessions, Goto, Exit
    <3> QED BY <1>2, <3>2, <3>3, <3>4, <3>5
  <2>3. \A q \in Orchs : pc'[q] \notin Writing BY <1>0, <2>2
  <2> QED BY <2>1, <2>3, <1>1
<1>3. ASSUME NEW o \in Orchs,
             \/ MergePr(o) \/ MergeSkipped(o) \/ MergeDone(o) \/ OpenQaSession(o) \/ QaSkipped(o)
             \/ QaDone(o) \/ PassOver(o) \/ HoldBack(o) \/ Defer(o) \/ Choose(o)
      PROVE  DryInv'
  <2>1. /\ UNCHANGED <<commented, noticed, assigned, pr, agent, qa>>
        /\ inFlight' \subseteq inFlight
    BY <1>3 DEF MergePr, MergeSkipped, MergeDone, OpenQaSession, QaSkipped, QaDone, PassOver,
         HoldBack, Defer, Cleared, Choose
  <2>2. \A q \in Orchs : pc'[q] \notin Writing
    BY <1>0, <1>3 DEF MergePr, MergeSkipped, MergeDone, OpenQaSession, QaSkipped, QaDone,
         PassOver, HoldBack, Defer, Choose, Goto, Writing
  <2> QED BY <2>1, <2>2, <1>1
<1>4. ASSUME NEW o \in Orchs,
             \/ PromptQa(o) \/ ClaimIssue(o) \/ PostTrigger(o) \/ OpenSession(o)
             \/ SendPrompt(o) \/ RollBack(o)
      PROVE  DryInv'
  BY <1>0, <1>4 DEF PromptQa, ClaimIssue, PostTrigger, OpenSession, SendPrompt, RollBack, Writing
<1>5. ASSUME NEW o \in Orchs, Crash(o) PROVE DryInv'
  <2>1. \A n \in AgentSlots : agent'[n] = agent[n]
    BY <1>0, <1>5 DEF Crash, Writing
  <2>2. \A n \in QaSlots : qa'[n] = qa[n]
    BY <1>0, <1>5 DEF Crash, Writing
  <2>3. UNCHANGED github /\ \A q \in Orchs : pc'[q] \notin Writing
    BY <1>0, <1>5 DEF Crash, Exit, Goto, Writing
  <2> QED BY <1>0, <2>1, <2>2, <2>3 DEF DryInv, DryRunSilent
<1>6. ASSUME Environment PROVE DryInv'
  <2>1. UNCHANGED <<inFlight, commented, noticed, assigned, pc>>
    BY <1>6 DEF Environment, AgentOpensPr, HumanOpensPr, ClosePr, CiReports,
         AgentGivesUp, CloseIssue, ClaimScope, AgentSessionEnds, QaSessionEnds
  <2>2. \A p \in PRs : pr'[p] # "merged"
    BY <1>0, <1>6 DEF Environment, AgentOpensPr, HumanOpensPr, ClosePr, CiReports,
         AgentGivesUp, CloseIssue, ClaimScope, AgentSessionEnds, QaSessionEnds
  <2>3. \A n \in AgentSlots : agent'[n] = NoSession
    <3>1. ASSUME NEW i, WorkerLeaves(i), i \in Issues PROVE agent' = agent
      BY <1>0, <3>1, ConstantsAssumption DEF WorkerLeaves
    <3>2. ASSUME NEW p \in PRs, AgentOpensPr(p) PROVE agent' = agent
      BY <3>1, <3>2, ConstantsAssumption DEF AgentOpensPr
    <3>3. ASSUME NEW n \in AgentSlots, AgentSessionEnds(n)
          PROVE  \A m \in AgentSlots : agent'[m] = NoSession
      BY <1>0, <3>3 DEF AgentSessionEnds
    <3>4. \/ UNCHANGED agent
          \/ \E i \in Issues : WorkerLeaves(i)
          \/ \E p \in PRs : AgentOpensPr(p)
          \/ \E n \in AgentSlots : AgentSessionEnds(n)
      BY <1>6 DEF Environment, HumanOpensPr, ClosePr, CiReports,
           AgentGivesUp, CloseIssue, ClaimScope, QaSessionEnds
    <3> QED BY <1>0, <3>1, <3>2, <3>3, <3>4
  <2>4. \A n \in QaSlots : qa'[n] = NoSession
    BY <1>0, <1>6 DEF Environment, AgentOpensPr, HumanOpensPr, ClosePr, CiReports,
         AgentGivesUp, CloseIssue, ClaimScope, AgentSessionEnds, QaSessionEnds
  <2> QED BY <1>0, <2>1, <2>2, <2>3, <2>4 DEF DryInv, DryRunSilent
<1>7. CASE UNCHANGED vars
  BY <1>0, <1>1, <1>7 DEF vars
<1> QED
  BY <1>2, <1>3, <1>4, <1>5, <1>6, <1>7 DEF Next, Process, Act

\* A dry run writes nothing to GitHub and creates no session, whatever the
\* repository holds and whoever works in it meanwhile (--dry-run, main.rs).
THEOREM DryRunsAreDry == Spec => []DryRunSilent
<1>1. Init => TypeInv /\ DryInv
  BY InitTypeInv, InitDryInv, ConstantsAssumption
<1>2. TypeInv /\ DryInv /\ [Next]_vars => (TypeInv /\ DryInv)'
  BY NextTypeInv, NextDryInv, ConstantsAssumption
<1>3. DryInv => DryRunSilent BY DEF DryInv
<1> QED BY <1>1, <1>2, <1>3, PTL DEF Spec

-----------------------------------------------------------------------------
(* The label.  Where processes do not die and GitHub does what it is told,  *)
(* whoever labels an issue goes on to give it to a worker, or takes the     *)
(* label back.                                                              *)

Holding == {"trigger", "session", "prompt", "rollback"}

Reliable == Hazards \cap {"apiError", "replyLost", "crash", "giveUp"} = {}

Backed(i) ==
  AtWork(i) \/ PrSeen(i) \/ \E o \in Orchs : cur[o] = i /\ pc[o] \in Holding

\* The same after the step.
GetsBacked(i) ==
  AtWork(i)' \/ PrSeen(i)' \/ \E o \in Orchs : cur'[o] = i /\ pc'[o] \in Holding

\* What backs issue i does so after the step, worker, pull request and process
\* each for itself.
StaysBacked(i) ==
  /\ AtWork(i) => AtWork(i)'
  /\ PrSeen(i) => PrSeen(i)'
  /\ \A o \in Orchs : cur[o] = i /\ pc[o] \in Holding => cur'[o] = i /\ pc'[o] \in Holding

LEMMA LabelStep ==
  ASSUME LabelMeansWork, Reliable,
         \A i \in inFlight' : GetsBacked(i) \/ (i \in inFlight /\ StaysBacked(i))
  PROVE  LabelMeansWork'
<1>1. \A i \in inFlight : Backed(i) BY DEF LabelMeansWork, Reliable, Backed, Holding
<1>2. ASSUME NEW i \in inFlight, StaysBacked(i) PROVE GetsBacked(i)
  <2>1. CASE AtWork(i) \/ PrSeen(i) BY <1>2, <2>1 DEF StaysBacked, Backed, GetsBacked
  <2>2. CASE \E o \in Orchs : cur[o] = i /\ pc[o] \in Holding
    BY <1>2, <2>2 DEF StaysBacked, Backed, GetsBacked
  <2> QED BY <1>1, <2>1, <2>2 DEF Backed
<1>3. \A i \in inFlight' : GetsBacked(i) BY <1>2
<1> QED BY <1>3 DEF LabelMeansWork, GetsBacked, Holding

\* Workers and pull requests that stay back their issues.
LEMMA WorkStays ==
  ASSUME NEW i \in Issues, web[i] > 0 => web'[i] > 0,
         \A n \in AgentSlots : agent[n] = i => agent'[n] = agent[n]
  PROVE  AtWork(i) => AtWork(i)'
BY DEF AtWork

LEMMA PrStays ==
  ASSUME \A p \in PRs : pr[p] # "none" => pr'[p] # "none", NEW i
  PROVE  PrSeen(i) => PrSeen(i)'
BY DEF PrSeen

\* A step that labels nothing, takes no worker from its issue and leaves who
\* holds an issue where it is.
LEMMA LabelStays ==
  ASSUME TypeInv, LabelMeansWork, Reliable, inFlight' \subseteq inFlight, UNCHANGED <<web, agent>>,
         \A p \in PRs : pr[p] # "none" => pr'[p] # "none",
         \A o \in Orchs : pc[o] \in Holding => pc'[o] = pc[o] /\ cur'[o] = cur[o]
  PROVE  LabelMeansWork'
<1>1. ASSUME NEW i \in inFlight' PROVE i \in inFlight /\ StaysBacked(i)
  <2>1. i \in inFlight /\ i \in Issues BY <1>1 DEF TypeInv, TypeOK, GithubOK
  <2>2. AtWork(i) => AtWork(i)' BY <2>1, WorkStays
  <2>3. PrSeen(i) => PrSeen(i)' BY PrStays
  <2> QED BY <2>1, <2>2, <2>3 DEF StaysBacked
<1> QED BY <1>1, LabelStep

LEMMA NextLabelMeansWork ==
  ASSUME ConstantsAssumption, TypeInv, OwnSession, LabelMeansWork, [Next]_vars
  PROVE  LabelMeansWork'
<1> SUFFICES ASSUME Reliable PROVE LabelMeansWork'
  BY DEF LabelMeansWork, Reliable
<1> USE DEF TypeInv, TypeOK, ProcessOK
<1>0. Outcomes = {"done"} /\ \A i \in inFlight : i \in Issues
  BY DEF Reliable, Outcomes, May, GithubOK
<1>1. ASSUME NEW o \in Orchs, Start(o) \/ Survey(o) \/ SoftChordExpires(o) \/ EndPass(o)
      PROVE  LabelMeansWork'
  <2>1. UNCHANGED <<pr, agent, web>> /\ inFlight' \subseteq inFlight
    BY <1>1 DEF Start, Survey, SoftChordExpires, EndPass, ReadClosedPrs,
         ReadOpenIssues, ReadClosedIssues, ReadOpenPrs, SurveyFails, ClearLabel,
         ClearDone, RunLocalCi, ReadComments, ReadSessions, github, tmux
  <2>2. pc[o] \notin Holding
    BY <1>1 DEF Start, Survey, SoftChordExpires, EndPass, ReadClosedPrs,
         ReadOpenIssues, ReadClosedIssues, ReadOpenPrs, SurveyFails, ClearLabel,
         ClearDone, RunLocalCi, ReadComments, ReadSessions, Holding
  <2>3. \A q \in Orchs \ {o} : pc'[q] = pc[q] /\ cur'[q] = cur[q]
    BY <1>1 DEF Start, Survey, SoftChordExpires, EndPass, ReadClosedPrs,
         ReadOpenIssues, ReadClosedIssues, ReadOpenPrs, SurveyFails, ClearLabel,
         ClearDone, RunLocalCi, ReadComments, ReadSessions, Goto, Exit, ForgetPass, pass
  <2> QED BY <2>1, <2>2, <2>3, LabelStays
<1>2. ASSUME NEW o \in Orchs,
             \/ MergePr(o) \/ MergeSkipped(o) \/ MergeDone(o) \/ OpenQaSession(o) \/ QaSkipped(o)
             \/ PromptQa(o) \/ QaDone(o) \/ PassOver(o) \/ HoldBack(o) \/ Defer(o) \/ Choose(o)
      PROVE  LabelMeansWork'
  <2>1. UNCHANGED <<agent, web, inFlight>>
    BY <1>2 DEF MergePr, MergeSkipped, MergeDone, OpenQaSession, QaSkipped, PromptQa, QaDone,
         PassOver, HoldBack, Defer, Cleared, Choose, github, tmux
  <2>2. \A p \in PRs : pr[p] # "none" => pr'[p] # "none"
    <3>1. CASE MergePr(o)
      BY <3>1 DEF MergePr, GithubOK
    <3>2. CASE ~ MergePr(o)
      BY <1>2, <3>2 DEF MergeSkipped, MergeDone, OpenQaSession, QaSkipped, PromptQa, QaDone,
         PassOver, HoldBack, Defer, Cleared, Choose, github
    <3> QED BY <3>1, <3>2
  <2>3. pc[o] \in {"merge", "qa", "qaPrompt", "dispatch"}
    <3>1. CASE \/ MergePr(o) \/ MergeSkipped(o) \/ MergeDone(o) \/ OpenQaSession(o)
               \/ QaSkipped(o) \/ PromptQa(o) \/ QaDone(o) \/ PassOver(o)
      BY <3>1 DEF MergePr, MergeSkipped, MergeDone, OpenQaSession, QaSkipped, PromptQa, QaDone,
           PassOver
    <3>2. CASE HoldBack(o) \/ Defer(o) \/ Choose(o)
      BY <3>2 DEF HoldBack, Defer, Choose, Cleared, Considered
    <3> QED BY <1>2, <3>1, <3>2
  <2>4. \A q \in Orchs \ {o} : pc'[q] = pc[q] /\ cur'[q] = cur[q]
    <3>1. CASE \/ MergePr(o) \/ MergeSkipped(o) \/ MergeDone(o) \/ QaSkipped(o) \/ QaDone(o)
               \/ PassOver(o) \/ HoldBack(o) \/ Defer(o)
      BY <3>1 DEF MergePr, MergeSkipped, MergeDone, QaSkipped, QaDone, PassOver, HoldBack,
           Defer, Cleared, Goto
    <3>2. CASE OpenQaSession(o) \/ PromptQa(o)
      BY <3>2 DEF OpenQaSession, PromptQa, Goto
    <3>3. CASE Choose(o) BY <3>3 DEF Choose, Cleared, Goto
    <3> QED BY <1>2, <3>1, <3>2, <3>3
  <2>5. pc[o] \notin Holding BY <2>3 DEF Holding
  <2> QED BY <2>1, <2>2, <2>4, <2>5, LabelStays
<1>3. ASSUME NEW o \in Orchs, ClaimIssue(o) PROVE LabelMeansWork'
  <2>1. /\ inFlight' = inFlight \cup {cur[o]} /\ cur' = cur
        /\ UNCHANGED <<pr, agent, web>> /\ pc[o] = "claim"
        /\ pc' = [pc EXCEPT ![o] = IF slot[o] = 0 THEN "trigger" ELSE "session"]
    BY <1>0, <1>3 DEF ClaimIssue, TookEffect, ReportedOk, Goto, tmux
  <2>2. pc'[o] \in Holding /\ \A q \in Orchs : pc[q] \in Holding => pc'[q] = pc[q]
    BY <2>1 DEF Holding
  <2>3. ASSUME NEW i, i = cur[o] PROVE GetsBacked(i) BY <2>1, <2>2, <2>3 DEF GetsBacked
  <2>4. ASSUME NEW i \in inFlight PROVE StaysBacked(i)
    <3>1. (AtWork(i) => AtWork(i)') /\ (PrSeen(i) => PrSeen(i)') BY <2>1 DEF AtWork, PrSeen
    <3> QED BY <2>1, <2>2, <3>1 DEF StaysBacked
  <2> QED BY <2>1, <2>3, <2>4, LabelStep
<1>4. ASSUME NEW o \in Orchs, PostTrigger(o) PROVE LabelMeansWork'
  <2>1. /\ web' = [web EXCEPT ![cur[o]] = IF @ < MaxRuns THEN @ + 1 ELSE @]
        /\ UNCHANGED <<inFlight, pr, agent>> /\ cur[o] \in Issues
        /\ pc' = [pc EXCEPT ![o] = "dispatch"] /\ cur' = [cur EXCEPT ![o] = NoIssue]
    BY <1>0, <1>4 DEF PostTrigger, TookEffect, ReportedOk, Dispatched, Goto, Focused, tmux
  <2>2. web'[cur[o]] > 0 /\ \A i \in Issues : web[i] > 0 => web'[i] > 0
    <3>1. web \in [Issues -> 0..2] /\ MaxRuns = 2 BY DEF MaxRuns, WorkersOK
    <3>2. web'[cur[o]] = IF web[cur[o]] < 2 THEN web[cur[o]] + 1 ELSE web[cur[o]]
      BY <2>1, <3>1
    <3>3. \A i \in Issues : i # cur[o] => web'[i] = web[i] BY <2>1, <3>1
    <3>4. web[cur[o]] \in 0..2 BY <2>1, <3>1
    <3>5. web'[cur[o]] > 0 BY <3>2, <3>4
    <3> QED BY <3>3, <3>5
  <2>3. ASSUME NEW i, i = cur[o] PROVE GetsBacked(i)
    BY <2>2, <2>3 DEF GetsBacked, AtWork
  <2>4. ASSUME NEW i \in inFlight, i # cur[o] PROVE StaysBacked(i)
    <3>1. AtWork(i) => AtWork(i)' BY <1>0, <2>1, <2>2, WorkStays
    <3>2. PrSeen(i) => PrSeen(i)' BY <2>1, PrStays
    <3> QED BY <2>1, <2>4, <3>1, <3>2 DEF StaysBacked
  <2> QED BY <2>1, <2>3, <2>4, LabelStep
<1>5. ASSUME NEW o \in Orchs, OpenSession(o) PROVE LabelMeansWork'
  <2>1. /\ UNCHANGED <<inFlight, pr, web, cur>>
        /\ pc'[o] \in Holding /\ \A q \in Orchs \ {o} : pc'[q] = pc[q]
    BY <1>5 DEF OpenSession, Goto, Holding, github, pass
  <2>2. \A n \in AgentSlots : agent[n] \in Issues => agent'[n] = agent[n]
    BY <1>5, ConstantsAssumption DEF OpenSession, WorkersOK
  <2>3. ASSUME NEW i \in inFlight PROVE StaysBacked(i)
    <3>1. AtWork(i) => AtWork(i)' BY <1>0, <2>1, <2>2, WorkStays
    <3>2. PrSeen(i) => PrSeen(i)' BY <2>1, PrStays
    <3> QED BY <2>1, <3>1, <3>2 DEF StaysBacked
  <2> QED BY <2>1, <2>3, LabelStep
<1>6. ASSUME NEW o \in Orchs, SendPrompt(o) PROVE LabelMeansWork'
  <2>1. UNCHANGED <<inFlight, pr, web>> BY <1>6 DEF SendPrompt, github
  <2>2. /\ slot[o] \in AgentSlots /\ agent[slot[o]] = Fresh /\ cur[o] \in Issues
        /\ pc[o] = "prompt"
    BY <1>6 DEF SendPrompt, Focused, OwnSession
  <2>3. \A q \in Orchs \ {o} : pc'[q] = pc[q] /\ cur'[q] = cur[q]
    BY <1>6 DEF SendPrompt, Dispatched, RollBackNext, Goto
  <2>4. \/ agent' = [agent EXCEPT ![slot[o]] = cur[o]]
        \/ /\ agent' = [agent EXCEPT ![slot[o]] = Parked]
           /\ pc'[o] = "rollback" /\ cur'[o] = cur[o]
    BY <1>6 DEF SendPrompt, RollBackNext, Goto
  <2>5. \A n \in AgentSlots : agent[n] \in Issues => agent'[n] = agent[n]
    BY <2>2, <2>4, ConstantsAssumption DEF WorkersOK
  <2>6. ASSUME NEW i \in inFlight, i # cur[o] PROVE StaysBacked(i)
    <3>1. AtWork(i) => AtWork(i)' BY <1>0, <2>1, <2>5, WorkStays
    <3>2. PrSeen(i) => PrSeen(i)' BY <2>1, PrStays
    <3> QED BY <2>3, <2>6, <3>1, <3>2 DEF StaysBacked
  <2>7. ASSUME NEW i, i = cur[o] PROVE GetsBacked(i)
    <3>1. CASE agent' = [agent EXCEPT ![slot[o]] = cur[o]]
      <4>1. agent'[slot[o]] = i BY <2>2, <2>7, <3>1 DEF WorkersOK
      <4> QED BY <2>2, <4>1 DEF GetsBacked, AtWork
    <3>2. CASE pc'[o] = "rollback" /\ cur'[o] = cur[o] BY <2>7, <3>2 DEF GetsBacked, Holding
    <3> QED BY <2>4, <3>1, <3>2
  <2> QED BY <2>1, <2>6, <2>7, LabelStep
<1>7. ASSUME NEW o \in Orchs, RollBack(o) PROVE LabelMeansWork'
  <2>1. /\ inFlight' = inFlight \ {cur[o]} /\ UNCHANGED <<pr, agent, web>>
        /\ \A q \in Orchs \ {o} : pc'[q] = pc[q] /\ cur'[q] = cur[q]
    BY <1>0, <1>7 DEF RollBack, TookEffect, Goto, tmux
  <2>2. ASSUME NEW i \in inFlight, i # cur[o] PROVE StaysBacked(i)
    <3>1. (AtWork(i) => AtWork(i)') /\ (PrSeen(i) => PrSeen(i)') BY <2>1 DEF AtWork, PrSeen
    <3> QED BY <2>1, <2>2, <3>1 DEF StaysBacked
  <2> QED BY <2>1, <2>2, LabelStep
<1>8. ASSUME NEW o \in Orchs, Crash(o) PROVE LabelMeansWork'
  BY <1>8 DEF Crash, May, Reliable
<1>9. ASSUME Environment PROVE LabelMeansWork'
  <2>1. UNCHANGED <<inFlight, pc, cur>>
    BY <1>9 DEF Environment, AgentOpensPr, HumanOpensPr, ClosePr, CiReports,
         AgentGivesUp, CloseIssue, ClaimScope, AgentSessionEnds, QaSessionEnds, github, proc, pass
  <2>2. \A p \in PRs : pr[p] # "none" => pr'[p] # "none"
    BY <1>9 DEF Environment, AgentOpensPr, HumanOpensPr, ClosePr, CiReports,
         AgentGivesUp, CloseIssue, ClaimScope, AgentSessionEnds, QaSessionEnds, GithubOK, github
  \* Only a worker whose issue has a pull request leaves it.
  <2>3. ASSUME NEW i \in Issues, NEW j \in Issues, WorkerLeaves(j), j # i, AtWork(i)
        PROVE  AtWork(i)'
    BY <2>3 DEF WorkerLeaves, AtWork, WorkersOK
  <2>4. ASSUME NEW i \in Issues, AtWork(i) PROVE AtWork(i)' \/ PrSeen(i)'
    <3>1. ASSUME NEW p \in PRs, AgentOpensPr(p) PROVE AtWork(i)' \/ PrSeen(i)'
      <4>1. /\ PrIssue[p] \in Issues /\ WorkerLeaves(PrIssue[p]) /\ pr'[p] = "open"
        BY <3>1, ConstantsAssumption DEF AgentOpensPr, GithubOK
      <4> QED BY <4>1, <2>3, <2>4 DEF PrSeen
    <3>2. ASSUME NEW j \in Issues, AgentGivesUp(j) PROVE AtWork(i)' \/ PrSeen(i)'
      <4>1. PrSeen(j) /\ WorkerLeaves(j) BY <3>2 DEF AgentGivesUp, May, Reliable
      <4>2. PrSeen(j)' BY <4>1, <2>2, PrStays
      <4> QED BY <4>1, <4>2, <2>3, <2>4
    <3>3. ASSUME NEW n \in AgentSlots, AgentSessionEnds(n) PROVE AtWork(i)'
      BY <3>3, <2>4, ConstantsAssumption DEF AgentSessionEnds, AtWork, WorkersOK
    <3>4. \/ UNCHANGED <<agent, web>>
          \/ \E p \in PRs : AgentOpensPr(p)
          \/ \E j \in Issues : AgentGivesUp(j)
          \/ \E n \in AgentSlots : AgentSessionEnds(n)
      BY <1>9 DEF Environment, HumanOpensPr, ClosePr, CiReports, CloseIssue, ClaimScope,
           QaSessionEnds, tmux
    <3>5. CASE UNCHANGED <<agent, web>> BY <3>5, <2>4 DEF AtWork
    <3> QED BY <3>1, <3>2, <3>3, <3>4, <3>5
  <2>5. ASSUME NEW i \in inFlight PROVE GetsBacked(i) \/ StaysBacked(i)
    <3>1. PrSeen(i) => PrSeen(i)' BY <2>2, PrStays
    <3> QED BY <1>0, <2>1, <2>4, <3>1 DEF GetsBacked, StaysBacked
  <2>6. inFlight' = inFlight BY <2>1
  <2>7. \A i \in inFlight' : GetsBacked(i) \/ (i \in inFlight /\ StaysBacked(i)) BY <2>5, <2>6
  <2> QED BY <2>7, LabelStep
<1>10. CASE UNCHANGED vars
  BY <1>10, LabelStays DEF vars, github, tmux, proc, pass
<1> QED
  BY <1>1, <1>2, <1>3, <1>4, <1>5, <1>6, <1>7, <1>8, <1>9, <1>10 DEF Next, Process, Act

\* A label always has a worker behind it, a pull request, or a process on its
\* way (orchestrator.rs, dispatch and its rollback), for processes that do not
\* die and calls to GitHub that succeed, whatever tmux does.
THEOREM LabelsMeanWork == Spec => []LabelMeansWork
<1>1. Init => TypeInv /\ OwnSession /\ LabelMeansWork
  BY InitTypeInv, InitOwnSession, ConstantsAssumption DEF Init, LabelMeansWork
<1>2. TypeInv /\ OwnSession /\ LabelMeansWork /\ [Next]_vars
        => (TypeInv /\ OwnSession /\ LabelMeansWork)'
  BY NextTypeInv, NextOwnSession, NextLabelMeansWork, ConstantsAssumption
<1> QED BY <1>1, <1>2, PTL DEF Spec

-----------------------------------------------------------------------------
(* One worker per issue.  A process alone with GitHub looks at an issue's  *)
(* label, its open pull requests and what it has dispatched in this pass;  *)
(* together these know of every worker, until a pull request is closed.    *)

Single == (\A o, q \in Orchs : o = q) /\ "replyLost" \notin Hazards

Bounded == \E N \in Nat : PRs \subseteq 0..N

\* A pull request is only ever closed by a merge that closes its issue.
Closing ==
  /\ "abandon" \notin Hazards
  /\ \A p \in PRs : PrIssue[p] # NoIssue => p \in ClosingPRs
  /\ Bounded

Excused(i) == PrSettled(i) /\ ~Closing

PrIsOpen(i) == \E p \in PRs : PrIssue[p] = i /\ pr[p] = "open"

WorkersCounted ==
  \A i \in Issues :
    /\ Excused(i) \/ SoleWorker(i)
    /\ Excused(i) \/ PrSeen(i) \/ (AtWork(i) => i \in inFlight)
    /\ Closing /\ PrSettled(i) => i \notin issueOpen

Dispatching == {"dispatch", "claim", "trigger", "session", "prompt", "rollback"}

Surveyed ==
  {"clear", "localCi", "comments", "sessions", "merge", "qa", "qaPrompt"} \cup Dispatching

\* The issues the pass may still choose.
Candidates(o) == IF pc[o] \in Dispatching THEN todo[o] ELSE snap[o].open

\* The pass knows of every worker on an issue it may still choose.
Told(o) ==
  \A i \in Issues : i \in Candidates(o) /\ AtWork(i) /\ ~Excused(i) =>
    /\ pc[o] \in {"closedIssues", "openPrs"} => i \in snap[o].label \/ PrIsOpen(i)
    /\ pc[o] \in Surveyed => i \in snap[o].label \/ LinkedPrs(snap[o], i) # {}

\* Nobody is at work on the issue that has been chosen.
Held(o) ==
  pc[o] \in Dispatching \ {"dispatch"} =>
    cur[o] \notin todo[o] /\ (AtWork(cur[o]) => Excused(cur[o]))

Claimed(o) ==
  pc[o] \in {"trigger", "session", "prompt"} => cur[o] \in inFlight \/ PrSeen(cur[o])

ListsSound(o) ==
  /\ \A p \in snap[o].closedPrs : pr[p] # "none"
  /\ pc[o] = "clear" => todo[o] \subseteq {p \in PRs : pr[p] # "none"}
  /\ pc[o] = "merge" => todo[o] \subseteq {i \in Issues : LinkedPrs(snap[o], i) # {}}

OnceInv ==
  WorkersCounted /\ \A o \in Orchs : Told(o) /\ Held(o) /\ Claimed(o) /\ ListsSound(o)

\* No worker comes, and what is known of pull requests is kept.
Wanes ==
  \A i \in Issues :
    /\ AtWork(i)' => AtWork(i)
    /\ SoleWorker(i) => SoleWorker(i)'
    /\ PrSeen(i) => PrSeen(i)'
    /\ PrSettled(i) => PrSettled(i)'

LEMMA WorkersStay ==
  ASSUME WorkersCounted, Wanes, issueOpen' \subseteq issueOpen,
         \A i \in inFlight : i \in inFlight' \/ (i \in Issues => PrSeen(i)' \/ ~AtWork(i)' \/ Excused(i)'),
         \A i \in Issues : Closing /\ PrSettled(i)' => PrSettled(i) \/ i \notin issueOpen'
  PROVE  WorkersCounted'
BY DEF WorkersCounted, Wanes, Excused, Closing

\* A step of a pass that has been surveyed and goes on without a new choice.
LEMMA ToldStays ==
  ASSUME NEW o \in Orchs, Told(o), pc[o] \in Surveyed, pc'[o] \in Surveyed,
         Candidates(o)' \subseteq Candidates(o),
         snap'[o].label = snap[o].label, snap'[o].prs = snap[o].prs,
         \A i \in Issues : /\ i \in Candidates(o)' /\ AtWork(i)' => AtWork(i)
                           /\ PrSettled(i) => PrSettled(i)'
  PROVE  Told(o)'
<1> SUFFICES ASSUME NEW i \in Issues, i \in Candidates(o)', AtWork(i)', ~Excused(i)'
             PROVE  i \in snap'[o].label \/ LinkedPrs(snap'[o], i) # {}
  BY DEF Told, Surveyed, Dispatching
<1>1. i \in Candidates(o) /\ AtWork(i) /\ ~Excused(i) BY DEF Excused, Closing
<1>2. i \in snap[o].label \/ LinkedPrs(snap[o], i) # {} BY <1>1 DEF Told
<1> QED BY <1>2 DEF LinkedPrs

\* Sessions are changed that nobody works in.
LEMMA IdleWanes ==
  ASSUME UNCHANGED <<pr, web>>,
         \A n \in AgentSlots : /\ agent'[n] \in Issues => agent'[n] = agent[n]
                               /\ agent[n] \in Issues => agent'[n] = agent[n]
  PROVE  Wanes
BY DEF Wanes, AtWork, SoleWorker, PrSeen, PrSettled

\* Nothing happens outside the process.
Still == UNCHANGED <<issueOpen, inFlight, pr, web, agent>>

LEMMA StillWanes == ASSUME Still PROVE Wanes
BY DEF Still, Wanes, AtWork, SoleWorker, PrSeen, PrSettled

LEMMA StillCounted == ASSUME Still, WorkersCounted PROVE WorkersCounted'
BY StillWanes, WorkersStay DEF Still, Wanes, PrSettled

\* Until the survey ends, what the pass has read covers what is at work.
LEMMA ReadingStays ==
  ASSUME ConstantsAssumption, TypeInv, OnceInv, NEW o \in Orchs, \A q \in Orchs : q = o,
         Start(o) \/ SoftChordExpires(o) \/ ReadClosedPrs(o) \/ ReadOpenIssues(o)
           \/ ReadClosedIssues(o) \/ ReadOpenPrs(o) \/ SurveyFails(o) \/ EndPass(o)
  PROVE  OnceInv'
<1> USE DEF TypeInv, TypeOK, ProcessOK, OnceInv, Goto, github, tmux, pass
<1>0. Still
  BY DEF Still, Start, SoftChordExpires, ReadClosedPrs, ReadOpenIssues, ReadClosedIssues,
     ReadOpenPrs, SurveyFails, EndPass
<1>1. WorkersCounted' BY <1>0, StillCounted
<1>2. pc'[o] \in {"down", "closedPrs", "openIssues", "closedIssues", "openPrs", "clear"}
  BY DEF Start, SoftChordExpires, ReadClosedPrs, ReadOpenIssues, ReadClosedIssues,
     ReadOpenPrs, SurveyFails, EndPass, Exit, ForgetPass
<1>3. Held(o)' /\ Claimed(o)' BY <1>2 DEF Held, Claimed, Dispatching
<1>4. \A i : PrIsOpen(i)' = PrIsOpen(i) /\ AtWork(i)' = AtWork(i) /\ Excused(i)' = Excused(i)
  BY <1>0 DEF Still, PrIsOpen, AtWork, Excused, PrSettled, Closing
<1>5. Told(o)' /\ ListsSound(o)'
  <2>1. CASE Start(o) \/ SurveyFails(o) \/ EndPass(o)
    <3>1. pc'[o] \in {"down", "closedPrs"} /\ snap'[o].closedPrs \subseteq snap[o].closedPrs
      BY <2>1 DEF Start, SurveyFails, EndPass, Exit, ForgetPass, NoSnapshot
    <3> QED BY <3>1, <1>0 DEF Told, ListsSound, Surveyed, Dispatching, Still
  <2>2. CASE SoftChordExpires(o)
    <3>1. pc'[o] = "closedPrs" /\ snap' = snap BY <2>2 DEF SoftChordExpires
    <3> QED BY <3>1, <1>0 DEF Told, ListsSound, Surveyed, Dispatching, Still
  <2>3. CASE ReadClosedPrs(o)
    <3>1. pc'[o] = "openIssues" /\ \A p \in snap'[o].closedPrs : pr[p] # "none"
      <4>1. PICK read : /\ \A p \in read : pr[p] # "none"
                        /\ snap' = [snap EXCEPT ![o].closedPrs = read]
        BY <2>3 DEF ReadClosedPrs
      <4>2. snap'[o].closedPrs = read BY <4>1 DEF Snapshot
      <4> QED BY <2>3, <4>1, <4>2 DEF ReadClosedPrs
    <3> QED BY <3>1, <1>0 DEF Told, ListsSound, Surveyed, Dispatching, Still
  <2>4. CASE ReadOpenIssues(o)
    <3>1. /\ pc'[o] = "closedIssues" /\ snap'[o].closedPrs = snap[o].closedPrs
          /\ snap'[o].open = issueOpen /\ snap'[o].label = inFlight \cap issueOpen
      BY <2>4 DEF ReadOpenIssues, Snapshot
    <3>2. ASSUME NEW i \in Issues, i \in issueOpen, AtWork(i), ~Excused(i)
          PROVE  i \in inFlight \cap issueOpen \/ PrIsOpen(i)
      <4>1. i \in inFlight \/ PrSeen(i) BY <3>2 DEF WorkersCounted
      <4>2. CASE PrSeen(i)
        <5>1. ~PrSettled(i) BY <3>2 DEF WorkersCounted, Excused
        <5> QED BY <4>2, <5>1 DEF PrSeen, PrSettled, PrIsOpen, GithubOK
      <4> QED BY <3>2, <4>1, <4>2
    <3>3. Told(o)' BY <3>1, <3>2, <1>4 DEF Told, Candidates, Surveyed, Dispatching
    <3> QED BY <3>1, <3>3, <1>0 DEF ListsSound, Still
  <2>5. CASE ReadClosedIssues(o)
    <3>1. /\ pc[o] = "closedIssues" /\ pc'[o] = "openPrs" /\ snap'[o].closedPrs = snap[o].closedPrs
          /\ snap'[o].open = snap[o].open /\ snap'[o].label = snap[o].label
      BY <2>5 DEF ReadClosedIssues, Snapshot
    <3>2. Told(o)' BY <3>1, <1>4 DEF Told, Candidates, Surveyed, Dispatching
    <3> QED BY <3>1, <3>2, <1>0 DEF ListsSound, Still
  <2>6. CASE ReadOpenPrs(o)
    <3>1. /\ pc[o] = "openPrs" /\ pc'[o] = "clear" /\ snap'[o].closedPrs = snap[o].closedPrs
          /\ snap'[o].open = snap[o].open /\ snap'[o].label = snap[o].label
          /\ snap'[o].prs = {p \in PRs : pr[p] = "open"}
          /\ todo'[o] \subseteq {p \in PRs : pr[p] = "open"} \cup snap[o].closedPrs
          /\ snap[o].closedPrs \subseteq PRs
      BY <2>6 DEF ReadOpenPrs, Snapshot
    <3>2. \A i : PrIsOpen(i) => LinkedPrs(snap'[o], i) # {} BY <3>1 DEF PrIsOpen, LinkedPrs
    <3>3. Told(o)' BY <3>1, <3>2, <1>4 DEF Told, Candidates, Surveyed, Dispatching
    <3> QED BY <3>1, <3>3, <1>0 DEF ListsSound, Still
  <2> QED BY <2>1, <2>2, <2>3, <2>4, <2>5, <2>6
<1> QED BY <1>1, <1>3, <1>5

\* A step that touches nothing outside a process that has surveyed, and that
\* chooses nothing, keeps its candidates or loses some.
LEMMA PassStays ==
  ASSUME OnceInv, Still, NEW o \in Orchs, \A q \in Orchs : q = o,
         pc[o] \in Surveyed, pc'[o] \in Surveyed, pc'[o] # "clear",
         Candidates(o)' \subseteq Candidates(o),
         /\ snap'[o].label = snap[o].label /\ snap'[o].prs = snap[o].prs
         /\ snap'[o].closedPrs = snap[o].closedPrs,
         pc'[o] \in Dispatching => pc'[o] = "dispatch",
         pc'[o] = "merge" => todo'[o] \subseteq {i \in Issues : LinkedPrs(snap[o], i) # {}}
  PROVE  OnceInv'
<1> USE DEF OnceInv
<1>1. WorkersCounted' BY StillCounted
<1>2. Held(o)' /\ Claimed(o)' BY DEF Held, Claimed, Dispatching
<1>3. \A i : AtWork(i)' = AtWork(i) /\ PrSettled(i)' = PrSettled(i)
  BY DEF Still, AtWork, PrSettled
<1>4. Told(o)' BY <1>3, ToldStays
<1>5. ListsSound(o)' BY DEF ListsSound, Still, LinkedPrs
<1> QED BY <1>1, <1>2, <1>4, <1>5

LEMMA SurveyedStays ==
  ASSUME ConstantsAssumption, TypeInv, OnceInv, NEW o \in Orchs, \A q \in Orchs : q = o,
         ClearDone(o) \/ RunLocalCi(o) \/ ReadComments(o) \/ ReadSessions(o)
           \/ MergeSkipped(o) \/ MergeDone(o) \/ OpenQaSession(o) \/ QaSkipped(o)
           \/ PromptQa(o) \/ QaDone(o) \/ PassOver(o) \/ HoldBack(o) \/ Defer(o)
  PROVE  OnceInv'
<1> USE DEF TypeInv, TypeOK, ProcessOK, Goto, github, tmux, pass
<1>1. Still
  BY DEF Still, ClearDone, RunLocalCi, ReadComments, ReadSessions, MergeSkipped, MergeDone,
     OpenQaSession, QaSkipped, PromptQa, QaDone, PassOver, HoldBack, Defer, Cleared
<1>2. CASE ClearDone(o) \/ RunLocalCi(o) \/ ReadComments(o)
  <2>1. /\ pc[o] \in {"clear", "localCi", "comments"}
        /\ pc'[o] \in {"localCi", "comments", "sessions"}
    BY <1>2 DEF ClearDone, RunLocalCi, ReadComments
  <2>2. /\ snap'[o].label = snap[o].label /\ snap'[o].prs = snap[o].prs
        /\ snap'[o].closedPrs = snap[o].closedPrs /\ snap'[o].open = snap[o].open
    BY <1>2 DEF ClearDone, RunLocalCi, ReadComments, Snapshot
  <2> QED BY <1>1, <2>1, <2>2, PassStays DEF Surveyed, Dispatching, Candidates
<1>3. CASE ReadSessions(o)
  <2>1. /\ pc[o] = "sessions" /\ pc'[o] = "merge" /\ snap' = snap
        /\ todo'[o] = {i \in snap[o].open : Bucket(snap[o], i) = "PrOpen"}
    BY <1>3 DEF ReadSessions
  <2>2. todo'[o] \subseteq {i \in Issues : LinkedPrs(snap[o], i) # {}}
    BY <2>1 DEF Bucket, Snapshot
  <2> QED BY <1>1, <2>1, <2>2, PassStays DEF Surveyed, Dispatching, Candidates
<1>4. CASE MergeSkipped(o) \/ MergeDone(o) \/ OpenQaSession(o) \/ QaSkipped(o)
             \/ PromptQa(o) \/ QaDone(o)
  <2>1. /\ pc[o] \in {"merge", "qa", "qaPrompt"} /\ snap' = snap
        /\ pc'[o] \in {"merge", "qa", "qaPrompt", "dispatch"}
        /\ pc'[o] = "merge" => pc[o] = "merge" /\ todo'[o] \subseteq todo[o]
        /\ pc'[o] = "dispatch" => todo'[o] = snap[o].open
    <3>1. CASE MergeSkipped(o) \/ MergeDone(o) BY <3>1 DEF MergeSkipped, MergeDone
    <3>2. CASE OpenQaSession(o) \/ QaSkipped(o) \/ PromptQa(o)
      BY <3>2 DEF OpenQaSession, QaSkipped, PromptQa
    <3>3. CASE QaDone(o) BY <3>3 DEF QaDone
    <3> QED BY <1>4, <3>1, <3>2, <3>3
  <2>2. pc'[o] = "merge" => todo'[o] \subseteq {i \in Issues : LinkedPrs(snap[o], i) # {}}
    BY <2>1 DEF OnceInv, ListsSound
  <2> QED BY <1>1, <2>1, <2>2, PassStays DEF Surveyed, Dispatching, Candidates
<1>5. CASE PassOver(o) \/ HoldBack(o) \/ Defer(o)
  <2>1. /\ pc[o] = "dispatch" /\ snap' = snap
        /\ pc'[o] = "dispatch" /\ todo'[o] \subseteq todo[o]
    BY <1>5 DEF PassOver, HoldBack, Defer, Considered, Cleared
  <2> QED BY <1>1, <2>1, PassStays DEF Surveyed, Dispatching, Candidates
<1> QED BY <1>2, <1>3, <1>4, <1>5

\* What is chosen has nobody at work on it.
LEMMA ChooseStays ==
  ASSUME ConstantsAssumption, TypeInv, OnceInv, NEW o \in Orchs, \A q \in Orchs : q = o,
         Choose(o)
  PROVE  OnceInv'
<1> USE DEF TypeInv, TypeOK, ProcessOK, Goto, github, tmux, pass
<1>1. Still BY DEF Still, Choose, Cleared
<1>2. PICK i \in Issues : Cleared(o, i) /\ cur' = [cur EXCEPT ![o] = i] BY DEF Choose
<1>3. /\ pc[o] = "dispatch" /\ pc'[o] = "claim" /\ snap' = snap /\ cur'[o] = i
      /\ i \in todo[o] /\ todo'[o] = todo[o] \ {i}
  BY <1>2 DEF Choose, Cleared, Considered
<1>4. i \notin snap[o].label /\ LinkedPrs(snap[o], i) = {}
  BY <1>2 DEF Cleared, Considered, Bucket
<1>5. \A j : AtWork(j)' = AtWork(j) /\ PrSettled(j)' = PrSettled(j)
  BY <1>1 DEF Still, AtWork, PrSettled
<1>6. AtWork(i)' => Excused(i)'
  BY <1>3, <1>4, <1>5 DEF OnceInv, Told, Candidates, Dispatching, Surveyed, Excused, Closing
<1>7. Held(o)' /\ Claimed(o)'
  <2>1. Claimed(o)' BY <1>3 DEF Claimed
  <2>2. \A j : AtWork(j)' /\ j = i => Excused(j)' BY <1>6
  <2>3. Held(o)'
    <3>1. AtWork(cur[o])' => Excused(cur[o])'
      BY <1>3, <1>6, <1>5, <1>1 DEF Still, AtWork, Excused, PrSettled, Closing
    <3> QED BY <1>3, <3>1 DEF Held
  <2> QED BY <2>1, <2>3
<1>8. Told(o)'
  BY <1>3, <1>5, ToldStays DEF OnceInv, Candidates, Dispatching, Surveyed
<1>9. ListsSound(o)' BY <1>1, <1>3 DEF OnceInv, ListsSound, Still
<1> QED BY <1>1, <1>7, <1>8, <1>9, StillCounted DEF OnceInv

\* A step of the process that brings no worker and no choice, and gives up no
\* label that a worker needs.
LEMMA LabelsMove ==
  ASSUME OnceInv, WorkersCounted', NEW o \in Orchs, \A q \in Orchs : q = o,
         pc[o] \in Surveyed, pc'[o] \in {"clear", "merge", "dispatch"},
         Wanes, Candidates(o)' \subseteq Candidates(o), snap' = snap,
         \A p : pr[p] # "none" => pr'[p] # "none",
         pc'[o] # "dispatch" => pc'[o] = pc[o] /\ todo'[o] \subseteq todo[o]
  PROVE  OnceInv'
<1> USE DEF OnceInv
<1>1. Held(o)' /\ Claimed(o)' BY DEF Held, Claimed, Dispatching
<1>2. Told(o)' BY ToldStays DEF Wanes, Surveyed, Dispatching
<1>3. ListsSound(o)' BY DEF ListsSound, LinkedPrs
<1> QED BY <1>1, <1>2, <1>3

LEMMA ClearLabelStays ==
  ASSUME ConstantsAssumption, TypeInv, OnceInv, NEW o \in Orchs, \A q \in Orchs : q = o,
         ClearLabel(o)
  PROVE  OnceInv'
<1> USE DEF TypeInv, TypeOK, ProcessOK, Goto, github, tmux, pass
<1>1. /\ pc[o] = "clear" /\ pc' = pc /\ snap' = snap /\ todo'[o] \subseteq todo[o]
      /\ UNCHANGED <<issueOpen, pr, web, agent>>
  BY DEF ClearLabel
<1>2. PICK p \in todo[o] : inFlight' \in {inFlight, inFlight \ {PrIssue[p]}} BY DEF ClearLabel
<1>3. p \in PRs /\ pr[p] # "none" BY <1>1 DEF OnceInv, ListsSound
<1>4. \A i \in inFlight : i \in inFlight' \/ PrSeen(i)' BY <1>1, <1>2, <1>3 DEF PrSeen
<1>5. Wanes BY <1>1, IdleWanes
<1>6. \A i \in Issues : PrSettled(i)' => PrSettled(i) BY <1>1 DEF PrSettled
<1>7. WorkersCounted' BY <1>1, <1>4, <1>5, <1>6, WorkersStay DEF OnceInv
<1> QED BY <1>1, <1>5, <1>7, LabelsMove DEF Surveyed, Dispatching, Candidates

\* The pull request that is merged is one of the issue's.
LEMMA LinkedPrIsLinked ==
  ASSUME ConstantsAssumption, Bounded, NEW s \in Snapshot, NEW i, LinkedPrs(s, i) # {}
  PROVE  LinkedPr(s, i) \in LinkedPrs(s, i)
<1>1. PICK N \in Nat : PRs \subseteq 0..N BY DEF Bounded
<1>2. LinkedPrs(s, i) \subseteq 0..N BY <1>1 DEF LinkedPrs, Snapshot
<1> DEFINE gaps == {n \in Nat : n <= N /\ N - n \in LinkedPrs(s, i)}
<1>3. gaps \subseteq Nat /\ gaps # {}
  <2>1. PICK p \in LinkedPrs(s, i) : TRUE OBVIOUS
  <2>2. N - p \in gaps /\ p \in 0..N BY <2>1, <1>2
  <2> QED BY <2>2
<1>4. \A p \in LinkedPrs(s, i) : p \in Nat /\ p <= N /\ N - p \in gaps BY <1>2
<1> HIDE DEF gaps
<1>5. PICK n \in gaps : \A m \in gaps : <<m, n>> \notin OpToRel(<, Nat)
  BY <1>3, NatLessThanWellFounded, WFMin, Zenon
<1>6. \A m \in gaps : ~ (m < n) BY <1>5, <1>3 DEF OpToRel
<1>7. N - n \in LinkedPrs(s, i) /\ n \in Nat BY DEF gaps
<1>8. \A q \in LinkedPrs(s, i) : q <= N - n
  <2> TAKE q \in LinkedPrs(s, i)
  <2>1. q \in Nat /\ ~ (N - q < n) BY <1>4, <1>6
  <2> QED BY <2>1, <1>7
<1> QED BY <1>7, <1>8 DEF LinkedPr

LEMMA MergeStays ==
  ASSUME ConstantsAssumption, TypeInv, OnceInv, NEW o \in Orchs, \A q \in Orchs : q = o,
         MergePr(o)
  PROVE  OnceInv'
<1> USE DEF TypeInv, TypeOK, ProcessOK, GithubOK, Goto, github, tmux, pass
<1>1. /\ pc[o] = "merge" /\ pc' = pc /\ snap' = snap /\ todo'[o] \subseteq todo[o]
      /\ UNCHANGED <<inFlight, web, agent>> /\ issueOpen' \subseteq issueOpen
  BY DEF MergePr
<1>2. PICK i \in todo[o] :
        LET p == LinkedPr(snap[o], i)
        IN  /\ pr[p] = "open" /\ pr' = [pr EXCEPT ![p] = "merged"]
            /\ issueOpen' = IF p \in ClosingPRs THEN issueOpen \ {i} ELSE issueOpen
  BY DEF MergePr
<1> DEFINE p == LinkedPr(snap[o], i)
<1>3. Closing => p \in PRs /\ PrIssue[p] = i /\ i \in Issues
  <2>1. i \in Issues /\ LinkedPrs(snap[o], i) # {} BY <1>1 DEF OnceInv, ListsSound
  <2>2. snap[o] \in Snapshot /\ snap[o].prs \subseteq PRs BY DEF Snapshot
  <2>3. Closing => p \in LinkedPrs(snap[o], i) BY <2>1, <2>2, LinkedPrIsLinked DEF Closing
  <2> QED BY <2>1, <2>2, <2>3 DEF LinkedPrs
<1> HIDE DEF p
<1>4. \A q : /\ pr[q] # "none" => pr'[q] # "none"
             /\ q \in PRs => pr'[q] = IF q = p THEN "merged" ELSE pr[q]
  BY <1>2 DEF p
<1>5. Wanes
  BY <1>1, <1>4 DEF Wanes, AtWork, SoleWorker, PrSeen, PrSettled
<1>6. ASSUME NEW j \in Issues, Closing, PrSettled(j)' PROVE PrSettled(j) \/ j \notin issueOpen'
  <2>1. p \in ClosingPRs /\ PrIssue[p] = i BY <1>3, <1>6, ConstantsAssumption DEF Closing
  <2>2. issueOpen' = issueOpen \ {i} BY <2>1, <1>2 DEF p
  <2> QED BY <2>1, <2>2, <1>4, <1>6 DEF PrSettled
<1>7. WorkersCounted' BY <1>1, <1>5, <1>6, WorkersStay DEF OnceInv
<1> QED BY <1>1, <1>4, <1>5, <1>7, LabelsMove DEF Surveyed, Dispatching, Candidates

\* A step in the middle of a dispatch.
LEMMA DispatchMoves ==
  ASSUME OnceInv, WorkersCounted', NEW o \in Orchs, \A q \in Orchs : q = o,
         pc[o] \in Dispatching, pc'[o] \in Dispatching, todo' = todo, snap' = snap, pr' = pr,
         \A i \in Issues : i \in todo[o] /\ AtWork(i)' => AtWork(i),
         Held(o)', Claimed(o)'
  PROVE  OnceInv'
<1> USE DEF OnceInv
<1>1. Told(o)' BY ToldStays DEF Candidates, Surveyed, Dispatching, PrSettled
<1>2. ListsSound(o)' BY DEF ListsSound, Dispatching
<1> QED BY <1>1, <1>2

\* The same when the issue that has been chosen is still the one, or none is.
LEMMA ChosenMoves ==
  ASSUME OnceInv, NEW o \in Orchs, \A q \in Orchs : q = o,
         pc[o] \in Dispatching \ {"dispatch"}, pc'[o] \in Dispatching,
         todo' = todo, snap' = snap, UNCHANGED <<pr, issueOpen>>, Wanes, cur[o] \in Issues,
         \A i \in inFlight : i \in inFlight' \/ (pc[o] = "rollback" /\ i = cur[o]),
         pc'[o] # "dispatch" => cur'[o] = cur[o],
         pc'[o] \in {"trigger", "session", "prompt"} =>
           cur[o] \in inFlight' \/ pc[o] \in {"trigger", "session", "prompt"}
  PROVE  OnceInv'
<1>1. AtWork(cur[o]) => Excused(cur[o]) BY DEF OnceInv, Held
<1>2. \A i : PrSettled(i)' = PrSettled(i) /\ PrSeen(i)' = PrSeen(i) /\ Excused(i)' = Excused(i)
  BY DEF PrSettled, PrSeen, Excused, Closing
<1>3. \A i \in Issues : AtWork(i)' => AtWork(i) BY DEF Wanes
<1>4. WorkersCounted'
  <2>1. \A i \in inFlight : i \in inFlight' \/ (i \in Issues => ~AtWork(i)' \/ Excused(i)')
    BY <1>1, <1>2, <1>3
  <2> QED BY <2>1, <1>2, WorkersStay DEF OnceInv
<1>5. Held(o)'
  <2>1. \A i : i = cur[o] /\ AtWork(i)' => Excused(i)' BY <1>1, <1>2, <1>3
  <2>2. ASSUME pc'[o] # "dispatch" PROVE AtWork(cur[o])' => Excused(cur[o])'
    BY <2>1, <2>2 DEF AtWork, Excused, PrSettled, Closing
  <2>3. cur[o] \notin todo[o] BY DEF OnceInv, Held
  <2> QED BY <2>2, <2>3 DEF Held
<1>6. Claimed(o)'
  <2>1. ASSUME pc'[o] \in {"trigger", "session", "prompt"}
        PROVE  cur[o] \in inFlight' \/ PrSeen(cur[o])
    BY <2>1 DEF OnceInv, Claimed
  <2>2. ASSUME pc'[o] \in {"trigger", "session", "prompt"} PROVE cur'[o] = cur[o]
    BY <2>2
  <2> QED BY <2>1, <2>2 DEF Claimed, PrSeen
<1> QED BY <1>3, <1>4, <1>5, <1>6, DispatchMoves

\* The worker that comes is the only one of its issue.
LEMMA WorkerComes ==
  ASSUME OnceInv, NEW o \in Orchs, \A q \in Orchs : q = o,
         pc[o] \in {"trigger", "prompt"}, pc'[o] = "dispatch",
         todo' = todo, snap' = snap, UNCHANGED <<pr, issueOpen, inFlight>>,
         NEW c \in Issues, c = cur[o],
         ~AtWork(c) => SoleWorker(c)',
         \A i \in Issues \ {c} : /\ AtWork(i)' => AtWork(i)
                                 /\ SoleWorker(i) => SoleWorker(i)'
  PROVE  OnceInv'
<1>1. c \notin todo[o] /\ (AtWork(c) => Excused(c)) /\ (c \in inFlight \/ PrSeen(c))
  BY DEF OnceInv, Held, Claimed, Dispatching
<1>2. \A i : PrSettled(i)' = PrSettled(i) /\ PrSeen(i)' = PrSeen(i) /\ Excused(i)' = Excused(i)
  BY DEF PrSettled, PrSeen, Excused, Closing
<1>3. WorkersCounted'
  <2> SUFFICES ASSUME NEW i \in Issues
               PROVE  /\ Excused(i)' \/ SoleWorker(i)'
                      /\ Excused(i)' \/ PrSeen(i)' \/ (AtWork(i)' => i \in inFlight)
                      /\ Closing /\ PrSettled(i)' => i \notin issueOpen
    BY DEF WorkersCounted, Closing
  <2>1. CASE i = c BY <2>1, <1>1, <1>2 DEF OnceInv, WorkersCounted
  <2>2. CASE i # c BY <2>2, <1>2 DEF OnceInv, WorkersCounted
  <2> QED BY <2>1, <2>2
<1>4. Held(o)' /\ Claimed(o)' BY DEF Held, Claimed
<1> QED BY <1>1, <1>3, <1>4, DispatchMoves DEF Dispatching

LEMMA DispatchStays ==
  ASSUME ConstantsAssumption, TypeInv, OwnSession, OnceInv, "replyLost" \notin Hazards,
         NEW o \in Orchs, \A q \in Orchs : q = o,
         ClaimIssue(o) \/ PostTrigger(o) \/ OpenSession(o) \/ SendPrompt(o) \/ RollBack(o)
  PROVE  OnceInv'
<1> USE DEF TypeInv, TypeOK, ProcessOK, WorkersOK, Goto, github, tmux, pass
<1>1. \A r \in Outcomes : ReportedOk(r) = TookEffect(r)
  BY DEF Outcomes, May, ReportedOk, TookEffect
<1>2. /\ pc[o] \in {"claim", "trigger", "session", "prompt", "rollback"}
      /\ todo' = todo /\ snap' = snap /\ UNCHANGED <<pr, issueOpen>> /\ cur[o] \in Issues
      /\ pc'[o] \in Dispatching /\ pc[o] \in Dispatching \ {"dispatch"}
  <2>1. CASE ClaimIssue(o) BY <2>1 DEF ClaimIssue, Focused, Dispatching
  <2>2. CASE PostTrigger(o)
    BY <2>2 DEF PostTrigger, Dispatched, RollBackNext, Focused, Dispatching
  <2>3. CASE OpenSession(o) BY <2>3 DEF OpenSession, Focused, Dispatching
  <2>4. CASE SendPrompt(o)
    BY <2>4 DEF SendPrompt, Dispatched, RollBackNext, Focused, Dispatching
  <2>5. CASE RollBack(o) BY <2>5 DEF RollBack, Focused, Dispatching
  <2> QED BY <2>1, <2>2, <2>3, <2>4, <2>5
<1>3. CASE ClaimIssue(o)
  <2>1. /\ UNCHANGED <<web, agent>> /\ inFlight \subseteq inFlight'
        /\ pc'[o] = "dispatch"
             \/ (pc'[o] \in {"trigger", "session"} /\ cur' = cur /\ cur[o] \in inFlight')
    BY <1>1, <1>3 DEF ClaimIssue
  <2>2. Wanes BY <1>2, <2>1, IdleWanes
  <2> QED BY <1>2, <2>1, <2>2, ChosenMoves
<1>4. CASE PostTrigger(o)
  <2>1. CASE UNCHANGED web /\ pc'[o] = "rollback" /\ cur'[o] = cur[o]
    <3>1. UNCHANGED <<agent, inFlight>> BY <1>4 DEF PostTrigger
    <3>2. Wanes BY <1>2, <2>1, <3>1, IdleWanes
    <3> QED BY <1>2, <2>1, <3>1, <3>2, ChosenMoves
  <2>2. CASE /\ web' = [web EXCEPT ![cur[o]] = IF @ < MaxRuns THEN @ + 1 ELSE @]
             /\ pc'[o] = "dispatch"
    <3>1. UNCHANGED <<agent, inFlight>> /\ pc[o] = "trigger" BY <1>4 DEF PostTrigger
    <3>2. PICK c \in Issues : c = cur[o] BY <1>2
    <3>3. \A i \in Issues \ {c} : web'[i] = web[i] BY <2>2, <3>2
    <3>4. \A i \in Issues \ {c} : /\ AtWork(i)' => AtWork(i)
                                  /\ SoleWorker(i) => SoleWorker(i)'
      BY <3>1, <3>3 DEF AtWork, SoleWorker
    <3>5. web[c] = 0 => web'[c] = 1 BY <2>2, <3>2 DEF MaxRuns
    <3>6. ~AtWork(c) => web[c] = 0
      <4>1. web[c] \in 0..MaxRuns OBVIOUS
      <4> HIDE DEF TypeInv, TypeOK, ProcessOK, WorkersOK
      <4> QED BY <4>1 DEF AtWork, MaxRuns
    <3>7. ~AtWork(c) => SoleWorker(c)' BY <3>1, <3>5, <3>6 DEF AtWork, SoleWorker
    <3> QED BY <1>2, <2>2, <3>1, <3>2, <3>4, <3>7, WorkerComes
  <2> QED BY <1>1, <1>4, <2>1, <2>2 DEF PostTrigger, Dispatched, RollBackNext
<1>5. CASE OpenSession(o)
  <2>1. /\ UNCHANGED <<web, inFlight>> /\ pc[o] = "session"
        /\ pc'[o] \in {"prompt", "rollback"} /\ cur'[o] = cur[o]
        /\ \A n \in AgentSlots : agent'[n] \in Issues => agent'[n] = agent[n]
        /\ \A n \in AgentSlots : agent[n] \in Issues => agent'[n] = agent[n]
    BY <1>5, ConstantsAssumption DEF OpenSession
  <2>2. Wanes BY <1>2, <2>1, IdleWanes
  <2> QED BY <1>2, <2>1, <2>2, ChosenMoves
<1>6. CASE SendPrompt(o)
  <2>1. /\ UNCHANGED <<web, inFlight>> /\ pc[o] = "prompt"
        /\ slot[o] \in AgentSlots /\ agent[slot[o]] = Fresh
    BY <1>6 DEF SendPrompt, Focused, OwnSession
  <2>2. CASE agent' = [agent EXCEPT ![slot[o]] = Parked] /\ pc'[o] = "rollback" /\ cur' = cur
    <3>1. \A n \in AgentSlots : /\ agent'[n] \in Issues => agent'[n] = agent[n]
                                /\ agent[n] \in Issues => agent'[n] = agent[n]
      BY <2>1, <2>2, ConstantsAssumption
    <3>2. Wanes BY <1>2, <2>1, <3>1, IdleWanes
    <3> QED BY <1>2, <2>1, <2>2, <3>2, ChosenMoves
  <2>3. CASE agent' = [agent EXCEPT ![slot[o]] = cur[o]] /\ pc'[o] = "dispatch"
    <3>1. PICK c \in Issues : c = cur[o] BY <1>2
    <3>2. PICK n \in AgentSlots : n = slot[o] BY <2>1
    <3>3. /\ agent'[n] = c /\ agent[n] \notin Issues
          /\ \A m \in AgentSlots \ {n} : agent'[m] = agent[m]
      BY <2>1, <2>3, <3>1, <3>2, ConstantsAssumption
    <3>4. \A i \in Issues \ {c} : /\ AtWork(i)' => AtWork(i)
                                  /\ SoleWorker(i) => SoleWorker(i)'
      BY <2>1, <3>3 DEF AtWork, SoleWorker
    <3>5. ~AtWork(c) => SoleWorker(c)' BY <2>1, <3>3 DEF AtWork, SoleWorker
    <3> QED BY <1>2, <2>1, <2>3, <3>1, <3>4, <3>5, WorkerComes
  <2> QED BY <1>6, <2>2, <2>3 DEF SendPrompt, Dispatched, RollBackNext
<1>7. CASE RollBack(o)
  <2>1. /\ UNCHANGED <<web, agent>> /\ pc[o] = "rollback" /\ pc'[o] = "dispatch"
        /\ \A i \in inFlight : i \in inFlight' \/ i = cur[o]
    BY <1>7 DEF RollBack
  <2>2. Wanes BY <1>2, <2>1, IdleWanes
  <2> QED BY <1>2, <2>1, <2>2, ChosenMoves
<1> QED BY <1>3, <1>4, <1>5, <1>6, <1>7

\* What agents, CI and people do leaves what the pass knows true.
LEMMA WorldMoves ==
  ASSUME TypeInv, OnceInv, Wanes, UNCHANGED <<pc, todo, snap, cur, inFlight>>,
         issueOpen' \subseteq issueOpen,
         \A p : pr[p] # "none" => pr'[p] # "none",
         \A i \in Issues : /\ PrIsOpen(i) => PrIsOpen(i)' \/ Excused(i)'
                           /\ Closing /\ PrSettled(i)' => PrSettled(i)
  PROVE  OnceInv'
<1>1. WorkersCounted' BY WorkersStay DEF OnceInv
<1>2. \A i \in Issues : Excused(i) => Excused(i)' BY DEF Wanes, Excused, Closing
<1>3. ASSUME NEW o \in Orchs PROVE Told(o)' /\ Held(o)' /\ Claimed(o)' /\ ListsSound(o)'
  <2>1. Candidates(o)' = Candidates(o) BY DEF Candidates
  <2>2. \A i \in Issues : AtWork(i)' => AtWork(i) BY DEF Wanes
  <2>3. Told(o)'
    <3> SUFFICES ASSUME NEW i \in Issues, i \in Candidates(o)', AtWork(i)', ~Excused(i)'
                 PROVE  /\ pc[o] \in {"closedIssues", "openPrs"} => i \in snap[o].label \/ PrIsOpen(i)'
                        /\ pc[o] \in Surveyed => i \in snap[o].label \/ LinkedPrs(snap[o], i) # {}
      BY DEF Told, LinkedPrs
    <3>1. i \in Candidates(o) /\ AtWork(i) /\ ~Excused(i) BY <2>1, <2>2, <1>2
    <3> QED BY <3>1 DEF OnceInv, Told
  <2>4. Held(o)' /\ Claimed(o)'
    <3>1. CASE pc[o] \in Dispatching \ {"dispatch"}
      <4>1. PICK i \in Issues : i = cur[o] BY <3>1 DEF TypeInv, Focused, Dispatching
      <4>2. AtWork(i)' => Excused(i)' BY <3>1, <4>1, <2>2, <1>2 DEF OnceInv, Held
      <4>3. AtWork(cur[o])' => Excused(cur[o])'
        BY <4>1, <4>2 DEF AtWork, Excused, PrSettled, Closing
      <4>4. PrSeen(i) => PrSeen(i)' BY DEF Wanes
      <4>5. PrSeen(cur[o]) => PrSeen(cur[o])' BY <4>1, <4>4 DEF PrSeen
      <4> QED BY <4>3, <4>5 DEF OnceInv, Held, Claimed
    <3>2. CASE pc[o] \notin Dispatching \ {"dispatch"}
      BY <3>2 DEF Held, Claimed, Dispatching
    <3> QED BY <3>1, <3>2
  <2>5. ListsSound(o)' BY DEF OnceInv, ListsSound, LinkedPrs
  <2> QED BY <2>3, <2>4, <2>5
<1> QED BY <1>1, <1>3 DEF OnceInv

LEMMA WorkerLeavesWanes ==
  ASSUME ConstantsAssumption, WorkersOK, NEW j \in Issues, WorkerLeaves(j)
  PROVE  \A i \in Issues : (AtWork(i)' => AtWork(i)) /\ (SoleWorker(i) => SoleWorker(i)')
<1>1. CASE web[j] > 0 /\ web' = [web EXCEPT ![j] = @ - 1] /\ UNCHANGED agent
  <2>1. web' \in [Issues -> Nat] /\ \A i \in Issues : web'[i] <= web[i] /\ web[i] \in Nat
    BY <1>1 DEF WorkersOK, MaxRuns
  <2>2. \A i \in Issues : web'[i] \in Nat /\ web[i] \in Nat /\ web'[i] <= web[i] BY <2>1
  <2> QED BY <1>1, <2>2 DEF AtWork, SoleWorker
<1>2. CASE \E n \in AgentSlots : agent[n] = j /\ agent' = [agent EXCEPT ![n] = Parked] /\ UNCHANGED web
  <2>1. \A n \in AgentSlots : agent'[n] \in Issues => agent'[n] = agent[n]
    BY <1>2, ConstantsAssumption DEF WorkersOK
  <2> QED BY <1>2, <2>1 DEF AtWork, SoleWorker
<1> QED BY <1>1, <1>2 DEF WorkerLeaves

LEMMA EnvironmentStays ==
  ASSUME ConstantsAssumption, TypeInv, OnceInv, Environment
  PROVE  OnceInv'
<1> USE DEF github, tmux, proc, pass
<1>0. WorkersOK /\ GithubOK BY DEF TypeInv, TypeOK
<1>1. ASSUME NEW p \in PRs, AgentOpensPr(p) \/ HumanOpensPr(p) PROVE OnceInv'
  <2>1. /\ pr[p] = "none" /\ pr' = [pr EXCEPT ![p] = "open"]
        /\ UNCHANGED <<pc, todo, snap, cur, inFlight, issueOpen>>
    BY <1>1 DEF AgentOpensPr, HumanOpensPr
  <2>2. \A q \in PRs : pr'[q] = IF q = p THEN "open" ELSE pr[q]
    BY <1>0, <2>1 DEF GithubOK
  <2>3. \A q : pr[q] # "none" => pr'[q] # "none" BY <1>0, <2>1 DEF GithubOK
  <2>4. \A i \in Issues : (AtWork(i)' => AtWork(i)) /\ (SoleWorker(i) => SoleWorker(i)')
    <3>1. CASE AgentOpensPr(p)
      BY <3>1, <1>0, WorkerLeavesWanes, ConstantsAssumption DEF AgentOpensPr
    <3>2. CASE HumanOpensPr(p) BY <3>2 DEF HumanOpensPr, AtWork, SoleWorker
    <3> QED BY <1>1, <3>1, <3>2
  <2>5. \A i \in Issues : /\ PrSeen(i) => PrSeen(i)'
                          /\ PrIsOpen(i) => PrIsOpen(i)'
                          /\ PrSettled(i)' <=> PrSettled(i)
    BY <2>1, <2>2 DEF PrSeen, PrIsOpen, PrSettled
  <2>6. Wanes BY <2>4, <2>5 DEF Wanes
  <2> QED BY <2>1, <2>3, <2>5, <2>6, WorldMoves
<1>2. ASSUME NEW p \in PRs, ClosePr(p) PROVE OnceInv'
  <2>1. /\ pr[p] = "open" /\ pr' = [pr EXCEPT ![p] = "closed"] /\ ~Closing
        /\ UNCHANGED <<pc, todo, snap, cur, inFlight, issueOpen, web, agent>>
    BY <1>2 DEF ClosePr, May, Closing
  <2>2. \A q \in PRs : pr'[q] = IF q = p THEN "closed" ELSE pr[q]
    BY <1>0, <2>1 DEF GithubOK
  <2>3. \A q : pr[q] # "none" => pr'[q] # "none" BY <1>0, <2>1 DEF GithubOK
  <2>4. \A i \in Issues : /\ PrSeen(i) => PrSeen(i)'
                          /\ PrIsOpen(i) => PrIsOpen(i)' \/ PrSettled(i)'
                          /\ PrSettled(i) => PrSettled(i)'
    BY <2>2 DEF PrSeen, PrIsOpen, PrSettled
  <2>5. Wanes BY <2>1, <2>4 DEF Wanes, AtWork, SoleWorker
  <2>6. \A i \in Issues : PrIsOpen(i) => PrIsOpen(i)' \/ Excused(i)'
    BY <2>1, <2>4 DEF Excused, Closing
  <2> QED BY <2>1, <2>3, <2>5, <2>6, WorldMoves
<1>3. ASSUME UNCHANGED <<pr, pc, todo, snap, cur, inFlight>>, issueOpen' \subseteq issueOpen,
             \A i \in Issues : (AtWork(i)' => AtWork(i)) /\ (SoleWorker(i) => SoleWorker(i)')
      PROVE  OnceInv'
  <2>1. \A i : /\ PrSeen(i)' = PrSeen(i) /\ PrIsOpen(i)' = PrIsOpen(i)
               /\ PrSettled(i)' = PrSettled(i)
    BY <1>3 DEF PrSeen, PrIsOpen, PrSettled
  <2>2. Wanes BY <1>3, <2>1 DEF Wanes
  <2> QED BY <1>3, <2>1, <2>2, WorldMoves
<1>4. ASSUME NEW i \in Issues, AgentGivesUp(i) PROVE OnceInv'
  BY <1>4, <1>3, <1>0, WorkerLeavesWanes, ConstantsAssumption DEF AgentGivesUp
<1>5. ASSUME NEW n \in AgentSlots, AgentSessionEnds(n) PROVE OnceInv'
  <2>1. \A m \in AgentSlots : agent'[m] \in Issues => agent'[m] = agent[m]
    BY <1>5, <1>0, ConstantsAssumption DEF AgentSessionEnds, WorkersOK
  <2>2. \A i \in Issues : (AtWork(i)' => AtWork(i)) /\ (SoleWorker(i) => SoleWorker(i)')
    BY <1>5, <2>1 DEF AgentSessionEnds, AtWork, SoleWorker
  <2> QED BY <1>3, <1>5, <2>2 DEF AgentSessionEnds
<1>6. ASSUME UNCHANGED <<pr, pc, todo, snap, cur, inFlight, web, agent>>,
             issueOpen' \subseteq issueOpen
      PROVE  OnceInv'
  BY <1>6, <1>3 DEF AtWork, SoleWorker
<1>7. \/ \E p \in PRs : AgentOpensPr(p) \/ HumanOpensPr(p)
      \/ \E p \in PRs : ClosePr(p)
      \/ \E i \in Issues : AgentGivesUp(i)
      \/ \E n \in AgentSlots : AgentSessionEnds(n)
      \/ UNCHANGED <<pr, pc, todo, snap, cur, inFlight, web, agent>> /\ issueOpen' \subseteq issueOpen
  BY DEF Environment, CiReports, CloseIssue, ClaimScope, QaSessionEnds
<1> QED BY <1>1, <1>2, <1>4, <1>5, <1>6, <1>7

LEMMA CrashStays ==
  ASSUME ConstantsAssumption, TypeInv, OwnSession, OnceInv, NEW o \in Orchs, \A q \in Orchs : q = o,
         Crash(o)
  PROVE  OnceInv'
<1>1. /\ pc'[o] = "down" /\ snap'[o].closedPrs = {}
      /\ UNCHANGED <<issueOpen, inFlight, pr, web>>
  BY DEF Crash, Exit, ForgetPass, Goto, NoSnapshot, github, TypeInv, TypeOK, ProcessOK
<1>2. \A n \in AgentSlots : /\ agent'[n] \in Issues => agent'[n] = agent[n]
                            /\ agent[n] \in Issues => agent'[n] = agent[n]
  BY ConstantsAssumption DEF Crash, OwnSession
<1>3. Wanes BY <1>1, <1>2, IdleWanes
<1>4. \A i \in Issues : PrSettled(i)' => PrSettled(i) BY <1>1 DEF PrSettled
<1>5. WorkersCounted' BY <1>1, <1>3, <1>4, WorkersStay DEF OnceInv
<1>6. Told(o)' /\ Held(o)' /\ Claimed(o)' /\ ListsSound(o)'
  BY <1>1 DEF Told, Held, Claimed, ListsSound, Surveyed, Dispatching
<1> QED BY <1>5, <1>6 DEF OnceInv

LEMMA InitOnceInv == ASSUME ConstantsAssumption, Init PROVE OnceInv
<1>1. \A i \in Issues : ~AtWork(i) /\ ~PrSettled(i) /\ SoleWorker(i)
  BY ConstantsAssumption DEF Init, AtWork, PrSettled, SoleWorker
<1>2. \A o \in Orchs : pc[o] = "down" /\ snap[o].closedPrs = {} BY DEF Init, NoSnapshot
<1> QED BY <1>1, <1>2
  DEF OnceInv, WorkersCounted, Told, Held, Claimed, ListsSound, Surveyed, Dispatching

LEMMA NextOnceInv ==
  ASSUME ConstantsAssumption, Single, TypeInv, OwnSession, OnceInv, [Next]_vars
  PROVE  OnceInv'
<1>1. ASSUME NEW o \in Orchs, Process(o) \/ SoftChordExpires(o) \/ Crash(o) PROVE OnceInv'
  <2>1. (\A q \in Orchs : q = o) /\ "replyLost" \notin Hazards BY DEF Single
  <2>2. CASE Start(o) \/ SoftChordExpires(o) \/ ReadClosedPrs(o) \/ ReadOpenIssues(o)
               \/ ReadClosedIssues(o) \/ ReadOpenPrs(o) \/ SurveyFails(o) \/ EndPass(o)
    BY <2>1, <2>2, ReadingStays
  <2>3. CASE ClearDone(o) \/ RunLocalCi(o) \/ ReadComments(o) \/ ReadSessions(o)
               \/ MergeSkipped(o) \/ MergeDone(o) \/ OpenQaSession(o) \/ QaSkipped(o)
               \/ PromptQa(o) \/ QaDone(o) \/ PassOver(o) \/ HoldBack(o) \/ Defer(o)
    BY <2>1, <2>3, SurveyedStays
  <2>4. CASE Choose(o) BY <2>1, <2>4, ChooseStays
  <2>5. CASE ClearLabel(o) BY <2>1, <2>5, ClearLabelStays
  <2>6. CASE MergePr(o) BY <2>1, <2>6, MergeStays
  <2>7. CASE ClaimIssue(o) \/ PostTrigger(o) \/ OpenSession(o) \/ SendPrompt(o) \/ RollBack(o)
    BY <2>1, <2>7, DispatchStays
  <2>8. CASE Crash(o) BY <2>1, <2>8, CrashStays
  <2> QED BY <1>1, <2>2, <2>3, <2>4, <2>5, <2>6, <2>7, <2>8 DEF Process, Survey, Act
<1>2. CASE Environment BY <1>2, EnvironmentStays
<1>3. CASE UNCHANGED vars
  <2>1. UNCHANGED <<pr, pc, todo, snap, cur, inFlight, web, agent, issueOpen>>
    BY <1>3 DEF vars, github, tmux, proc, pass
  <2>2. Wanes BY <2>1, IdleWanes
  <2>3. \A i : PrIsOpen(i)' = PrIsOpen(i) /\ PrSettled(i)' = PrSettled(i)
    BY <2>1 DEF PrIsOpen, PrSettled
  <2> QED BY <2>1, <2>2, <2>3, WorldMoves
<1> QED BY <1>1, <1>2, <1>3 DEF Next

LEMMA SingleInv ==
  ASSUME Single PROVE Spec => [](TypeInv /\ OwnSession /\ OnceInv)
<1>1. Init => TypeInv /\ OwnSession /\ OnceInv
  BY InitTypeInv, InitOwnSession, InitOnceInv, ConstantsAssumption
<1>2. TypeInv /\ OwnSession /\ OnceInv /\ [Next]_vars => (TypeInv /\ OwnSession /\ OnceInv)'
  BY NextTypeInv, NextOwnSession, NextOnceInv, ConstantsAssumption
<1> QED BY <1>1, <1>2, PTL DEF Spec

\* A process alone, told the truth about its calls, never has two workers on
\* an issue (orchestrator.rs:325-336), whatever fails or dies, until a pull
\* request of the issue is closed.
THEOREM OneWorkerEach == ASSUME Single PROVE Spec => []NoDoubleWork
<1>1. OnceInv => NoDoubleWork BY DEF OnceInv, WorkersCounted, NoDoubleWork, Excused
<1> QED BY <1>1, SingleInv, PTL

-----------------------------------------------------------------------------
(* Bureaucratic issues.  One that is at work without a pull request is open  *)
(* and labelled, so that a pass finds its label when it reads the issues, or *)
(* it has been given out by the pass itself, which remembers.                *)

Serial == Single /\ Bounded /\ "humanClose" \notin Hazards

Strict(i) == PresetOf(i) = "Bureaucratic" /\ AtWork(i) /\ ~PrSeen(i)

\* An issue that is closed is a person's or has a pull request.
ClosedForCause == \A i \in Issues : i \in issueOpen \/ i \in HumanIssues \/ PrSeen(i)

AgentsOnly == \A i \in HumanIssues : ~AtWork(i)

Reading == {"closedIssues", "openPrs"} \cup Surveyed

\* A pass knows when some Bureaucratic issue is at work.
ChordSeen(o) ==
  pc[o] \in Reading =>
    \A i \in Issues : Strict(i) => i \in snap[o].label \/ (pc[o] \in Dispatching /\ bureau[o])

\* A Bureaucratic issue is chosen when no other is at work.
ChordFree(o) ==
  pc[o] \in {"claim", "trigger", "session", "prompt"} =>
    /\ cur[o] \notin HumanIssues
    /\ PresetOf(cur[o]) = "Bureaucratic" => \A i \in Issues : ~Strict(i)

SerialInv ==
  /\ BureaucraticAlone /\ ClosedForCause /\ AgentsOnly
  /\ \A o \in Orchs : ChordSeen(o) /\ ChordFree(o)

\* A step of the process that brings no worker and chooses no issue.
LEMMA SerialMoves ==
  ASSUME TypeInv, SerialInv, NEW o \in Orchs, \A q \in Orchs : q = o,
         \A i \in Issues : (AtWork(i)' => AtWork(i)) /\ (PrSeen(i) => PrSeen(i)'),
         HumanIssues \subseteq Issues, ClosedForCause',
         \/ pc'[o] \notin Reading
         \/ /\ pc[o] \in Reading /\ snap'[o].label = snap[o].label /\ bureau'[o] = bureau[o]
            /\ pc[o] \in Dispatching => pc'[o] \in Dispatching,
         pc'[o] \in {"claim", "trigger", "session", "prompt"} =>
           pc[o] \in {"claim", "trigger", "session", "prompt"} /\ cur'[o] = cur[o]
  PROVE  SerialInv'
<1> USE DEF SerialInv
<1>1. \A i \in Issues : Strict(i)' => Strict(i) BY DEF Strict
<1>2. BureaucraticAlone'
  <2>1. \A i, j \in Issues : i # j /\ Strict(i) /\ Strict(j) => FALSE
    BY DEF BureaucraticAlone, Strict
  <2>2. \A i, j \in Issues : i # j /\ Strict(i)' /\ Strict(j)' => FALSE BY <2>1, <1>1
  <2> QED BY <2>2 DEF BureaucraticAlone, Strict
<1>3. AgentsOnly' BY DEF AgentsOnly
<1>4. ChordSeen(o)'
  <2> SUFFICES ASSUME pc'[o] \in Reading, NEW i \in Issues, Strict(i)'
               PROVE  i \in snap'[o].label \/ (pc'[o] \in Dispatching /\ bureau'[o])
    BY DEF ChordSeen
  <2> QED BY <1>1 DEF ChordSeen
<1>5. ChordFree(o)'
  <2> SUFFICES ASSUME pc'[o] \in {"claim", "trigger", "session", "prompt"}
               PROVE  /\ cur'[o] \notin HumanIssues
                      /\ PresetOf(cur'[o]) = "Bureaucratic" => \A i \in Issues : ~Strict(i)'
    BY DEF ChordFree, PresetOf
  <2> QED BY <1>1 DEF ChordFree
<1> QED BY <1>2, <1>3, <1>4, <1>5

\* A worker comes for the issue that has been chosen.
LEMMA StrictComes ==
  ASSUME ConstantsAssumption, TypeInv, SerialInv, NEW o \in Orchs, \A q \in Orchs : q = o,
         pc[o] \in {"trigger", "prompt"}, pc'[o] = "dispatch", UNCHANGED <<pr, issueOpen, snap>>,
         NEW c \in Issues, c = cur[o],
         bureau'[o] = (bureau[o] \/ PresetOf(c) = "Bureaucratic"),
         \A i \in Issues \ {c} : AtWork(i)' => AtWork(i)
  PROVE  SerialInv'
<1> USE DEF SerialInv
<1>1. \A i : PrSeen(i)' <=> PrSeen(i) BY DEF PrSeen
<1>2. \A i \in Issues \ {c} : Strict(i)' => Strict(i) BY <1>1 DEF Strict
<1>3. Strict(c)' => PresetOf(c) = "Bureaucratic" BY DEF Strict
<1>4. c \notin HumanIssues /\ (PresetOf(c) = "Bureaucratic" => \A i \in Issues : ~Strict(i))
  BY DEF ChordFree
<1>5. BureaucraticAlone'
  <2>1. \A i, j \in Issues : i # j /\ Strict(i) /\ Strict(j) => FALSE
    BY DEF BureaucraticAlone, Strict
  <2>2. \A i, j \in Issues : i # j /\ Strict(i)' /\ Strict(j)' => FALSE
    BY <2>1, <1>2, <1>3, <1>4
  <2> QED BY <2>2 DEF BureaucraticAlone, Strict
<1>6. AgentsOnly' BY <1>4, ConstantsAssumption DEF AgentsOnly
<1>7. ClosedForCause' BY <1>1 DEF ClosedForCause
<1>8. ChordSeen(o)'
  <2> SUFFICES ASSUME NEW i \in Issues, Strict(i)'
               PROVE  i \in snap[o].label \/ bureau'[o]
    BY DEF ChordSeen, Dispatching
  <2> QED BY <1>2, <1>3 DEF ChordSeen, Reading, Surveyed, Dispatching
<1>9. ChordFree(o)' BY DEF ChordFree
<1> QED BY <1>5, <1>6, <1>7, <1>8, <1>9

\* Pull requests that have been opened stay known.
LEMMA PrsStay ==
  ASSUME TypeInv, [Next]_vars
  PROVE  \A p : pr[p] # "none" => pr'[p] # "none"
<1> USE DEF github
<1>0. GithubOK BY DEF TypeInv, TypeOK
<1>1. ASSUME NEW p, NEW s \in {"open", "closed", "merged"}, pr' = [pr EXCEPT ![p] = s]
      PROVE  \A q : pr[q] # "none" => pr'[q] # "none"
  BY <1>0, <1>1 DEF GithubOK
<1>2. ASSUME NEW o \in Orchs, Process(o) \/ SoftChordExpires(o) \/ Crash(o)
      PROVE  UNCHANGED pr \/ \E p : pr' = [pr EXCEPT ![p] = "merged"]
  <2>1. CASE Start(o) \/ SoftChordExpires(o) \/ Crash(o) \/ Survey(o)
    BY <2>1 DEF Start, SoftChordExpires, Crash, Survey, ReadClosedPrs, ReadOpenIssues,
       ReadClosedIssues, ReadOpenPrs, SurveyFails, ClearLabel, ClearDone, RunLocalCi,
       ReadComments, ReadSessions
  <2>2. CASE Act(o)
    BY <2>2 DEF Act, MergePr, MergeSkipped, MergeDone, OpenQaSession, QaSkipped, PromptQa, QaDone,
       PassOver, HoldBack, Defer, Cleared, Choose, ClaimIssue, PostTrigger, OpenSession, SendPrompt,
       RollBack, EndPass
  <2> QED BY <1>2, <2>1, <2>2 DEF Process
<1>3. ASSUME Environment
      PROVE  UNCHANGED pr \/ \E p, s : s \in {"open", "closed"} /\ pr' = [pr EXCEPT ![p] = s]
  BY <1>3 DEF Environment, AgentOpensPr, HumanOpensPr, ClosePr, CiReports, AgentGivesUp, CloseIssue,
     ClaimScope, AgentSessionEnds, QaSessionEnds
<1>4. CASE UNCHANGED vars BY <1>4 DEF vars
<1> QED BY <1>1, <1>2, <1>3, <1>4 DEF Next

\* A change to sessions without work.
LEMMA IdleSessionMoves ==
  ASSUME UNCHANGED web,
         \A n \in AgentSlots : agent'[n] = agent[n] \/ (agent[n] \notin Issues /\ agent'[n] \notin Issues)
  PROVE  \A i \in Issues : AtWork(i)' <=> AtWork(i)
BY DEF AtWork

\* Only a trigger and a prompt bring a worker.
LEMMA NobodyComes ==
  ASSUME ConstantsAssumption, TypeInv, OwnSession, [Next]_vars,
         \A o \in Orchs : ~PostTrigger(o) /\ ~SendPrompt(o)
  PROVE  \A i \in Issues : AtWork(i)' => AtWork(i)
<1> DEFINE Goal == \A i \in Issues : AtWork(i)' => AtWork(i)
<1>0. WorkersOK BY DEF TypeInv, TypeOK
<1>1. ASSUME UNCHANGED <<web, agent>> PROVE Goal BY <1>1 DEF AtWork
<1>2. ASSUME NEW o \in Orchs, OpenSession(o) \/ Crash(o) PROVE Goal
  <2>1. UNCHANGED web BY <1>2 DEF OpenSession, Crash
  <2>2. \A n \in AgentSlots : agent'[n] = agent[n] \/ (agent[n] \notin Issues /\ agent'[n] \notin Issues)
    <3>1. CASE OpenSession(o)
      BY <3>1, <1>0, ConstantsAssumption DEF OpenSession, WorkersOK, TypeInv, Focused
    <3>2. CASE Crash(o) BY <3>2, ConstantsAssumption DEF Crash, OwnSession
    <3> QED BY <1>2, <3>1, <3>2
  <2> QED BY <2>1, <2>2, IdleSessionMoves
<1>3. ASSUME NEW n \in AgentSlots, AgentSessionEnds(n) PROVE Goal
  <2>1. \A m \in AgentSlots : agent'[m] = agent[m] \/ (agent[m] \notin Issues /\ agent'[m] \notin Issues)
    BY <1>3, <1>0, ConstantsAssumption DEF AgentSessionEnds, WorkersOK
  <2> QED BY <1>3, <2>1, IdleSessionMoves DEF AgentSessionEnds
<1>4. ASSUME NEW j \in Issues, WorkerLeaves(j) PROVE Goal
  BY <1>0, <1>4, WorkerLeavesWanes
<1>5. ASSUME NEW o \in Orchs, Process(o) \/ SoftChordExpires(o) PROVE Goal
  <2>1. UNCHANGED <<web, agent>> \/ OpenSession(o)
    <3>1. CASE Start(o) \/ SoftChordExpires(o) \/ Survey(o)
      BY <3>1 DEF Start, SoftChordExpires, Survey, ReadClosedPrs, ReadOpenIssues, ReadClosedIssues,
         ReadOpenPrs, SurveyFails, ClearLabel, ClearDone, RunLocalCi, ReadComments, ReadSessions, tmux
    <3>2. CASE Act(o)
      BY <3>2 DEF Act, MergePr, MergeSkipped, MergeDone, OpenQaSession, QaSkipped, PromptQa, QaDone,
         PassOver, HoldBack, Defer, Cleared, Choose, ClaimIssue, RollBack, EndPass, tmux
    <3> QED BY <1>5, <3>1, <3>2 DEF Process
  <2> QED BY <2>1, <1>1, <1>2
<1>6. CASE Environment
  <2>1. \/ \E p \in PRs : AgentOpensPr(p)
        \/ \E i \in Issues : AgentGivesUp(i)
        \/ \E n \in AgentSlots : AgentSessionEnds(n)
        \/ UNCHANGED <<web, agent>>
    BY <1>6 DEF Environment, HumanOpensPr, ClosePr, CiReports, CloseIssue, ClaimScope, QaSessionEnds, tmux
  <2>2. ASSUME NEW p \in PRs, AgentOpensPr(p) PROVE Goal
    BY <2>2, <1>4, ConstantsAssumption DEF AgentOpensPr
  <2>3. ASSUME NEW i \in Issues, AgentGivesUp(i) PROVE Goal BY <2>3, <1>4 DEF AgentGivesUp
  <2> QED BY <2>1, <2>2, <2>3, <1>1, <1>3
<1>7. CASE UNCHANGED vars BY <1>7, <1>1 DEF vars, tmux
<1> QED BY <1>2, <1>5, <1>6, <1>7 DEF Next

\* An issue is closed by the merge of a pull request of its own, or is a
\* person's.
LEMMA CausesStay ==
  ASSUME ConstantsAssumption, Serial, TypeInv, OnceInv, ClosedForCause, [Next]_vars
  PROVE  ClosedForCause'
<1> USE DEF ClosedForCause
<1>1. \A i : PrSeen(i) => PrSeen(i)' BY PrsStay DEF PrSeen
<1>2. ASSUME UNCHANGED issueOpen PROVE ClosedForCause' BY <1>1, <1>2
<1>3. ASSUME NEW o \in Orchs, MergePr(o) PROVE ClosedForCause'
  <2>1. PICK i \in todo[o] : /\ pr' = [pr EXCEPT ![LinkedPr(snap[o], i)] = "merged"]
                             /\ issueOpen' \in {issueOpen, issueOpen \ {i}}
    BY <1>3 DEF MergePr
  <2>2. i \in Issues /\ LinkedPrs(snap[o], i) # {} BY <1>3 DEF MergePr, OnceInv, ListsSound
  <2>3. LinkedPr(snap[o], i) \in LinkedPrs(snap[o], i) /\ LinkedPrs(snap[o], i) \subseteq PRs
    BY <2>2, LinkedPrIsLinked DEF Serial, TypeInv, TypeOK, Snapshot, LinkedPrs
  <2>4. pr \in [PRs -> {"none", "open", "closed", "merged"}] BY DEF TypeInv, TypeOK, GithubOK
  <2>5. PrSeen(i)' BY <2>1, <2>3, <2>4 DEF PrSeen, LinkedPrs
  <2> QED BY <1>1, <2>1, <2>5
<1>4. ASSUME NEW i \in Issues, CloseIssue(i) PROVE ClosedForCause'
  BY <1>1, <1>4 DEF CloseIssue, Serial, May
<1>5. ASSUME NEW o \in Orchs, Process(o) \/ SoftChordExpires(o) \/ Crash(o) PROVE ClosedForCause'
  <2>1. UNCHANGED issueOpen \/ MergePr(o)
    <3>1. CASE Start(o) \/ SoftChordExpires(o) \/ Survey(o) \/ Crash(o)
      BY <3>1 DEF Start, SoftChordExpires, Survey, ReadClosedPrs, ReadOpenIssues, ReadClosedIssues,
         ReadOpenPrs, SurveyFails, ClearLabel, ClearDone, RunLocalCi, ReadComments, ReadSessions, Crash,
         github
    <3>2. CASE Act(o)
      BY <3>2 DEF Act, MergeSkipped, MergeDone, OpenQaSession, QaSkipped, PromptQa, QaDone, PassOver,
         HoldBack, Defer, Cleared, Choose, ClaimIssue, PostTrigger, OpenSession, SendPrompt, RollBack,
         EndPass, github
    <3> QED BY <1>5, <3>1, <3>2 DEF Process
  <2> QED BY <2>1, <1>2, <1>3
<1>6. ASSUME Environment PROVE ClosedForCause'
  <2>1. UNCHANGED issueOpen \/ \E i \in Issues : CloseIssue(i)
    BY <1>6 DEF Environment, AgentOpensPr, HumanOpensPr, ClosePr, CiReports, AgentGivesUp, ClaimScope,
       AgentSessionEnds, QaSessionEnds, github
  <2> QED BY <2>1, <1>2, <1>4
<1>7. CASE UNCHANGED vars BY <1>2, <1>7 DEF vars, github
<1> QED BY <1>5, <1>6, <1>7 DEF Next

\* The steps of a process that neither read the issues, choose one nor bring a
\* worker.
LEMMA PassGoesOn ==
  ASSUME TypeInv, NEW o \in Orchs, Process(o) \/ SoftChordExpires(o) \/ Crash(o),
         ~ReadOpenIssues(o), ~Choose(o), ~PostTrigger(o), ~SendPrompt(o)
  PROVE  /\ \/ pc'[o] \notin Reading
            \/ /\ pc[o] \in Reading /\ snap'[o].label = snap[o].label /\ bureau'[o] = bureau[o]
               /\ pc[o] \in Dispatching => pc'[o] \in Dispatching
         /\ pc'[o] \in {"claim", "trigger", "session", "prompt"} =>
              pc[o] \in {"claim", "trigger", "session", "prompt"} /\ cur'[o] = cur[o]
<1> USE DEF TypeInv, TypeOK, ProcessOK, Goto, pass, Reading, Surveyed, Dispatching
<1>1. CASE Start(o) \/ SoftChordExpires(o) \/ Crash(o) \/ ReadClosedPrs(o) \/ SurveyFails(o)
             \/ EndPass(o)
  BY <1>1 DEF Start, SoftChordExpires, Crash, ReadClosedPrs, SurveyFails, EndPass, Exit, ForgetPass
<1>2. CASE ReadClosedIssues(o) \/ ReadOpenPrs(o)
  BY <1>2 DEF ReadClosedIssues, ReadOpenPrs, Snapshot
<1>3. CASE ClearLabel(o) \/ ClearDone(o) \/ RunLocalCi(o)
  BY <1>3 DEF ClearLabel, ClearDone, RunLocalCi, Snapshot
<1>4. CASE ReadComments(o)
  <2>1. PICK read : snap' = [snap EXCEPT ![o].triggered = read] BY <1>4 DEF ReadComments
  <2>2. snap'[o].label = snap[o].label BY <2>1 DEF Snapshot
  <2> QED BY <1>4, <2>2 DEF ReadComments
<1>5. CASE MergePr(o) \/ MergeSkipped(o) \/ MergeDone(o) \/ OpenQaSession(o)
  BY <1>5 DEF MergePr, MergeSkipped, MergeDone, OpenQaSession
<1>6. CASE QaSkipped(o) \/ PromptQa(o) \/ QaDone(o)
  BY <1>6 DEF QaSkipped, PromptQa, QaDone
<1>7. CASE PassOver(o) \/ HoldBack(o) \/ Defer(o)
  BY <1>7 DEF PassOver, HoldBack, Defer, Cleared, Considered
<1>8. CASE ClaimIssue(o) BY <1>8 DEF ClaimIssue
<1>9. CASE ReadSessions(o) BY <1>9 DEF ReadSessions
<1>10. CASE OpenSession(o) \/ RollBack(o) BY <1>10 DEF OpenSession, RollBack
<1> QED BY <1>1, <1>2, <1>3, <1>4, <1>5, <1>6, <1>7, <1>8, <1>9, <1>10 DEF Process, Survey, Act

LEMMA NextSerialInv ==
  ASSUME ConstantsAssumption, Serial, TypeInv, OwnSession, OnceInv, SerialInv, [Next]_vars
  PROVE  SerialInv'
<1>1. ClosedForCause' BY CausesStay DEF SerialInv
<1>2. \A i : PrSeen(i) => PrSeen(i)' BY PrsStay DEF PrSeen
<1>3. HumanIssues \subseteq Issues /\ \A o, q \in Orchs : o = q
  BY ConstantsAssumption DEF Serial, Single
<1>4. ASSUME NEW o \in Orchs, Process(o) \/ SoftChordExpires(o) \/ Crash(o),
             ~PostTrigger(o), ~SendPrompt(o)
      PROVE  SerialInv'
  <2>1. \A i \in Issues : AtWork(i)' => AtWork(i) BY <1>3, <1>4, NobodyComes
  <2>2. CASE ReadOpenIssues(o)
    <3>1. /\ pc'[o] = "closedIssues" /\ snap'[o].label = inFlight \cap issueOpen
      BY <2>2 DEF ReadOpenIssues, Goto, TypeInv, TypeOK, ProcessOK, Snapshot
    <3>2. UNCHANGED <<web, agent, pr>> BY <2>2 DEF ReadOpenIssues, tmux, github
    <3>3. \A i \in Issues : Strict(i) => i \in inFlight \cap issueOpen
      BY DEF Strict, SerialInv, ClosedForCause, AgentsOnly, OnceInv, WorkersCounted, Excused,
         PrSettled, PrSeen
    <3>4. \A i : AtWork(i)' = AtWork(i) /\ PrSeen(i)' = PrSeen(i) BY <3>2 DEF AtWork, PrSeen
    <3>5. ChordSeen(o)' /\ ChordFree(o)'
      BY <3>1, <3>3, <3>4 DEF ChordSeen, ChordFree, Strict
    <3>6. BureaucraticAlone' /\ AgentsOnly' BY <3>4 DEF SerialInv, BureaucraticAlone, AgentsOnly
    <3> QED BY <1>1, <1>3, <3>5, <3>6 DEF SerialInv
  <2>3. CASE Choose(o)
    <3>1. PICK i \in Issues : /\ Cleared(o, i) /\ ~ChordHeld(o, i)
                              /\ cur' = [cur EXCEPT ![o] = i]
      BY <2>3 DEF Choose
    <3>2. /\ pc[o] = "dispatch" /\ pc'[o] = "claim" /\ cur'[o] = i /\ UNCHANGED <<snap, bureau>>
          /\ UNCHANGED <<web, agent, pr>> /\ i \notin HumanIssues
      BY <2>3, <3>1 DEF Choose, Cleared, Considered, Bucket, Goto, TypeInv, TypeOK, ProcessOK, tmux
    <3>3. PresetOf(i) = "Bureaucratic" => \A j \in Issues : ~Strict(j)
      BY <3>1, <3>2 DEF ChordHeld, SerialInv, ChordSeen, Reading, Surveyed, Dispatching
    <3>4. \A j : AtWork(j)' = AtWork(j) /\ PrSeen(j)' = PrSeen(j) BY <3>2 DEF AtWork, PrSeen
    <3>5. \A j : Strict(j)' = Strict(j) BY <3>4 DEF Strict
    <3>6. ChordFree(o)' BY <3>2, <3>3, <3>5 DEF ChordFree, PresetOf
    <3>7. ChordSeen(o)'
      BY <3>2, <3>5 DEF SerialInv, ChordSeen, Reading, Surveyed, Dispatching
    <3>8. BureaucraticAlone' /\ AgentsOnly' BY <3>4 DEF SerialInv, BureaucraticAlone, AgentsOnly
    <3> QED BY <1>1, <1>3, <3>6, <3>7, <3>8 DEF SerialInv
  <2> QED BY <1>1, <1>2, <1>3, <1>4, <2>1, <2>2, <2>3, PassGoesOn, SerialMoves
<1>5. ASSUME NEW o \in Orchs, PostTrigger(o) PROVE SerialInv'
  <2>1. /\ pc[o] = "trigger" /\ UNCHANGED <<agent, pr, issueOpen, snap, inFlight>>
        /\ cur[o] \in Issues
    BY <1>5 DEF PostTrigger, tmux, TypeInv, Focused
  <2>2. PICK c \in Issues : c = cur[o] BY <2>1
  <2>3. CASE pc'[o] = "rollback" /\ UNCHANGED <<web, bureau>>
    <3>1. \A i : AtWork(i)' = AtWork(i) BY <2>1, <2>3 DEF AtWork
    <3> QED BY <1>1, <1>2, <1>3, <2>1, <2>3, <3>1, SerialMoves DEF Reading, Surveyed, Dispatching
  <2>4. CASE /\ web' = [web EXCEPT ![c] = IF @ < MaxRuns THEN @ + 1 ELSE @]
             /\ pc'[o] = "dispatch" /\ bureau'[o] = (bureau[o] \/ PresetOf(c) = "Bureaucratic")
    <3>1. \A i \in Issues \ {c} : web'[i] = web[i] BY <2>4 DEF TypeInv, TypeOK, WorkersOK
    <3>2. \A i \in Issues \ {c} : AtWork(i)' => AtWork(i) BY <2>1, <3>1 DEF AtWork
    <3> QED BY <1>3, <2>1, <2>2, <2>4, <3>2, StrictComes
  <2>5. \A r \in Outcomes : ReportedOk(r) = TookEffect(r)
    BY DEF Serial, Single, Outcomes, May, ReportedOk, TookEffect
  <2> QED
    BY <1>5, <2>2, <2>3, <2>4, <2>5
       DEF PostTrigger, Dispatched, RollBackNext, Goto, TypeInv, TypeOK, ProcessOK
<1>6. ASSUME NEW o \in Orchs, SendPrompt(o) PROVE SerialInv'
  <2>1. /\ pc[o] = "prompt" /\ UNCHANGED <<web, pr, issueOpen, snap, inFlight>>
        /\ cur[o] \in Issues /\ slot[o] \in AgentSlots /\ agent[slot[o]] = Fresh
    BY <1>6 DEF SendPrompt, github, TypeInv, Focused, OwnSession
  <2>2. PICK c \in Issues, n \in AgentSlots : c = cur[o] /\ n = slot[o] BY <2>1
  <2>3. WorkersOK BY DEF TypeInv, TypeOK
  <2>4. CASE pc'[o] = "rollback" /\ UNCHANGED bureau /\ agent' = [agent EXCEPT ![n] = Parked]
    <3>1. \A m \in AgentSlots : agent'[m] = agent[m] \/ (agent[m] \notin Issues /\ agent'[m] \notin Issues)
      BY <2>1, <2>2, <2>3, <2>4, ConstantsAssumption DEF WorkersOK
    <3>2. \A i \in Issues : AtWork(i)' => AtWork(i) BY <2>1, <3>1, IdleSessionMoves
    <3> QED BY <1>1, <1>2, <1>3, <2>1, <2>4, <3>2, SerialMoves DEF Reading, Surveyed, Dispatching
  <2>5. CASE /\ agent' = [agent EXCEPT ![n] = c]
             /\ pc'[o] = "dispatch" /\ bureau'[o] = (bureau[o] \/ PresetOf(c) = "Bureaucratic")
    <3>1. \A m \in AgentSlots : agent'[m] = agent[m] \/ agent'[m] = c
      BY <2>3, <2>5 DEF WorkersOK
    <3>2. \A i \in Issues \ {c} : AtWork(i)' => AtWork(i) BY <2>1, <3>1 DEF AtWork
    <3> QED BY <1>3, <2>1, <2>2, <2>5, <3>2, StrictComes
  <2> QED
    BY <1>6, <2>2, <2>4, <2>5
       DEF SendPrompt, Dispatched, RollBackNext, Goto, TypeInv, TypeOK, ProcessOK
<1>7. ASSUME Environment \/ UNCHANGED vars PROVE SerialInv'
  <2>1. UNCHANGED <<pc, snap, bureau, cur>>
    BY <1>7 DEF Environment, AgentOpensPr, HumanOpensPr, ClosePr, CiReports, AgentGivesUp, CloseIssue,
       ClaimScope, AgentSessionEnds, QaSessionEnds, proc, pass, vars
  <2>2. ASSUME NEW o \in Orchs PROVE SerialInv'
    <3>1. CASE \E q \in Orchs : PostTrigger(q) \/ SendPrompt(q) BY <3>1, <1>5, <1>6
    <3>2. CASE \A q \in Orchs : ~PostTrigger(q) /\ ~SendPrompt(q)
      BY <1>1, <1>2, <1>3, <2>1, <3>2, NobodyComes, SerialMoves
    <3> QED BY <3>1, <3>2
  <2>3. CASE Orchs = {}
    <3>1. \A i \in Issues : (AtWork(i)' => AtWork(i)) /\ (PrSeen(i) => PrSeen(i)')
      BY <1>2, <2>3, NobodyComes
    <3> QED BY <1>1, <1>3, <2>3, <3>1 DEF SerialInv, BureaucraticAlone, AgentsOnly
  <2> QED BY <2>2, <2>3
<1> QED BY <1>4, <1>5, <1>6, <1>7 DEF Next

\* A process alone never has two Bureaucratic issues at work at once
\* (orchestrator.rs:353-361) before a pull request of one is out, when nobody
\* closes issues behind its back.
THEOREM StrictOneByOne == ASSUME Serial PROVE Spec => []BureaucraticAlone
<1>1. Init => SerialInv
  <2>1. ASSUME Init
        PROVE  /\ \A i \in Issues : ~AtWork(i)
               /\ \A o \in Orchs : pc[o] = "down"
               /\ issueOpen = Issues
    BY <2>1, ConstantsAssumption DEF Init, AtWork
  <2> QED BY <2>1, ConstantsAssumption DEF SerialInv, BureaucraticAlone, ClosedForCause, AgentsOnly,
       ChordSeen, ChordFree, Reading, Surveyed, Dispatching
<1>2. /\ TypeInv /\ OwnSession /\ OnceInv /\ SerialInv /\ [Next]_vars
      => SerialInv'
  BY NextSerialInv, ConstantsAssumption
<1>3. Spec => [](TypeInv /\ OwnSession /\ OnceInv) BY SingleInv DEF Serial
<1>4. SerialInv => BureaucraticAlone BY DEF SerialInv
<1> QED BY <1>1, <1>2, <1>3, <1>4, PTL DEF Spec

-----------------------------------------------------------------------------
(* The work ledger.  When pull requests are only closed by merges that close *)
(* their issue, nobody is excused, and the load of an issue is 1 or 0.       *)

LoadIsWork == Load = [i \in Issues |-> IF AtWork(i) THEN 1 ELSE 0]

LEMMA SoleLoad ==
  ASSUME ConstantsAssumption, TypeInv, Closing, OnceInv
  PROVE  LoadIsWork
<1> SUFFICES ASSUME NEW i \in Issues
             PROVE  web[i] + Cardinality({n \in AgentSlots : agent[n] = i})
                      = IF AtWork(i) THEN 1 ELSE 0
  BY DEF Load, LoadIsWork
<1> DEFINE mine == {n \in AgentSlots : agent[n] = i}
<1>1. SoleWorker(i) /\ web[i] \in 0..MaxRuns
  BY DEF OnceInv, WorkersCounted, Excused, TypeInv, TypeOK, WorkersOK
<1>2. CASE mine = {}
  <2>1. AtWork(i) <=> web[i] > 0 BY <1>2 DEF AtWork
  <2>2. web[i] \in {0, 1} /\ Cardinality(mine) = 0
    BY <1>1, <1>2, FS_EmptySet DEF SoleWorker, MaxRuns
  <2> QED BY <2>1, <2>2
<1>3. CASE mine # {}
  <2>1. PICK n \in AgentSlots : agent[n] = i BY <1>3
  <2>2. mine = {n} BY <1>1, <2>1 DEF SoleWorker
  <2>3. web[i] = 0 /\ AtWork(i) BY <1>1, <2>1 DEF SoleWorker, AtWork
  <2>4. Cardinality(mine) = 1 BY <2>2, FS_Singleton
  <2> QED BY <2>3, <2>4
<1> QED BY <1>2, <1>3

\* A step that moves one issue's work, and begins it only when nothing is open
\* that the issue depends on, is a step of the ledger.
LEMMA WorkMoves ==
  ASSUME ConstantsAssumption, LoadIsWork, LoadIsWork', DependenciesDone', NEW c \in Issues,
         UNCHANGED issueOpen, \A i \in Issues \ {c} : AtWork(i)' <=> AtWork(i)
  PROVE  [Ledger!Next]_<<Issues \ issueOpen, Load>>
<1>1. Load' = [i \in Issues |-> IF AtWork(i)' THEN 1 ELSE 0] BY DEF LoadIsWork
<1>2. \A i \in Issues : Load[i] = IF AtWork(i) THEN 1 ELSE 0 BY DEF LoadIsWork
<1>3. CASE AtWork(c)' <=> AtWork(c)
  <2>1. Load' = Load BY <1>1, <1>3 DEF LoadIsWork
  <2> QED BY <2>1
<1>4. CASE AtWork(c)' /\ ~AtWork(c)
  <2>1. Load' = [Load EXCEPT ![c] = 1] /\ Load[c] = 0 BY <1>1, <1>2, <1>4 DEF LoadIsWork
  <2>2. Deps[c] \subseteq Issues \ issueOpen
    BY <1>4, ConstantsAssumption DEF DependenciesDone
  <2> QED BY <2>1, <2>2 DEF Ledger!Next, Ledger!Assign
<1>5. CASE ~AtWork(c)' /\ AtWork(c)
  <2>1. Load' = [Load EXCEPT ![c] = 0] /\ Load[c] = 1 BY <1>1, <1>2, <1>5 DEF LoadIsWork
  <2> QED BY <2>1 DEF Ledger!Next, Ledger!Finish
<1> QED BY <1>3, <1>4, <1>5

\* A step that closes at most one issue is a step of the ledger.
LEMMA IssueCloses ==
  ASSUME UNCHANGED <<web, agent>>, NEW c \in issueOpen, issueOpen \subseteq Issues,
         issueOpen' \in {issueOpen, issueOpen \ {c}}
  PROVE  [Ledger!Next]_<<Issues \ issueOpen, Load>>
<1>1. Load' = Load BY DEF Load
<1>2. CASE issueOpen' = issueOpen BY <1>1, <1>2
<1>3. CASE issueOpen' = issueOpen \ {c}
  <2>1. Issues \ issueOpen' = (Issues \ issueOpen) \cup {c} BY <1>3
  <2> QED BY <1>1, <2>1 DEF Ledger!Next, Ledger!Close
<1> QED BY <1>2, <1>3

\* A step in which no work and no issue moves.
LEMMA NothingMoves ==
  ASSUME LoadIsWork, LoadIsWork', UNCHANGED issueOpen, \A i \in Issues : AtWork(i)' <=> AtWork(i)
  PROVE  [Ledger!Next]_<<Issues \ issueOpen, Load>>
<1>1. Load' = Load BY DEF LoadIsWork
<1> QED BY <1>1

LEMMA LeavingMovesWork ==
  ASSUME ConstantsAssumption, TypeInv, NEW j \in Issues, WorkerLeaves(j)
  PROVE  \A i \in Issues \ {j} : AtWork(i)' <=> AtWork(i)
<1>1. WorkersOK BY DEF TypeInv, TypeOK
<1>2. CASE web' = [web EXCEPT ![j] = @ - 1] /\ UNCHANGED agent
  <2>1. \A i \in Issues \ {j} : web'[i] = web[i] BY <1>1, <1>2 DEF WorkersOK
  <2> QED BY <1>2, <2>1 DEF AtWork
<1>3. CASE \E n \in AgentSlots : agent[n] = j /\ agent' = [agent EXCEPT ![n] = Parked] /\ UNCHANGED web
  <2>1. PICK n \in AgentSlots : agent[n] = j /\ agent' = [agent EXCEPT ![n] = Parked] /\ UNCHANGED web
    BY <1>3
  <2>2. /\ agent[n] = j /\ agent'[n] = Parked /\ UNCHANGED web /\ Parked \notin Issues
        /\ \A m \in AgentSlots \ {n} : agent'[m] = agent[m]
    BY <1>1, <2>1, ConstantsAssumption DEF WorkersOK
  <2> QED BY <2>2 DEF AtWork
<1> QED BY <1>2, <1>3 DEF WorkerLeaves

LEMMA StepsImplementLedger ==
  ASSUME ConstantsAssumption, TypeInv, OwnSession, LoadIsWork, LoadIsWork', DependenciesDone',
         [Next]_vars
  PROVE  [Ledger!Next]_<<Issues \ issueOpen, Load>>
<1> DEFINE Goal == [Ledger!Next]_<<Issues \ issueOpen, Load>>
<1>0. GithubOK /\ WorkersOK BY DEF TypeInv, TypeOK
<1>1. ASSUME UNCHANGED <<issueOpen, web, agent>> PROVE Goal
  <2>1. \A i \in Issues : AtWork(i)' <=> AtWork(i) BY <1>1 DEF AtWork
  <2> QED BY <1>1, <2>1, NothingMoves
<1>2. ASSUME NEW o \in Orchs, PostTrigger(o) PROVE Goal
  <2>1. UNCHANGED <<agent, issueOpen>> /\ cur[o] \in Issues
    BY <1>2 DEF PostTrigger, tmux, TypeInv, Focused
  <2>2. PICK c \in Issues : c = cur[o] BY <2>1
  <2>3. \A i \in Issues \ {c} : web'[i] = web[i] BY <1>0, <1>2, <2>2 DEF PostTrigger, WorkersOK
  <2>4. \A i \in Issues \ {c} : AtWork(i)' <=> AtWork(i) BY <2>1, <2>3 DEF AtWork
  <2> QED BY <2>1, <2>2, <2>4, WorkMoves
<1>3. ASSUME NEW o \in Orchs, SendPrompt(o) PROVE Goal
  <2>1. /\ UNCHANGED <<web, issueOpen>> /\ cur[o] \in Issues
        /\ slot[o] \in AgentSlots /\ agent[slot[o]] = Fresh
    BY <1>3 DEF SendPrompt, github, TypeInv, Focused, OwnSession
  <2>2. PICK c \in Issues, n \in AgentSlots : c = cur[o] /\ n = slot[o] BY <2>1
  <2>3. agent' \in {[agent EXCEPT ![n] = c], [agent EXCEPT ![n] = Parked]}
    BY <1>3, <2>2 DEF SendPrompt
  <2>4. /\ agent[n] \notin Issues /\ agent'[n] \in {c, Parked} /\ Parked \notin Issues
        /\ \A m \in AgentSlots \ {n} : agent'[m] = agent[m]
    BY <1>0, <2>1, <2>2, <2>3, ConstantsAssumption DEF WorkersOK
  <2>5. \A i \in Issues \ {c} : AtWork(i)' <=> AtWork(i) BY <2>1, <2>4 DEF AtWork
  <2> QED BY <2>1, <2>5, WorkMoves
<1>4. ASSUME NEW o \in Orchs, OpenSession(o) \/ Crash(o) PROVE Goal
  <2>1. UNCHANGED <<web, issueOpen>> BY <1>4 DEF OpenSession, Crash, github
  <2>2. \A n \in AgentSlots : agent'[n] = agent[n] \/ (agent[n] \notin Issues /\ agent'[n] \notin Issues)
    <3>1. CASE OpenSession(o)
      BY <3>1, <1>0, ConstantsAssumption DEF OpenSession, WorkersOK, TypeInv, Focused
    <3>2. CASE Crash(o) BY <3>2, ConstantsAssumption DEF Crash, OwnSession
    <3> QED BY <1>4, <3>1, <3>2
  <2> QED BY <2>1, <2>2, IdleSessionMoves, NothingMoves
<1>5. ASSUME NEW n \in AgentSlots, AgentSessionEnds(n) PROVE Goal
  <2>1. UNCHANGED <<web, issueOpen>> BY <1>5 DEF AgentSessionEnds, github
  <2>2. \A m \in AgentSlots : agent'[m] = agent[m] \/ (agent[m] \notin Issues /\ agent'[m] \notin Issues)
    BY <1>5, <1>0, ConstantsAssumption DEF AgentSessionEnds, WorkersOK
  <2> QED BY <2>1, <2>2, IdleSessionMoves, NothingMoves
<1>6. ASSUME NEW j \in Issues, WorkerLeaves(j), UNCHANGED issueOpen PROVE Goal
  BY <1>6, LeavingMovesWork, WorkMoves
<1>7. ASSUME UNCHANGED <<web, agent>>, NEW i, issueOpen' \in {issueOpen, issueOpen \ {i}} PROVE Goal
  <2>1. CASE i \in issueOpen BY <1>0, <1>7, <2>1, IssueCloses DEF GithubOK
  <2>2. CASE i \notin issueOpen
    <3>1. issueOpen' = issueOpen BY <1>7, <2>2
    <3> QED BY <1>1, <1>7, <3>1
  <2> QED BY <2>1, <2>2
<1>8. ASSUME NEW o \in Orchs, MergePr(o) PROVE Goal
  <2>1. UNCHANGED <<web, agent>> /\ \E i : issueOpen' \in {issueOpen, issueOpen \ {i}}
    BY <1>8 DEF MergePr, tmux
  <2> QED BY <2>1, <1>7
<1>9. ASSUME NEW o \in Orchs, Process(o) \/ SoftChordExpires(o) PROVE Goal
  <2>1. \/ MergePr(o) \/ PostTrigger(o) \/ OpenSession(o) \/ SendPrompt(o)
        \/ UNCHANGED <<issueOpen, web, agent>>
    <3>1. CASE Start(o) \/ SoftChordExpires(o) \/ Survey(o)
      BY <3>1 DEF Start, SoftChordExpires, Survey, ReadClosedPrs, ReadOpenIssues, ReadClosedIssues,
         ReadOpenPrs, SurveyFails, ClearLabel, ClearDone, RunLocalCi, ReadComments, ReadSessions,
         github, tmux
    <3>2. CASE Act(o)
      BY <3>2 DEF Act, MergeSkipped, MergeDone, OpenQaSession, QaSkipped, PromptQa, QaDone, PassOver,
         HoldBack, Defer, Cleared, Choose, ClaimIssue, RollBack, EndPass, github, tmux
    <3> QED BY <1>9, <3>1, <3>2 DEF Process
  <2> QED BY <2>1, <1>1, <1>2, <1>3, <1>4, <1>8
<1>10. CASE Environment
  <2>1. ASSUME NEW p \in PRs, AgentOpensPr(p) PROVE Goal
    BY <2>1, <1>6, ConstantsAssumption DEF AgentOpensPr
  <2>2. ASSUME NEW i \in Issues, AgentGivesUp(i) PROVE Goal
    BY <2>2, <1>6 DEF AgentGivesUp, github
  <2>3. ASSUME NEW i \in Issues, CloseIssue(i) PROVE Goal
    BY <2>3, <1>7 DEF CloseIssue, tmux
  <2>4. \/ \E p \in PRs : AgentOpensPr(p)
        \/ \E i \in Issues : AgentGivesUp(i) \/ CloseIssue(i)
        \/ \E n \in AgentSlots : AgentSessionEnds(n)
        \/ UNCHANGED <<issueOpen, web, agent>>
    BY <1>10 DEF Environment, HumanOpensPr, ClosePr, CiReports, ClaimScope, QaSessionEnds, github, tmux
  <2> QED BY <2>1, <2>2, <2>3, <2>4, <1>1, <1>5
<1>11. CASE UNCHANGED vars BY <1>11, <1>1 DEF vars, github, tmux
<1> QED BY <1>4, <1>9, <1>10, <1>11 DEF Next

LEMMA InitLedger == ASSUME ConstantsAssumption, Init PROVE Ledger!Init
<1>1. \A i \in Issues : {n \in AgentSlots : agent[n] = i} = {} /\ web[i] = 0
  BY ConstantsAssumption DEF Init
<1>2. Load = [i \in Issues |-> 0]
  <2>1. Cardinality({}) = 0 BY FS_EmptySet
  <2>2. \A i \in Issues : web[i] + Cardinality({n \in AgentSlots : agent[n] = i}) = 0
    BY <1>1, <2>1
  <2> QED BY <2>2 DEF Load
<1>3. Issues \ issueOpen = {} BY DEF Init
<1> QED BY <1>2, <1>3 DEF Ledger!Init

\* A process alone, whose calls do not take effect behind its back, keeps the
\* ledger's promise in a repository where pull requests end in merges that
\* close their issue: issues are given out one worker at a time, and only when
\* everything they depend on is closed, whatever else fails or dies.
THEOREM WorkIsLedgered == ASSUME Single, Closing PROVE Spec => ImplementsLedger
<1>1. Init => Ledger!Init BY InitLedger, ConstantsAssumption
<1>2. TypeInv /\ OnceInv => LoadIsWork BY SoleLoad, ConstantsAssumption
<1>3. /\ TypeInv /\ OwnSession /\ LoadIsWork /\ LoadIsWork' /\ DependenciesDone' /\ [Next]_vars
      => [Ledger!Next]_<<Issues \ issueOpen, Load>>
  BY StepsImplementLedger, ConstantsAssumption
<1>4. Spec => [](TypeInv /\ OwnSession /\ OnceInv) BY SingleInv
<1> QED BY <1>1, <1>2, <1>3, <1>4, WorkIsUnblocked, PTL DEF Spec, ImplementsLedger, Ledger!Spec

-----------------------------------------------------------------------------
(* Local CI alone decides.  Where every pull request is run, the statuses of *)
(* a snapshot are verdicts, and only those of verdict Passing are merged.    *)

LocalDecides ==
  /\ CiMode = "Local" /\ HasLocalCi /\ (ForkPRs = {} \/ AllowFork)
  /\ "localCiError" \notin Hazards /\ Bounded

Judged(o) ==
  /\ pc[o] \in {"comments", "sessions", "merge"} =>
       \A p \in snap[o].prs : snap[o].ci[p] \in {"Passing", "Failing"}
  /\ pc[o] = "merge" =>
       \A i \in todo[o] : /\ i \in Issues /\ LinkedPrs(snap[o], i) # {}
                          /\ snap[o].ci[LinkedPr(snap[o], i)] # "Failing"

\* Other processes and the environment touch no process's verdicts.
LEMMA JudgedStays ==
  ASSUME NEW o \in Orchs, Judged(o), pc'[o] = pc[o], snap'[o] = snap[o], todo'[o] \subseteq todo[o]
  PROVE  Judged(o)'
BY DEF Judged, LinkedPrs, LinkedPr

LEMMA JudgedBegins ==
  ASSUME NEW o \in Orchs, snap' = snap,
         \A p \in snap[o].prs : snap[o].ci[p] \in {"Passing", "Failing"},
         \A i \in todo'[o] : /\ i \in Issues /\ LinkedPrs(snap[o], i) # {}
                             /\ snap[o].ci[LinkedPr(snap[o], i)] # "Failing"
  PROVE  Judged(o)'
BY DEF Judged, LinkedPrs, LinkedPr

LEMMA NextJudged ==
  ASSUME ConstantsAssumption, LocalDecides, TypeInv, [Next]_vars, \A o \in Orchs : Judged(o)
  PROVE  \A o \in Orchs : Judged(o)'
<1> USE DEF TypeInv, TypeOK, ProcessOK, Goto, pass
<1>1. ASSUME NEW o \in Orchs, Process(o) \/ SoftChordExpires(o) \/ Crash(o) PROVE Judged(o)'
  <2>1. CASE RunLocalCi(o)
    <3>1. PICK status \in [PRs -> CiStatuses] :
            /\ \A p \in PRs : status[p] \in CiAfterLocal(snap[o], p)
            /\ snap' = [snap EXCEPT ![o].ci = status]
      BY <2>1 DEF RunLocalCi
    <3>2. pc'[o] = "comments" BY <2>1 DEF RunLocalCi
    <3>3. snap'[o].prs = snap[o].prs /\ snap'[o].ci = status /\ snap[o].prs \subseteq PRs
      BY <3>1 DEF Snapshot
    <3>4. ASSUME NEW p \in snap[o].prs PROVE status[p] \in {"Passing", "Failing"}
      <4>1. /\ HasLocalCi /\ p \in PRs /\ (p \notin ForkPRs \/ AllowFork) /\ CiMode = "Local"
            /\ ~May("localCiError")
        BY <3>3, <3>4 DEF LocalDecides, May
      <4>2. CiAfterLocal(snap[o], p)
              = {ResolveCi(CiMode, local, snap[o].ci[p]) : local \in {"Passing", "Failing", "Unknown"}}
        BY <3>4, <4>1, Zenon DEF CiAfterLocal
      <4>3. PICK local \in {"Passing", "Failing", "Unknown"} :
              status[p] = ResolveCi(CiMode, local, snap[o].ci[p])
        <5>1. status[p] \in CiAfterLocal(snap[o], p) BY <3>1, <4>1
        <5>2. status[p] \in {ResolveCi(CiMode, local, snap[o].ci[p]) :
                               local \in {"Passing", "Failing", "Unknown"}}
          BY <4>2, <5>1, Zenon
        <5> HIDE DEF TypeInv, TypeOK, ProcessOK
        <5> QED BY <5>2
      <4> QED BY <4>1, <4>3 DEF ResolveCi
    <3> QED BY <3>2, <3>3, <3>4 DEF Judged
  <2>2. CASE ReadComments(o)
    <3>1. PICK read : snap' = [snap EXCEPT ![o].triggered = read] BY <2>2 DEF ReadComments
    <3>2. snap'[o].prs = snap[o].prs /\ snap'[o].ci = snap[o].ci BY <3>1 DEF Snapshot
    <3>3. pc[o] = "comments" /\ pc'[o] = "sessions" BY <2>2 DEF ReadComments
    <3> QED BY <3>2, <3>3 DEF Judged
  <2>3. CASE ReadSessions(o)
    <3>1. /\ pc[o] = "sessions" /\ pc'[o] = "merge" /\ snap' = snap
          /\ todo'[o] = {i \in snap[o].open : Bucket(snap[o], i) = "PrOpen"}
      BY <2>3 DEF ReadSessions
    <3>2. \A i \in todo'[o] : /\ i \in Issues /\ LinkedPrs(snap[o], i) # {}
                              /\ snap[o].ci[LinkedPr(snap[o], i)] # "Failing"
      BY <3>1 DEF Bucket, Snapshot
    <3>3. \A p \in snap[o].prs : snap[o].ci[p] \in {"Passing", "Failing"} BY <3>1 DEF Judged
    <3> QED BY <3>1, <3>2, <3>3, JudgedBegins
  <2>4. CASE MergePr(o) \/ MergeSkipped(o)
    <3>1. pc' = pc /\ snap' = snap /\ todo'[o] \subseteq todo[o] BY <2>4 DEF MergePr, MergeSkipped
    <3> QED BY <3>1, JudgedStays
  <2>5. CASE pc'[o] \notin {"comments", "sessions", "merge"} BY <2>5 DEF Judged
  <2>6. \/ RunLocalCi(o) \/ ReadComments(o) \/ ReadSessions(o) \/ MergePr(o) \/ MergeSkipped(o)
        \/ pc'[o] \notin {"comments", "sessions", "merge"}
    <3>1. CASE Start(o) \/ SoftChordExpires(o) \/ Crash(o) \/ EndPass(o) \/ SurveyFails(o)
      BY <3>1 DEF Start, SoftChordExpires, Crash, EndPass, SurveyFails, Exit, ForgetPass
    <3>2. CASE ReadClosedPrs(o) \/ ReadOpenIssues(o) \/ ReadClosedIssues(o) \/ ReadOpenPrs(o)
                 \/ ClearLabel(o) \/ ClearDone(o)
      BY <3>2 DEF ReadClosedPrs, ReadOpenIssues, ReadClosedIssues, ReadOpenPrs, ClearLabel, ClearDone
    <3>3. CASE MergeDone(o) \/ OpenQaSession(o) \/ QaSkipped(o) \/ PromptQa(o) \/ QaDone(o)
      BY <3>3 DEF MergeDone, OpenQaSession, QaSkipped, PromptQa, QaDone
    <3>5. CASE PassOver(o) \/ HoldBack(o) BY <3>5 DEF PassOver, HoldBack, Considered
    <3>6. CASE Defer(o) \/ Choose(o) BY <3>6 DEF Defer, Choose, Cleared, Considered
    <3>4. CASE ClaimIssue(o) \/ PostTrigger(o) \/ OpenSession(o) \/ SendPrompt(o) \/ RollBack(o)
      BY <3>4 DEF ClaimIssue, PostTrigger, OpenSession, SendPrompt, RollBack, Dispatched, RollBackNext
    <3> QED BY <1>1, <3>1, <3>2, <3>3, <3>4, <3>5, <3>6 DEF Process, Survey, Act
  <2> QED BY <2>1, <2>2, <2>3, <2>4, <2>5, <2>6
<1>2. ASSUME NEW o \in Orchs, Process(o) \/ SoftChordExpires(o) \/ Crash(o), NEW q \in Orchs \ {o}
      PROVE  pc'[q] = pc[q] /\ snap'[q] = snap[q] /\ todo'[q] = todo[q]
  <2>1. CASE Start(o) \/ SoftChordExpires(o) \/ Crash(o) \/ Survey(o)
    <3>1. CASE Start(o) \/ SoftChordExpires(o) \/ Crash(o) \/ SurveyFails(o)
      BY <1>2, <3>1 DEF Start, SoftChordExpires, Crash, SurveyFails, Exit, ForgetPass
    <3>2. CASE ReadClosedPrs(o) \/ ReadOpenIssues(o) \/ ReadClosedIssues(o)
      BY <1>2, <3>2 DEF ReadClosedPrs, ReadOpenIssues, ReadClosedIssues
    <3>3. CASE ReadOpenPrs(o) \/ ClearLabel(o) \/ ClearDone(o)
      BY <1>2, <3>3 DEF ReadOpenPrs, ClearLabel, ClearDone
    <3>4. CASE RunLocalCi(o) \/ ReadComments(o) \/ ReadSessions(o)
      BY <1>2, <3>4 DEF RunLocalCi, ReadComments, ReadSessions
    <3> QED BY <2>1, <3>1, <3>2, <3>3, <3>4 DEF Survey
  <2>2. CASE \/ MergePr(o) \/ MergeSkipped(o) \/ MergeDone(o) \/ OpenQaSession(o) \/ QaSkipped(o)
             \/ PromptQa(o) \/ QaDone(o) \/ PassOver(o)
    BY <1>2, <2>2 DEF MergePr, MergeSkipped, MergeDone, OpenQaSession, QaSkipped, PromptQa, QaDone,
       PassOver
  <2>3. CASE HoldBack(o) \/ Defer(o) \/ Choose(o) \/ ClaimIssue(o) \/ PostTrigger(o) \/ OpenSession(o)
    BY <1>2, <2>3 DEF HoldBack, Defer, Cleared, Choose, ClaimIssue, PostTrigger, OpenSession,
       Dispatched, RollBackNext
  <2>4. CASE SendPrompt(o) \/ RollBack(o) \/ EndPass(o)
    BY <1>2, <2>4 DEF SendPrompt, RollBack, EndPass, Dispatched, RollBackNext, Exit, ForgetPass
  <2> QED BY <1>2, <2>1, <2>2, <2>3, <2>4 DEF Process, Act
<1>3. CASE Environment \/ UNCHANGED vars
  <2>1. UNCHANGED <<pc, snap, todo>>
    BY <1>3 DEF Environment, AgentOpensPr, HumanOpensPr, ClosePr, CiReports, AgentGivesUp, CloseIssue,
       ClaimScope, AgentSessionEnds, QaSessionEnds, proc, vars
  <2> QED BY <2>1, JudgedStays
<1>4. ASSUME NEW o \in Orchs, Process(o) \/ SoftChordExpires(o) \/ Crash(o)
      PROVE  \A q \in Orchs : Judged(q)'
  BY <1>1, <1>2, <1>4, JudgedStays
<1> QED BY <1>3, <1>4 DEF Next

\* Where local CI decides alone and runs on every pull request, nothing is
\* merged but what a local run passed (orchestrator.rs, resolve_ci and merge),
\* for any number of processes at once.
THEOREM MergesAreLocal == ASSUME LocalDecides PROVE Spec => LocalModeMergesPassing
<1>1. Init => \A o \in Orchs : Judged(o)
  <2>1. ASSUME Init PROVE \A o \in Orchs : pc[o] = "down" BY <2>1 DEF Init
  <2> QED BY <2>1 DEF Judged
<1>2. /\ TypeInv /\ (\A o \in Orchs : Judged(o)) /\ [Next]_vars
      => (\A o \in Orchs : Judged(o))'
  BY NextJudged, ConstantsAssumption
<1> DEFINE Allowed ==
      \A p \in PRs : pr[p] = "open" /\ pr'[p] = "merged" =>
        \E o \in Orchs : pc[o] = "merge" /\ snap[o].ci[p] = "Passing"
<1>3. TypeInv /\ (\A o \in Orchs : Judged(o)) /\ [Next]_vars => [Allowed]_pr
  <2> SUFFICES ASSUME TypeInv, \A o \in Orchs : Judged(o), [Next]_vars, NEW p \in PRs,
                      pr[p] = "open", pr'[p] = "merged"
               PROVE  \E o \in Orchs : pc[o] = "merge" /\ snap[o].ci[p] = "Passing"
    OBVIOUS
  <2>0. pr \in [PRs -> {"none", "open", "closed", "merged"}] BY DEF TypeInv, TypeOK, GithubOK
  <2>1. ASSUME NEW o \in Orchs, MergePr(o)
        PROVE  pc[o] = "merge" /\ snap[o].ci[p] = "Passing"
    <3>1. PICK i \in todo[o] : pr' = [pr EXCEPT ![LinkedPr(snap[o], i)] = "merged"]
      BY <2>1 DEF MergePr
    <3>2. p = LinkedPr(snap[o], i) BY <2>0, <3>1
    <3>3. pc[o] = "merge" BY <2>1 DEF MergePr
    <3>4. LinkedPrs(snap[o], i) # {} /\ snap[o].ci[p] # "Failing" BY <3>2, <3>3 DEF Judged
    <3>5. p \in LinkedPrs(snap[o], i)
      BY <3>2, <3>4, LinkedPrIsLinked, ConstantsAssumption DEF LocalDecides, TypeInv, TypeOK
    <3>6. p \in snap[o].prs BY <3>5 DEF LinkedPrs
    <3> QED BY <3>3, <3>4, <3>6 DEF Judged
  <2>2. UNCHANGED pr \/ (\E o \in Orchs : MergePr(o))
          \/ (\E q, s : s \in {"open", "closed"} /\ pr' = [pr EXCEPT ![q] = s])
    <3>1. ASSUME NEW o \in Orchs, Process(o) \/ SoftChordExpires(o) \/ Crash(o)
          PROVE  UNCHANGED pr \/ MergePr(o)
      <4>1. CASE Start(o) \/ SoftChordExpires(o) \/ Crash(o) \/ Survey(o)
        BY <4>1 DEF Start, SoftChordExpires, Crash, Survey, ReadClosedPrs, ReadOpenIssues,
           ReadClosedIssues, ReadOpenPrs, SurveyFails, ClearLabel, ClearDone, RunLocalCi,
           ReadComments, ReadSessions, github
      <4>2. CASE Act(o)
        BY <4>2 DEF Act, MergeSkipped, MergeDone, OpenQaSession, QaSkipped, PromptQa, QaDone,
           PassOver, HoldBack, Defer, Cleared, Choose, ClaimIssue, PostTrigger, OpenSession,
           SendPrompt, RollBack, EndPass, github
      <4> QED BY <3>1, <4>1, <4>2 DEF Process
    <3>2. ASSUME Environment
          PROVE  UNCHANGED pr \/ \E q, s : s \in {"open", "closed"} /\ pr' = [pr EXCEPT ![q] = s]
      BY <3>2 DEF Environment, AgentOpensPr, HumanOpensPr, ClosePr, CiReports, AgentGivesUp,
         CloseIssue, ClaimScope, AgentSessionEnds, QaSessionEnds, github
    <3> QED BY <3>1, <3>2 DEF Next, vars, github
  <2>3. ASSUME NEW q, NEW s \in {"open", "closed"}, pr' = [pr EXCEPT ![q] = s] PROVE FALSE
    BY <2>0, <2>3
  <2> QED BY <2>1, <2>2, <2>3
<1>4. Init => TypeInv BY InitTypeInv, ConstantsAssumption
<1>5. TypeInv /\ [Next]_vars => TypeInv' BY NextTypeInv, ConstantsAssumption
<1> QED BY <1>1, <1>2, <1>3, <1>4, <1>5, PTL DEF Spec, LocalModeMergesPassing

=============================================================================
