------------------------------ MODULE Cadence ------------------------------
(***************************************************************************)
(* cadence sync, cadence remove and begin: the schedule that a repository  *)
(* declares in [cadence], what the host's crontab or launchd runs, and     *)
(* .conductr-local, the record of it.  The crontab belongs to all          *)
(* repositories and to the user; each command reads it whole and writes it *)
(* whole.                                                                  *)
(***************************************************************************)
EXTENDS Integers, Sequences, SequencesExt, FiniteSets

CONSTANTS
  Repos,       \* repositories with a .conductr
  TagOf,       \* TagOf[r]: project tag, cut at the dashes
  Tasks,       \* keys of [cadence]
  Times,       \* schedules
  UserLines,   \* lines that the user may add to the crontab
  Writers,     \* invocations of the commands
  Given,       \* Given[r]: its [cadence] to begin with
  JobsOf,      \* JobsOf[k]: what k may be invoked as, see Jobs
  MaxEdits,    \* bound: edits by hand of [cadence] and of the crontab
  CronHazards, \* "crash", "readError", "writeError", "loadError"
  DefaultTime, NoTime, NoFile, Nothing

Tables == [Tasks -> Times \cup {NoTime}]

Jobs == [op: {"sync"}, repo: Repos, mech: {"crontab", "launchd"}]
          \cup [op: {"begin"}, repo: Repos, add: SUBSET Tasks, mech: {"crontab"}]
          \cup [op: {"remove"}, repo: Repos]

Entries == [task : Tasks, mech : {"crontab", "launchd"}, time : Times]

ASSUME CadenceAssumption ==
  /\ IsFiniteSet(Tasks)
  /\ TagOf \in [Repos -> Seq(STRING)] /\ DefaultTime \in Times /\ NoTime \notin Times
  /\ \A lines \in SUBSET Entries : NoFile # lines
  /\ Given \in [Repos -> Tables] /\ JobsOf \in [Writers -> SUBSET Jobs] /\ MaxEdits \in Nat

VARIABLES
  crontab, \* its lines
  launchAgents, \* the schedule in the plist of each task
  config,  \* [cadence] of each repository
  record,  \* its .conductr-local
  phase,   \* where each process is
  job,     \* what it was invoked as
  base,    \* the crontab it has read
  want,    \* the [cadence] it has read
  rest,    \* entries its loop has left
  edits,   \* edits by hand so far
  alone,   \* processes that nothing has overlapped with
  dirty    \* repositories with a command cut short or overlapped since their
           \* last undisturbed sync

files == <<crontab, launchAgents, config, record>>
plan == <<job, base, want, rest>>
cadVars == <<files, plan, phase, edits, alone, dirty>>

Label(r, task) == Append(TagOf[r], task)
Labels == {Label(r, t) : r \in Repos, t \in Tasks}

UserLine(u) == [kind |-> "user", label |-> <<u>>, time |-> NoTime]
Marker(label) == [kind |-> "marker", label |-> label, time |-> NoTime]
Job(label, time) == [kind |-> "job", label |-> label, time |-> time]

EmptyTable == [t \in Tasks |-> NoTime]

Declared(table) == {t \in Tasks : table[t] # NoTime}

\* The entries of a table under a mechanism.
EntriesOf(table, mech) ==
  {[task |-> t, mech |-> mech, time |-> table[t]] : t \in Declared(table)}

CadInit ==
  /\ crontab = <<>> /\ launchAgents = [r \in Repos |-> EmptyTable]
  /\ config = Given /\ record = [r \in Repos |-> NoFile]
  /\ phase = [k \in Writers |-> "off"] /\ job = [k \in Writers |-> Nothing]
  /\ base = [k \in Writers |-> <<>>] /\ want = [k \in Writers |-> EmptyTable]
  /\ rest = [k \in Writers |-> {}]
  /\ edits = 0 /\ alone = {} /\ dirty = {}

Errs(hazard) == hazard \in CronHazards

-----------------------------------------------------------------------------
(* The crontab as text.                                                    *)

\* One line more of the loop: a marker with a label of ours goes, with the line
\* after it, which is not looked at.
StripLine(acc, line, ours) ==
  IF acc.skip THEN [acc EXCEPT !.skip = FALSE]
  ELSE IF line.kind = "marker" /\ line.label \in ours THEN [acc EXCEPT !.skip = TRUE]
  ELSE [acc EXCEPT !.out = Append(@, line)]

\* The state of the loop behind every line.
StripLoop(lines, ours) ==
  LET loop[n \in 0..Len(lines)] ==
        IF n = 0 THEN [out |-> <<>>, skip |-> FALSE] ELSE StripLine(loop[n - 1], lines[n], ours)
  IN  loop

\* What is left of lines.
Strip(lines, ours) == StripLoop(lines, ours)[Len(lines)].out

\* Mutant: any marker is taken for one's own.
OwnAny(r, label) == TRUE

\* Markers are known by the tag and a dash.
Own(r, label) == IsStrictPrefix(TagOf[r], label)

\* The marker and job lines of a table, task by task.
Generated(r, table) ==
  LET tasks == SetToSeq(Declared(table))
  IN  [i \in 1..2 * Cardinality(Declared(table)) |->
        LET t == tasks[(i + 1) \div 2]
        IN  IF i % 2 = 1 THEN Marker(Label(r, t)) ELSE Job(Label(r, t), table[t])]

\* Mutant: new entries are appended to the crontab as it is.
MergeAppends(lines, table, r) == lines \o Generated(r, table)

\* Mutant: only what is declared is replaced.
MergeDeclared(lines, table, r) ==
  Strip(lines, {Label(r, t) : t \in Declared(table)})
    \o Generated(r, table)

Merge(lines, table, r) ==
  Strip(lines, {label \in Labels : Own(r, label)}) \o Generated(r, table)

-----------------------------------------------------------------------------
(* Commands begin and end.                                                 *)

Busy(r) == \E k \in Writers : phase[k] # "off" /\ job[k].repo = r

Enter(k, where) == phase' = [phase EXCEPT ![k] = where]

Stop(k) ==
  /\ Enter(k, "off") /\ job' = [job EXCEPT ![k] = Nothing]
  /\ base' = [base EXCEPT ![k] = <<>>] /\ want' = [want EXCEPT ![k] = EmptyTable]
  /\ rest' = [rest EXCEPT ![k] = {}] /\ alone' = alone \ {k}
  /\ UNCHANGED edits

\* The command ends in an error, or its process dies.
Abort(k) == Stop(k) /\ dirty' = dirty \cup {job[k].repo}

Done(k) ==
  /\ Stop(k)
  /\ dirty' = IF k \notin alone THEN dirty \cup {job[k].repo}
              ELSE IF job[k].op = "remove" THEN dirty ELSE dirty \ {job[k].repo}

Run(k, c) ==
  /\ phase[k] = "off" /\ c \in JobsOf[k] /\ job' = [job EXCEPT ![k] = c]
  /\ \/ /\ c.op = "sync"
        /\ Enter(k, "config") /\ UNCHANGED rest
     \/ /\ c.op = "begin" /\ c.add # {} /\ Enter(k, "upsert")
        /\ rest' = [rest EXCEPT ![k] =
             {[task |-> t, mech |-> c.mech, time |-> DefaultTime] : t \in c.add}]
     \/ /\ c.op = "remove" /\ record[c.repo] # NoFile
        /\ Enter(k, "remove") /\ rest' = [rest EXCEPT ![k] = record[c.repo]]
  /\ alone' = IF \A j \in Writers : phase[j] = "off" THEN {k} ELSE {}
  /\ UNCHANGED <<files, base, want, edits, dirty>>

Dies(k) == phase[k] # "off" /\ Errs("crash") /\ Abort(k) /\ UNCHANGED files

-----------------------------------------------------------------------------
(* begin: entries are added to [cadence] unless they are there; a sync     *)
(* follows.                                                                *)

Upsert(k) ==
  /\ phase[k] = "upsert"
  /\ \E e \in rest[k] :
       /\ config' = IF e.task \in Declared(config[job[k].repo]) THEN config
                    ELSE [config EXCEPT ![job[k].repo][e.task] = e.time]
       /\ rest' = [rest EXCEPT ![k] = @ \ {e}]
       /\ IF rest[k] = {e} THEN Enter(k, "config") ELSE UNCHANGED phase
  /\ UNCHANGED <<crontab, launchAgents, record, job, base, want, edits, alone, dirty>>

-----------------------------------------------------------------------------
(* sync.                                                                   *)

\* An empty [cadence] is an error.
ReadConfig(k) ==
  LET table == config[job[k].repo]
  IN  /\ phase[k] = "config" /\ UNCHANGED files
      /\ \/ Declared(table) = {} /\ Abort(k)
         \/ /\ Declared(table) # {}
            /\ want' = [want EXCEPT ![k] = table]
            /\ IF job[k].mech = "crontab" THEN Enter(k, "read") /\ UNCHANGED rest
               ELSE Enter(k, "install") /\ rest' = [rest EXCEPT ![k] = EntriesOf(table, "launchd")]
            /\ UNCHANGED <<job, base, edits, alone, dirty>>

\* A crontab that cannot be read is taken for an empty one; what others had in
\* it will be gone.
CrontabRead(k) ==
  \/ base' = [base EXCEPT ![k] = crontab] /\ UNCHANGED dirty
  \/ Errs("readError") /\ base' = [base EXCEPT ![k] = <<>>] /\ dirty' = Repos

ReadCrontab(k) ==
  /\ phase[k] = "read" /\ CrontabRead(k) /\ Enter(k, "write")
  /\ UNCHANGED <<files, job, want, rest, edits, alone>>

WriteCrontab(k) ==
  /\ phase[k] = "write"
  /\ \/ /\ crontab' = Merge(base[k], want[k], job[k].repo)
        /\ Enter(k, "record")
        /\ UNCHANGED <<launchAgents, config, record, plan, edits, alone, dirty>>
     \/ Errs("writeError") /\ Abort(k) /\ UNCHANGED files

\* One LaunchAgent after the other is written and loaded.  The plist of one
\* that cannot be loaded stays, for the next login.
InstallAgent(k) ==
  /\ phase[k] = "install"
  /\ \E e \in rest[k] :
       /\ launchAgents' = [launchAgents EXCEPT ![job[k].repo][e.task] = e.time]
       /\ \/ /\ rest' = [rest EXCEPT ![k] = @ \ {e}]
             /\ IF rest[k] = {e} THEN Enter(k, "record") ELSE UNCHANGED phase
             /\ UNCHANGED <<job, base, want, edits, alone, dirty>>
          \/ Errs("loadError") /\ Abort(k)
  /\ UNCHANGED <<crontab, config, record>>

WriteRecord(k) ==
  /\ phase[k] = "record"
  /\ \/ /\ record' = [record EXCEPT ![job[k].repo] = EntriesOf(want[k], job[k].mech)]
        /\ Done(k) /\ UNCHANGED <<crontab, launchAgents, config>>
     \/ Errs("writeError") /\ Abort(k) /\ UNCHANGED files

-----------------------------------------------------------------------------
(* remove: entry by entry as recorded, then the record.                    *)

RemoveAgent(k) ==
  /\ phase[k] = "remove"
  /\ \E e \in rest[k] :
       /\ e.mech = "launchd"
       /\ launchAgents' = [launchAgents EXCEPT ![job[k].repo][e.task] = NoTime]
       /\ rest' = [rest EXCEPT ![k] = @ \ {e}]
  /\ UNCHANGED <<crontab, config, record, phase, job, base, want, edits, alone, dirty>>

ReadForRemoval(k) ==
  /\ phase[k] = "remove" /\ \E e \in rest[k] : e.mech = "crontab"
  /\ CrontabRead(k) /\ Enter(k, "strip")
  /\ UNCHANGED <<files, job, want, rest, edits, alone>>

StripEntry(k) ==
  /\ phase[k] = "strip"
  /\ \/ \E e \in rest[k] :
          LET marker == Label(job[k].repo, e.task)
          IN  /\ e.mech = "crontab"
              /\ crontab' = Strip(base[k], {marker})
              /\ rest' = [rest EXCEPT ![k] = @ \ {e}]
              /\ Enter(k, "remove")
              /\ UNCHANGED <<launchAgents, config, record, job, base, want, edits, alone, dirty>>
     \/ Errs("writeError") /\ Abort(k) /\ UNCHANGED files

DeleteRecord(k) ==
  /\ phase[k] = "remove" /\ rest[k] = {}
  /\ \/ /\ record' = [record EXCEPT ![job[k].repo] = NoFile] /\ Done(k)
        /\ UNCHANGED <<crontab, launchAgents, config>>
     \/ /\ record[job[k].repo] = NoFile \/ Errs("writeError")
        /\ Abort(k) /\ UNCHANGED files

-----------------------------------------------------------------------------
(* Edits by hand: a schedule is changed or dropped (begin adds them), a     *)
(* line is added to the crontab.                                           *)

EditConfig(r) ==
  /\ edits < MaxEdits /\ edits' = edits + 1
  /\ \E t \in Declared(config[r]) : \E time \in Times \cup {NoTime} :
       config' = [config EXCEPT ![r][t] = time]
  /\ UNCHANGED <<crontab, launchAgents, record, plan, phase, alone, dirty>>

EditCrontab ==
  /\ edits < MaxEdits /\ edits' = edits + 1
  /\ \E u \in UserLines : crontab' = Append(crontab, UserLine(u))
  /\ alone' = {}
  /\ UNCHANGED <<launchAgents, config, record, plan, phase, dirty>>

-----------------------------------------------------------------------------

CadNext ==
  \/ \E k \in Writers :
       \/ \E c \in Jobs : Run(k, c)
       \/ Dies(k) \/ Upsert(k) \/ ReadConfig(k) \/ ReadCrontab(k) \/ WriteCrontab(k)
       \/ InstallAgent(k) \/ WriteRecord(k) \/ RemoveAgent(k) \/ ReadForRemoval(k)
       \/ StripEntry(k) \/ DeleteRecord(k)
  \/ \E r \in Repos : EditConfig(r)
  \/ EditCrontab

CadSpec == CadInit /\ [][CadNext]_cadVars

-----------------------------------------------------------------------------
(* Properties.                                                             *)

\* Whatever overlaps, fails or dies, every marker in the crontab has its job
\* under it, every job its marker above it, and no label is there twice:
\* merge and remove_crontab_entry skip the line after a marker unseen.
WellFormed ==
  /\ \A i \in 1..Len(crontab) :
       /\ crontab[i].kind = "marker" =>
            /\ i < Len(crontab) /\ crontab[i + 1].kind = "job"
            /\ crontab[i + 1].label = crontab[i].label
       /\ crontab[i].kind = "job" => i > 1 /\ crontab[i - 1].kind = "marker"
  /\ \A i, j \in 1..Len(crontab) :
       crontab[i].kind = "marker" /\ crontab[i] = crontab[j] => i = j

\* The labels under r's tag: its own, and those of repositories whose tag goes on
\* where r's ends.
Under(r) == {Label(s, t) : s \in {q \in Repos : IsPrefix(TagOf[r], TagOf[q])}, t \in Tasks}

\* Behind every line, the lines with other labels so far, in order.
Outside(lines, labels) ==
  LET others[n \in 0..Len(lines)] ==
        IF n = 0 THEN <<>>
        ELSE IF lines[n].label \in labels THEN others[n - 1] ELSE Append(others[n - 1], lines[n])
  IN  others

Foreign(r, lines) == Outside(lines, Under(r))[Len(lines)]

\* A sync or a remove that writes back the crontab it read leaves the lines of
\* the user and of repositories under other tags as they are and in order (merge,
\* remove_crontab_entry).
OthersSurvive ==
  [][\A k \in Writers :
       (/\ phase[k] \in {"write", "strip"} /\ phase'[k] \in {"record", "remove"}
        /\ base[k] = crontab)
       => Foreign(job[k].repo, crontab') = Foreign(job[k].repo, crontab)]_cadVars

\* The entries of r that the lines of a crontab schedule.
InLines(r, lines) ==
  {e \in [task : Tasks, mech : {"crontab"}, time : Times] :
     Job(Label(r, e.task), e.time) \in Range(lines)}

Scheduled(r) == InLines(r, crontab) \cup EntriesOf(launchAgents[r], "launchd")
MechsOf(r) == {c.mech : c \in {c \in UNION {JobsOf[k] : k \in Writers} :
                                  c.repo = r /\ c.op # "remove"}}
Recorded(r) == IF record[r] = NoFile THEN {} ELSE record[r]

\* r's tag does not begin with that of another repository.
Apart(r) == \A s \in Repos \ {r} : ~ IsPrefix(TagOf[s], TagOf[r])

\* The record is what is scheduled once a sync has run undisturbed, whatever
\* errors, deaths and overlaps came before it; where launchd is in use there may be
\* more scheduled than recorded.  status and remove go by the record alone.
RecordMatches ==
  \A r \in Repos : ~ Apart(r) \/ r \in dirty \/ Busy(r) \/
    IF MechsOf(r) = {"crontab"} THEN Recorded(r) = Scheduled(r)
    ELSE Recorded(r) \subseteq Scheduled(r)

\* skills/begin/SKILL.md: remove uninstalls all scheduled entries of the project.
RemoveUninstalls ==
  \A r \in Repos : record[r] = NoFile => r \in dirty \/ Busy(r) \/ Scheduled(r) = {}
=============================================================================
