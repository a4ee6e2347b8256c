----------------------------- MODULE ProjectFile -----------------------------
(***************************************************************************)
(* .conductr of a project.  An orchestrate pass appends rows about closed  *)
(* pull requests, an idle pass patches [idle], begin and setup spawn make  *)
(* the file and enter skills under [cadence], a person edits it.  Each     *)
(* reads the whole file, changes the text and writes it back: fs::write    *)
(* truncates the file first.  The file is a sequence of lines <<"[", t>>   *)
(* and <<"[[", t>>, which open a table, and <<"=", key, value>>.           *)
(***************************************************************************)
EXTENDS Naturals, Sequences, FiniteSets, SequencesExt

CONSTANTS
  FileWriters,       \* processes
  FirstFiles,    \* what .conductr may hold at first; <<>> where there is none
  ClosedPrs,     \* numbers of pull requests that get closed
  Modules,       \* what an idle pass may have visited
  BegunSkills,   \* skills that somebody schedules
  FileFaults,    \* "dies", "person", "noCiMinutes"
  MaxStarts      \* bound on the jobs

VARIABLES
  lines,   \* the text of .conductr
  exists,  \* whether there is one
  closed,  \* pull requests that list_closed_prs returns
  fileJob,     \* [at, kind, own, read, out, alone] of a process
  starts   \* jobs started: a bound

fileVars == <<lines, exists, closed, fileJob, starts>>

Opens(line) == line[1] \in {"[", "[["}
Key(k, v) == <<"=", k, v>>

\* The line that opens the table of line i; 0 for the keys before any.
HomeOf(text, i) ==
  LET before == {h \in 1..i : Opens(text[h])}
  IN  IF before = {} THEN 0 ELSE CHOOSE h \in before : \A g \in before : g <= h

\* The table that line i is in, or opens.
TableOf(text, i) == IF HomeOf(text, i) = 0 THEN <<"[", "">> ELSE text[HomeOf(text, i)]

\* What a TOML parser sees: the keys of a table, and of an array of tables.
FileEntries(text) == {<<TableOf(text, i), text[i]>> : i \in {j \in DOMAIN text : ~ Opens(text[j])}}

\* toml::from_str: no table is opened twice and no table has a key twice.
Readable(text) ==
  \A i, j \in DOMAIN text : i < j =>
    IF Opens(text[i]) THEN text[i][1] = "[" => text[j] # text[i]
    ELSE Opens(text[j]) \/ HomeOf(text, i) # HomeOf(text, j) \/ text[i][2] # text[j][2]

\* The lines of a text that open a plain table.
PlainTables(text) == {text[i] : i \in {j \in DOMAIN text : text[j][1] = "["}}

\* The first place of a wanted line in a text, or the one past the end.
FirstFrom(text, from, wanted) ==
  LET hits == {i \in from..Len(text) : text[i] \in wanted}
  IN  IF hits = {} THEN Len(text) + 1 ELSE CHOOSE i \in hits : \A j \in hits : i <= j

-----------------------------------------------------------------------------
(* What the writers make of the text.                                      *)

\* parse_existing_numbers: only another array ends the section.
RowNumbers(text, table, key) ==
  {text[i][3] : i \in {j \in DOMAIN text :
     /\ ~ Opens(text[j]) /\ text[j][2] = key
     /\ \E h \in 1..j : /\ text[h] = <<"[[", table>>
                        /\ \A g \in h + 1..j : text[g][1] # "[["}}

\* A row for each of them: the line that opens it and its number.
RowsFor(table, key, prs) ==
  LET numbers == SetToSeq(prs)
  IN  [i \in 1..2 * Cardinality(prs) |->
        IF i % 2 = 1 THEN <<"[[", table>> ELSE Key(key, numbers[i \div 2])]

\* Mutant: the rows of both kinds go by the same list.
AppendRowsByPr(text, prs, ci) ==
  text \o RowsFor("tempo.prs", "number", prs \ RowNumbers(text, "tempo.prs", "number"))
       \o RowsFor("ci.runs", "pr", ci \ (prs \cap RowNumbers(text, "ci.runs", "number")))

AppendRows(text, prs, ci) ==
  text \o RowsFor("tempo.prs", "number", prs \ RowNumbers(text, "tempo.prs", "number"))
       \o RowsFor("ci.runs", "pr", ci \ RowNumbers(text, "ci.runs", "pr"))

\* Mutant: keys that are not there yet are put at the end of the section.
PatchIdleSectionLate(text, m) ==
  LET start == FirstFrom(text, 1, {<<"[", "idle">>})
      end == FirstFrom(text, start + 1, PlainTables(text))
      old == {i \in start + 1..end - 1 : ~ Opens(text[i]) /\ text[i][2] = "last_module"}
  IN  IF start > Len(text) THEN text \o <<<<"[", "idle">>, Key("last_module", m)>>
      ELSE IF old # {} THEN [i \in DOMAIN text |-> IF i \in old THEN Key("last_module", m) ELSE text[i]]
      ELSE InsertAt(text, end, Key("last_module", m))

\* patch_idle_section; last_run goes the way of last_module.  The section runs
\* to the next plain table: the arrays after it count as part of it.
PatchIdleSection(text, m) ==
  LET start == FirstFrom(text, 1, {<<"[", "idle">>})
      end == FirstFrom(text, start + 1, PlainTables(text))
      old == {i \in start + 1..end - 1 : ~ Opens(text[i]) /\ text[i][2] = "last_module"}
  IN  IF start > Len(text) THEN text \o <<<<"[", "idle">>, Key("last_module", m)>>
      ELSE IF old # {} THEN [i \in DOMAIN text |-> IF i \in old THEN Key("last_module", m) ELSE text[i]]
      ELSE InsertAt(text, start + 1, Key("last_module", m))

\* insert_into_cadence_section: the end of the section is found in the same way,
\* and the new line goes there.
InsertIntoCadenceSection(text, skill) ==
  LET start == FirstFrom(text, 1, {<<"[", "cadence">>})
      end == FirstFrom(text, start + 1, PlainTables(text))
  IN  IF start > Len(text) THEN text \o <<<<"[", "cadence">>, Key(skill, "*/30")>>
      ELSE InsertAt(text, end, Key(skill, "*/30"))

ScheduledSkills(text) == {e[2][2] : e \in {d \in FileEntries(text) : d[1] = <<"[", "cadence">>}}
Minimal == <<Key("project_tag", "tag")>>

\* The number of a row is in no later line.
RowsSingle(text) ==
  \A i, j \in DOMAIN text :
    i < j /\ TableOf(text, i) \in {<<"[[", "tempo.prs">>, <<"[[", "ci.runs">>}
          /\ text[i][2] \in {"number", "pr"} => text[j] # text[i]

\* Rows of pull requests go by their number, rows of CI runs by their pull request.
RowsFit(text) ==
  \A i \in DOMAIN text : text[i][2] \in {"number", "pr"} =>
    /\ TableOf(text, i) = <<"[[", "tempo.prs">> => text[i][2] = "number"
    /\ TableOf(text, i) = <<"[[", "ci.runs">> => text[i][2] = "pr"

\* last_module is a key of [idle].
ModuleAtIdle(text) ==
  \A i \in DOMAIN text : ~ Opens(text[i]) /\ text[i][2] = "last_module" => TableOf(text, i) = <<"[", "idle">>

\* What there is at first parses, has its rows as they are written here, and the last
\* module where it is looked for; begin takes none but known commands, and no command
\* has the name of one of these keys.
ASSUME FileAssumption ==
  /\ FirstFiles \subseteq Seq(UNION {Range(text) : text \in FirstFiles})
  /\ \A text \in FirstFiles :
       Readable(text) /\ RowsSingle(text) /\ RowsFit(text) /\ ModuleAtIdle(text)
  /\ BegunSkills \cap {"number", "pr", "last_module"} = {}

-----------------------------------------------------------------------------
(* The processes.                                                          *)

NoJob == [at |-> "none"]

FileInit ==
  /\ lines \in FirstFiles /\ exists = (lines # <<>>)
  /\ closed = RowNumbers(lines, "tempo.prs", "number") \cup RowNumbers(lines, "ci.runs", "pr")
  /\ starts = 0 /\ fileJob = [p \in FileWriters |-> NoJob]

\* Two that overlap are not alone.
StartJob(p, kind, own) ==
  /\ fileJob[p].at = "none" /\ starts < MaxStarts /\ starts' = starts + 1
  /\ UNCHANGED <<lines, exists, closed>>
  /\ fileJob' = [q \in FileWriters |->
       IF q = p THEN [at |-> "read", kind |-> kind, own |-> own, read |-> <<>>, out |-> <<>>,
                      alone |-> \A r \in FileWriters : fileJob[r].at = "none"]
       ELSE IF fileJob[q].at = "none" THEN NoJob ELSE [fileJob[q] EXCEPT !.alone = FALSE]]

EndJob(p) == UNCHANGED starts /\ fileJob' = [fileJob EXCEPT ![p] = NoJob]

\* Write-back at the end of a pass; latest_ci_run_minutes may fail.
WriteBack(p) ==
  /\ closed # {}
  /\ \/ StartJob(p, "rows", <<closed, closed>>)
     \/ "noCiMinutes" \in FileFaults /\ StartJob(p, "rows", <<closed, {}>>)

WriteIdleState(p, m) == StartJob(p, "idle", m)

\* begin <skill>, and begin, which enters orchestrate and idle one after the other.
BeginSkill(p, skill) == StartJob(p, "begin", <<skill>>)
BeginDefaults(p) == StartJob(p, "ensure", <<"orchestrate", "idle">>)

\* The process has text in hand and sets out to write next.
Carry(p, text, next) ==
  /\ UNCHANGED <<lines, exists, closed>>
  /\ IF next = text /\ fileJob[p].kind = "rows" THEN EndJob(p)
     ELSE UNCHANGED starts /\ fileJob' = [fileJob EXCEPT ![p].at = "truncate", ![p].read = text, ![p].out = next]

ReadForRows(p) ==
  /\ fileJob[p].at = "read" /\ fileJob[p].kind = "rows"
  /\ Carry(p, lines, AppendRows(lines, fileJob[p].own[1], fileJob[p].own[2]))

ReadForIdle(p) ==
  /\ fileJob[p].at = "read" /\ fileJob[p].kind = "idle"
  /\ Carry(p, lines, PatchIdleSection(lines, fileJob[p].own))

\* ensure_dot_conductr: a file that is there must have a tag.
EnsureDotConductr(p) ==
  /\ fileJob[p].at = "read" /\ fileJob[p].kind = "ensure"
  /\ IF ~ exists THEN Carry(p, <<>>, Minimal)
     ELSE /\ UNCHANGED <<lines, exists, closed, starts>>
          /\ fileJob' = [fileJob EXCEPT ![p].kind = "begin"]

\* upsert_cadence_entry: no file, or one that does not parse, is an error.
UpsertCadenceEntry(p) ==
  /\ fileJob[p].at = "read" /\ fileJob[p].kind = "begin"
  /\ IF fileJob[p].own = <<>> \/ ~ exists \/ ~ Readable(lines)
     THEN EndJob(p) /\ UNCHANGED <<lines, exists, closed>>
     ELSE IF Head(fileJob[p].own) \in ScheduledSkills(lines)
     THEN fileJob' = [fileJob EXCEPT ![p].own = Tail(@)] /\ UNCHANGED <<lines, exists, closed, starts>>
     ELSE Carry(p, lines, InsertIntoCadenceSection(lines, Head(fileJob[p].own)))

Truncate(p) ==
  /\ fileJob[p].at = "truncate" /\ lines' = <<>> /\ exists' = TRUE
  /\ fileJob' = [fileJob EXCEPT ![p].at = "fill"] /\ UNCHANGED <<closed, starts>>

Fill(p) ==
  /\ fileJob[p].at = "fill" /\ lines' = fileJob[p].out
  /\ fileJob' = [fileJob EXCEPT ![p] =
       CASE @.kind = "ensure" -> [@ EXCEPT !.at = "read", !.kind = "begin"]
         [] @.kind = "begin" -> [@ EXCEPT !.at = "read", !.own = Tail(@)]
         [] OTHER -> NoJob]
  /\ UNCHANGED <<exists, closed, starts>>

WriterDies(p) ==
  /\ "dies" \in FileFaults /\ fileJob[p].at # "none" /\ EndJob(p) /\ UNCHANGED <<lines, exists, closed>>

PrCloses(pr) == pr \notin closed /\ closed' = closed \cup {pr} /\ UNCHANGED <<lines, exists, fileJob, starts>>

\* External: a person adds a table in an editor.
PersonEdits ==
  /\ "person" \in FileFaults /\ exists /\ <<"[", "band">> \notin Range(lines)
  /\ lines' = lines \o <<<<"[", "band">>, Key("human_assignee", "me")>>
  /\ fileJob' = [q \in FileWriters |-> IF fileJob[q].at = "none" THEN NoJob ELSE [fileJob[q] EXCEPT !.alone = FALSE]]
  /\ UNCHANGED <<exists, closed, starts>>

FileNext ==
  \/ \E p \in FileWriters :
       \/ WriteBack(p) \/ \E m \in Modules : WriteIdleState(p, m)
       \/ \E s \in BegunSkills : BeginSkill(p, s)
       \/ BeginDefaults(p)
       \/ ReadForRows(p) \/ ReadForIdle(p) \/ EnsureDotConductr(p) \/ UpsertCadenceEntry(p)
       \/ Truncate(p) \/ Fill(p) \/ WriterDies(p)
  \/ \E pr \in ClosedPrs : PrCloses(pr)
  \/ PersonEdits

FileSpec == FileInit /\ [][FileNext]_fileVars

-----------------------------------------------------------------------------
(* Properties.                                                             *)

\* A pull request has one row of each kind, whichever passes overlap, die or read
\* a file that another has just truncated.
RowsOnce == RowsSingle(lines)

LastModule(text) == {e \in FileEntries(text) : e[1] = <<"[", "idle">> /\ e[2][2] = "last_module"}

\* The write of a pass that had the file for itself loses nothing that was there,
\* and what it writes is read again in the table it belongs to.
LoneWriteLands ==
  [][\A p \in FileWriters : Fill(p) /\ fileJob[p].alone =>
       /\ FileEntries(fileJob[p].read) \ LastModule(fileJob[p].read) \subseteq FileEntries(lines')
       /\ fileJob[p].kind = "idle" => LastModule(lines') = {<<<<"[", "idle">>, Key("last_module", fileJob[p].own)>>}
       /\ fileJob[p].kind = "rows" => fileJob[p].own[1] = RowNumbers(lines', "tempo.prs", "number")]_fileVars
=============================================================================
