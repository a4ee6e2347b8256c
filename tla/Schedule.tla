------------------------------ MODULE Schedule ------------------------------
(***************************************************************************)
(* The schedule crate: a markdown plan is read line by line, its items are *)
(* batched into bars of equal length, the pattern is written as the text   *)
(* DSL, and that text (or one typed by hand) is parsed and flattened into  *)
(* leaf intervals.  Lengths are in 64ths, durations in seconds.            *)
(***************************************************************************)
EXTENDS Naturals, Sequences, FiniteSets, SequencesExt

CONSTANTS
  Tickets,   \* ids T<n>: numbers, in the order of their first heading; 0 has none
  PlanNotes, \* letters an Estimate line may have, as lengths
  HandBars,  \* bar lines a person may type: sequences of beats
  MaxLines,  \* bound on the lines of a plan or a text
  MaxNesting, \* bound on the brackets within brackets
  Seconds    \* the bar_duration directives a person may type

VARIABLES
  planItems,  \* PlanItem: id, deps (a sequence), estimate; the last is current
  planLines,  \* lines read
  degrees,    \* in_degree
  planQueue,  \* queue
  batches,    \* batches, of indexes of planItems
  pattern,    \* the pattern of the plan: beatsPerBar, quarter, bars
  dslText,    \* the text: seconds of bar_duration, bars
  parsed,     \* what parse returns for it
  scoreStage  \* "reading", "typing", "batching", "pattern", "text", "done", or an error

planVars == <<planItems, planLines, degrees, planQueue, batches>>
scoreVars == <<planVars, pattern, dslText, parsed, scoreStage>>

\* NoteValue::in_64ths, whole to hemidemisemiquaver.
NoteLengths == {64, 32, 16, 8, 4, 2, 1}
Quarter == 16
DefaultTempo == 7200
None64 == [beatsPerBar |-> 4, quarter |-> DefaultTempo, bars |-> <<>>]

ScoreInit ==
  /\ planItems = <<>> /\ planLines = 0 /\ degrees = <<>> /\ planQueue = <<>>
  /\ batches = <<>> /\ pattern = None64 /\ dslText = [seconds |-> 0, bars |-> <<>>]
  /\ parsed = None64 /\ scoreStage = "reading"

Note(len, tag) == [len |-> len, tag |-> tag, parts |-> <<>>]

BeatsLength(beats) ==
  LET sum[k \in 0..Len(beats)] == IF k = 0 THEN 0 ELSE sum[k - 1] + beats[k].len
  IN  sum[Len(beats)]

\* The beats of a line, and below them what their brackets hold.
Levels(beats) ==
  LET level[d \in 0..MaxNesting] ==
        IF d = 0 THEN ToSet(beats) ELSE UNION {ToSet(b.parts) : b \in level[d - 1]}
  IN  level

ASSUME ScoreAssumption ==
  /\ Tickets \subseteq Nat \ {0} /\ PlanNotes \subseteq NoteLengths /\ MaxNesting \in Nat
  /\ \A beats \in HandBars : \A b \in Levels(beats)[MaxNesting] : b.parts = <<>>

-----------------------------------------------------------------------------
(* parse_plan, line by line.                                               *)

ReadTicket(id) ==
  /\ scoreStage = "reading" /\ planLines < MaxLines /\ planLines' = planLines + 1
  /\ planItems' = Append(planItems, [id |-> id, deps |-> <<>>, estimate |-> Quarter])
  /\ UNCHANGED <<degrees, planQueue, batches, pattern, dslText, parsed, scoreStage>>

\* A heading that is no ticket ends nothing: what follows it still belongs to
\* the ticket before it, and attributes before any ticket are dropped.
ReadAttribute(deps, note) ==
  /\ scoreStage = "reading" /\ planLines < MaxLines /\ planLines' = planLines + 1
  /\ planItems # <<>>
  /\ planItems' = [planItems EXCEPT ![Len(planItems)].deps = @ \o deps,
                                    ![Len(planItems)].estimate = IF note = 0 THEN @ ELSE note]
  /\ UNCHANGED <<degrees, planQueue, batches, pattern, dslText, parsed, scoreStage>>

IdsOf(items) == {items[k].id : k \in DOMAIN items}

ValidatePlan ==
  IF Cardinality(IdsOf(planItems)) # Len(planItems) THEN "duplicate id"
  ELSE IF \E k \in DOMAIN planItems : ~ ToSet(planItems[k].deps) \subseteq IdsOf(planItems)
  THEN "unknown dep" ELSE "batching"

\* How often k has the dependency j: a dependency listed twice counts twice.
Uses(j, k) == Cardinality({i \in DOMAIN planItems[k].deps : planItems[k].deps[i] = planItems[j].id})

\* Items as they come in the plan.
InPlanOrder(items) ==
  LET list[k \in 0..Len(planItems)] ==
        IF k = 0 THEN <<>> ELSE IF k \in items THEN Append(list[k - 1], k) ELSE list[k - 1]
  IN  list[Len(planItems)]

StartBatches ==
  /\ scoreStage = "reading" /\ scoreStage' = ValidatePlan
  /\ degrees' = [k \in DOMAIN planItems |-> Len(planItems[k].deps)]
  /\ planQueue' = IF ValidatePlan # "batching" THEN <<>>
                  ELSE InPlanOrder({k \in DOMAIN planItems : planItems[k].deps = <<>>})
  /\ UNCHANGED <<planItems, planLines, batches, pattern, dslText, parsed>>

\* How many dependencies of k are among the first i of batch.
Used(batch, k) ==
  LET used[i \in 0..Len(batch)] == IF i = 0 THEN 0 ELSE used[i - 1] + Uses(batch[i], k)
  IN  used

\* Mutant: an item is queued as soon as one of its dependencies is placed.
FreedByEager(batch, i) == {k \in DOMAIN planItems : Uses(batch[i], k) > 0}

\* The items whose last open dependency is the i-th of batch.
FreedBy(batch, i) ==
  {k \in DOMAIN planItems : Uses(batch[i], k) > 0 /\ Used(batch, k)[i] = degrees[k]}

Freed(batch) ==
  LET freed[i \in 0..Len(batch)] ==
        IF i = 0 THEN <<>> ELSE freed[i - 1] \o InPlanOrder(FreedBy(batch, i))
  IN  freed[Len(batch)]

PlaceBatch ==
  /\ scoreStage = "batching" /\ planQueue # <<>>
  /\ batches' = Append(batches, planQueue)
  /\ planQueue' = Freed(planQueue)
  /\ degrees' = [k \in DOMAIN planItems |-> degrees[k] - Used(planQueue, k)[Len(planQueue)]]
  /\ UNCHANGED <<planItems, planLines, pattern, dslText, parsed, scoreStage>>

-----------------------------------------------------------------------------
(* plan_to_pattern and pattern_to_dsl.                                     *)

LargestFitting(room) ==
  CHOOSE n \in NoteLengths : n <= room /\ \A m \in NoteLengths : m <= room => m <= n

\* "rest", which is no ticket.
RestTag == 0

\* The rests that fill a bar, and the room they leave, after each turn of the loop.
Rests(room) ==
  LET fill[i \in 0..room] ==
        IF i = 0 THEN <<room, <<>>>>
        ELSE LET last == fill[i - 1]
                 n == LargestFitting(last[1])
             IN  IF last[1] = 0 THEN last
                 ELSE <<last[1] - n, Append(last[2], Note(n, RestTag))>>
  IN  fill[room][2]

ItemBeats(batch) ==
  [i \in DOMAIN batch |-> Note(planItems[batch[i]].estimate, planItems[batch[i]].id)]

LongestBatch ==
  LET lengths == {BeatsLength(ItemBeats(batches[b])) : b \in DOMAIN batches}
  IN  CHOOSE n \in lengths : \A m \in lengths : m <= n

\* Mutant: bars are as long as their items, without rests.
BarOfUnpadded(batch) == ItemBeats(batch)

BarOf(batch) ==
  LET items == ItemBeats(batch) IN items \o Rests(LongestBatch - BeatsLength(items))

PlanToPattern ==
  /\ scoreStage = "batching" /\ planQueue = <<>> /\ scoreStage' = "pattern"
  /\ pattern' = IF batches = <<>> THEN None64 ELSE
       [beatsPerBar |-> (LongestBatch + Quarter - 1) \div Quarter, quarter |-> DefaultTempo,
        bars |-> [b \in DOMAIN batches |-> BarOf(batches[b])]]
  /\ UNCHANGED <<planVars, dslText, parsed>>

\* The bar duration is written in hours and minutes.
PatternToDsl ==
  LET seconds == (pattern.quarter * pattern.beatsPerBar * Quarter) \div Quarter
  IN  /\ scoreStage = "pattern" /\ scoreStage' = "text"
      /\ dslText' = [seconds |-> (seconds \div 60) * 60, bars |-> pattern.bars]
      /\ UNCHANGED <<planVars, pattern, parsed>>

\* A person types the text instead.
TypeBar(beats) ==
  /\ scoreStage = "typing" \/ (scoreStage = "reading" /\ planLines = 0)
  /\ Len(dslText.bars) < MaxLines /\ scoreStage' = "typing"
  /\ dslText' = [dslText EXCEPT !.bars = Append(@, beats)]
  /\ UNCHANGED <<planVars, pattern, parsed>>

TypeDuration(secs) ==
  /\ scoreStage = "typing" /\ scoreStage' = "text"
  /\ dslText' = [dslText EXCEPT !.seconds = secs]
  /\ UNCHANGED <<planVars, pattern, parsed>>

-----------------------------------------------------------------------------
(* parse.                                                                  *)

Nested(beats) == UNION {Levels(beats)[d] : d \in 0..MaxNesting}

\* parse_beat: a beat is a tag, a letter that names a note value, and beats in
\* brackets.  Text that is none has length 0.
BeatParses(beat) == beat.len \in NoteLengths

\* Beat::validate: subdivisions fill their beat, at every depth.
BeatValid(beat) == beat.parts # <<>> => BeatsLength(beat.parts) = beat.len

\* parse_bar_beats: all beats of a line are read, then all are validated.
LineParses(beats) == \A beat \in Nested(beats) : BeatParses(beat)
LineValid(beats) == \A beat \in Nested(beats) : BeatValid(beat)

\* parse: the first line that is wrong decides.  A first bar without beats
\* divides by its length.
ParseOutcome(bars) ==
  LET first == BeatsLength(bars[1])
      wrong == {b \in DOMAIN bars : ~ (LineParses(bars[b]) /\ LineValid(bars[b]))}
  IN  IF wrong # {}
      THEN LET b == CHOOSE b \in wrong : \A c \in wrong : b <= c
           IN  IF LineParses(bars[b]) THEN "subdivision mismatch" ELSE "syntax"
      ELSE IF bars = <<>> THEN "done"
      ELSE IF \E b \in DOMAIN bars : BeatsLength(bars[b]) # first THEN "bar mismatch"
      ELSE IF first = 0 THEN "panic"
      ELSE IF (first \div Quarter) * Quarter # first THEN "bar mismatch"
      ELSE "done"

Parse ==
  LET first == IF dslText.bars = <<>> THEN 64 ELSE BeatsLength(dslText.bars[1])
  IN  /\ scoreStage = "text" /\ scoreStage' = ParseOutcome(dslText.bars)
      /\ parsed' = IF scoreStage' # "done" THEN parsed ELSE
           [beatsPerBar |-> first \div Quarter,
            quarter |-> (dslText.seconds * Quarter) \div first,
            bars |-> dslText.bars]
      /\ UNCHANGED <<planVars, pattern, dslText>>

ScoreNext ==
  \/ \E id \in Tickets : id <= Len(planItems) + 1 /\ ReadTicket(id)
  \/ \E d \in Tickets \cup {0} : ReadAttribute(<<d>>, 0) \/ ReadAttribute(<<d, d>>, 0)
  \/ \E n \in PlanNotes : ReadAttribute(<<>>, n)
  \/ StartBatches \/ PlaceBatch \/ PlanToPattern \/ PatternToDsl
  \/ \E beats \in HandBars : TypeBar(beats)
  \/ \E secs \in Seconds : TypeDuration(secs)
  \/ Parse

ScoreSpec == ScoreInit /\ [][ScoreNext]_scoreVars

-----------------------------------------------------------------------------
(* Properties.                                                             *)

ParseResults == {"done", "syntax", "bar mismatch", "subdivision mismatch", "panic"}

InBar(k, b) == \E i \in DOMAIN batches[b] : batches[b][i] = k
Scheduled(k) == \E b \in DOMAIN batches : InBar(k, b)

\* topo_batches: an item is in the bars once at most, and then each of its
\* dependencies is in an earlier one; an item without a bar waits for another
\* without one, so that a plan without a cycle is scheduled whole.
PlanIsOrdered ==
  scoreStage \in {"pattern", "text", "done"} =>
    /\ \A b, c \in DOMAIN batches : \A i \in DOMAIN batches[b], m \in DOMAIN batches[c] :
         batches[b][i] = batches[c][m] => b = c /\ i = m
    /\ \A k, j \in DOMAIN planItems :
         Uses(j, k) > 0 => \A b \in DOMAIN batches : InBar(k, b) => \E c \in 1..b - 1 : InBar(j, c)
    /\ \A k \in DOMAIN planItems :
         Scheduled(k) \/ \E m \in DOMAIN planItems : Uses(m, k) > 0 /\ ~ Scheduled(m)

\* pattern_to_dsl and parse: what is read from the text of a plan is the plan, bar
\* by bar and at its tempo, and a plan whose longest bar is a whole number of
\* quarters is read.  Of the others parse refuses the text, though it was rendered
\* to be read again; nothing is claimed of them.
RoundTrip ==
  planItems # <<>> /\ scoreStage \in ParseResults =>
    /\ scoreStage = "done" => parsed = pattern
    /\ batches = <<>> \/ LongestBatch % Quarter = 0 => scoreStage = "done"
=============================================================================
