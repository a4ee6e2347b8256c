------------------------------- MODULE Parity -------------------------------
(***************************************************************************)
(* CLI-skill parity: the flags that a skill's text names on the lines that *)
(* invoke its command, compared with the flags that clap exposes for that  *)
(* command.  The state is the text of the skills, which grows line by      *)
(* line, and the flags of the command, which come and go.                  *)
(***************************************************************************)
EXTENDS Naturals, Sequences, SequencesExt

CONSTANTS
  SkillFiles,  \* directories under skills/
  Flags,       \* long flags
  MaxSkillLines     \* bound on the lines of all skills

VARIABLES
  skills,  \* directory |-> [name, lines] of its SKILL.md
  clap     \* flag |-> kind, for the flags of the one subcommand "command"

parityVars == <<skills, clap>>

\* Frontmatter names: the command's, one that no command has, one of several words.
Names == {"command", "ghost", "two_words"}
Kinds == {"Bool", "Value"}

\* A line of a skill: its cli: field, an invocation of the command with a flag right
\* after it, or any other line, a sub-subcommand's among them; what flags it names,
\* each with or without a <value> after it.
Line(form, mentions) == [form |-> form, mentions |-> mentions]
Invokes(line) == line.form \in {"cli", "direct"}

ParityInit ==
  /\ skills \in [SkillFiles -> [name : Names, lines : {<<>>}]]
  /\ clap = [f \in {} |-> "Bool"]

\* Mutant: the first invocation is taken for all.
SourcesFirst(lines) ==
  LET all == {i \in DOMAIN lines : Invokes(lines[i])} IN {i \in all : \A j \in all : i <= j}

\* The lines that are looked at, and the mentions of flags on them: <<i, k>> is the
\* k-th one of line i.
Sources(lines) == {i \in DOMAIN lines : Invokes(lines[i])}
Mentioned(lines) == UNION {{i} \X DOMAIN lines[i].mentions : i \in Sources(lines)}
MentionAt(lines, m) == lines[m[1]].mentions[m[2]]

\* The cli: field comes first, then the body's lines in their order.
Sooner(lines, m, n) ==
  LET Cli(i) == lines[i].form = "cli" IN
  \/ Cli(m[1]) /\ ~ Cli(n[1])
  \/ /\ Cli(m[1]) <=> Cli(n[1])
     /\ m[1] < n[1] \/ (m[1] = n[1] /\ m[2] < n[2])

\* The first mention of a flag is the one that counts.
ExtractSkillFlags(lines) ==
  {m \in Mentioned(lines) :
     \A n \in Mentioned(lines) : Sooner(lines, n, m) => MentionAt(lines, n).flag # MentionAt(lines, m).flag}

\* Skills of several words are left out.
CollectSkills == {d \in SkillFiles : skills[d].name # "two_words"}

\* The findings of each skill by their fingerprints, a flag's at its first mention.  A
\* skill's text has no description of a flag that the scanner reads, so the comparison
\* of descriptions never finds any.
CheckCliSkillParity ==
  LET of(d) ==
        LET name == skills[d].name
            lines == skills[d].lines
            extra == {m \in ExtractSkillFlags(lines) : MentionAt(lines, m).flag \notin DOMAIN clap}
            typed == {m \in ExtractSkillFlags(lines) \ extra : clap[MentionAt(lines, m).flag] # MentionAt(lines, m).kind}
        IN  IF name # "command" THEN << <<"skill-without-cli", name>> >>
            ELSE [m \in extra \cup typed |->
                    <<IF m \in extra THEN "flag-extra" ELSE "flag-type", name, MentionAt(lines, m).flag>>]
  IN  [d \in CollectSkills |-> of(d)]

-----------------------------------------------------------------------------

LineCount == FoldLeft(LAMBDA n, d : n + Len(skills[d].lines), 0, SetToSeq(SkillFiles))

\* Only the text of the command's own skill is read for its flags.
WriteLine(d, form, mentions) ==
  /\ skills[d].name = "command" /\ LineCount < MaxSkillLines
  /\ form = "cli" => \A i \in DOMAIN skills[d].lines : skills[d].lines[i].form # "cli"
  /\ skills' = [skills EXCEPT ![d].lines = Append(@, Line(form, mentions))]
  /\ UNCHANGED clap

AddFlag(f, kind) ==
  /\ f \notin DOMAIN clap
  /\ clap' = [g \in DOMAIN clap \cup {f} |-> IF g = f THEN kind ELSE clap[g]]
  /\ UNCHANGED skills

DropFlag(f) ==
  /\ f \in DOMAIN clap
  /\ clap' = [g \in DOMAIN clap \ {f} |-> clap[g]]
  /\ UNCHANGED skills

Mentions == [flag : Flags, kind : Kinds]

ParityNext ==
  \/ \E d \in SkillFiles, form \in {"cli", "direct", "other"} :
       \E ms \in {<<m>> : m \in Mentions} \cup {<<m, n>> : m, n \in Mentions} : WriteLine(d, form, ms)
  \/ \E f \in Flags : (\E kind \in Kinds : AddFlag(f, kind)) \/ DropFlag(f)

ParitySpec == ParityInit /\ [][ParityNext]_parityVars

-----------------------------------------------------------------------------
(* Properties.                                                             *)

\* No finding means parity: every flag that any invocation of a command names, on whichever
\* line and however often, is one that clap exposes, and some invocation has it as clap
\* does; and no flag is reported twice for one skill, so that one drift is one issue.
CleanIsParity ==
  \A d \in CollectSkills :
    LET found == CheckCliSkillParity[d]
        named == {skills[d].lines[i] : i \in {j \in DOMAIN skills[d].lines : Invokes(skills[d].lines[j])}}
    IN  /\ IsInjective(found)
        /\ found = <<>> =>
             /\ skills[d].name = "command"
             /\ \A line \in named : \A k \in DOMAIN line.mentions :
                  LET f == line.mentions[k].flag
                  IN  /\ f \in DOMAIN clap
                      /\ \E o \in named : [flag |-> f, kind |-> clap[f]] \in Range(o.mentions)
=============================================================================
