------------------------------ MODULE Mailbox ------------------------------
(***************************************************************************)
(* The agents' bulletin board: messages are appended to a JSONL file       *)
(* (`conductr mail`) or posted as comments on a sentinel issue, and scope  *)
(* dedup looks through them for the claims on an issue.  A message and its *)
(* newline are two writes to the file; a comment is one call of gh.        *)
(***************************************************************************)
EXTENDS Naturals, Sequences

CONSTANTS
  Agents,       \* processes that send mail
  MailIssues,   \* issues that claims are about
  ClaimedFiles, \* files that claims are about
  MaxSends      \* bound on the messages and on the chatter

VARIABLES
  inboxFile, \* inbox.jsonl: what stands on every line, the last of which is open
  comments,  \* comments on the sentinel issue
  sending,   \* the send every agent is in
  delivered, \* sends that returned Ok: <<store, message>>
  torn,      \* two sends to the file overlapped, or one was cut off
  sent       \* messages composed, which numbers them

mailVars == <<inboxFile, comments, sending, delivered, torn, sent>>

Chatter == [kind |-> "chatter", id |-> 0]  \* a comment of a person

\* build_mail_kind and request_synthesis; fenced: the text of the claim has a code fence in it.
ScopeClaim(n, i, files, fenced) == [kind |-> "scope_claim", id |-> n, issue |-> i, files |-> files, fenced |-> fenced]
PlainNote(n) == [kind |-> "note", id |-> n, fenced |-> FALSE]
SynthesisRequest(n, i) == [kind |-> "synthesis_request", id |-> n, issue |-> i, fenced |-> FALSE]

Idle == [at |-> "idle"]
Stores == {"file", "issue"}

MailInit ==
  /\ inboxFile = << <<>> >> /\ comments = <<>>
  /\ sending = [a \in Agents |-> Idle]
  /\ delivered = {} /\ torn = FALSE /\ sent = 0

-----------------------------------------------------------------------------
(* Reading.  An inbox is the set of its messages, each with its place, or   *)
(* an error.  Whether a read succeeds is settled anew at every question:    *)
(* `up` says that the file opens, or that gh answers with what parses.      *)

Read(mail) == [ok |-> TRUE, mail |-> mail]
Unreadable == [ok |-> FALSE, mail |-> {}]
Placed(place, m) == [place |-> place, msg |-> m]

\* One line that holds anything but one message fails the whole file; blank lines are skipped.
ReadJsonl(ls, up) ==
  IF ~ up \/ \E i \in DOMAIN ls : Len(ls[i]) > 1 THEN Unreadable
  ELSE Read({Placed(i, ls[i][1]) : i \in {j \in DOMAIN ls : ls[j] # <<>>}})

\* The fenced block of a comment ends at the first fence in it; what does not parse is skipped.
ExtractMail(c) == c.kind # "chatter" /\ ~ c.fenced

ListComments(cs, up) ==
  IF ~ up THEN Unreadable
  ELSE Read({Placed(i, cs[i]) : i \in {j \in DOMAIN cs : ExtractMail(cs[j])}})

All(store, up) == IF store = "file" THEN ReadJsonl(inboxFile, up) ELSE ListComments(comments, up)

\* `kind` is a tag, or "any"; the cut-off of --since is left out.
Inbox(store, kind, up) ==
  IF All(store, up).ok THEN Read({e \in All(store, up).mail : kind \in {"any", e.msg.kind}}) ELSE Unreadable

\* The claims on an issue; an inbox that cannot be read has none, and so the two
\* questions below are answered as if nobody had claimed anything.
Claims(store, i, up) == {e \in Inbox(store, "scope_claim", up).mail : e.msg.issue = i}

First(entries) == CHOOSE e \in entries : \A o \in entries : e.place <= o.place

Clear == <<>>

\* The first claim on the issue that has a candidate file decides.
CheckScope(store, i, candidates, up) ==
  LET hits == {e \in Claims(store, i, up) : e.msg.files \cap candidates # {}}
      hit == First(hits).msg
  IN  IF hits = {} THEN Clear ELSE <<hit.id, hit.files \cap candidates>>

\* What run_cycle asks: any claim on the issue, whatever its files.
CheckScopeOverlap(store, i, up) ==
  IF Claims(store, i, up) = {} THEN Clear ELSE <<First(Claims(store, i, up)).msg.id>>

-----------------------------------------------------------------------------
(* Sending.                                                                *)

\* A fence matters on the sentinel issue only.
Fences(store) == IF store = "issue" THEN BOOLEAN ELSE {FALSE}

Messages(store) ==
  LET n == sent + 1
  IN  {ScopeClaim(n, i, fs, f) : i \in MailIssues, fs \in SUBSET ClaimedFiles, f \in Fences(store)}
        \cup {PlainNote(n)} \cup {SynthesisRequest(n, i) : i \in MailIssues}

Send(a, store, m) ==
  /\ sending[a] = Idle /\ sent < MaxSends
  /\ sent' = sent + 1
  /\ sending' = [sending EXCEPT ![a] = [at |-> store, msg |-> m]]
  /\ UNCHANGED <<inboxFile, comments, delivered, torn>>

WriteMessage(a) ==
  /\ sending[a].at = "file"
  /\ inboxFile' = [inboxFile EXCEPT ![Len(inboxFile)] = Append(@, sending[a].msg)]
  /\ torn' = (torn \/ \E b \in Agents : sending[b].at = "newline")
  /\ sending' = [sending EXCEPT ![a].at = "newline"]
  /\ UNCHANGED <<comments, delivered, sent>>

Returns(a, store) ==
  /\ sending' = [sending EXCEPT ![a] = Idle]
  /\ delivered' = delivered \cup {<<store, sending[a].msg>>}

\* Mutant: write for writeln, so that no message ends its line.
WriteNewlineNever(a) ==
  /\ sending[a].at = "newline"
  /\ Returns(a, "file")
  /\ UNCHANGED <<inboxFile, comments, torn, sent>>

WriteNewline(a) ==
  /\ sending[a].at = "newline"
  /\ inboxFile' = Append(inboxFile, <<>>)
  /\ Returns(a, "file")
  /\ UNCHANGED <<comments, torn, sent>>

\* The process dies, or the disk is full, before or between the writes.
SenderDies(a) ==
  /\ sending[a] # Idle
  /\ sending' = [sending EXCEPT ![a] = Idle]
  /\ torn' = (torn \/ sending[a].at = "newline")
  /\ UNCHANGED <<inboxFile, comments, delivered, sent>>

PostComment(a) ==
  /\ sending[a].at = "issue"
  /\ comments' = Append(comments, sending[a].msg)
  /\ Returns(a, "issue")
  /\ UNCHANGED <<inboxFile, torn, sent>>

\* gh reports a failure for a comment that was posted.
PostUnreported(a) ==
  /\ sending[a].at = "issue"
  /\ comments' = Append(comments, sending[a].msg)
  /\ sending' = [sending EXCEPT ![a] = Idle]
  /\ UNCHANGED <<inboxFile, delivered, torn, sent>>

PersonComments ==
  /\ sent < MaxSends /\ sent' = sent + 1
  /\ comments' = Append(comments, Chatter)
  /\ UNCHANGED <<inboxFile, sending, delivered, torn>>

MailNext ==
  \/ \E a \in Agents :
       \/ \E store \in Stores : \E m \in Messages(store) : Send(a, store, m)
       \/ WriteMessage(a) \/ WriteNewline(a) \/ SenderDies(a) \/ PostComment(a) \/ PostUnreported(a)
  \/ PersonComments

MailSpec == MailInit /\ [][MailNext]_mailVars

-----------------------------------------------------------------------------
(* Properties.                                                             *)

Legible(store, m) == IF store = "file" THEN ~ torn ELSE ~ m.fenced

\* A claim whose send returned is reported to whoever asks for its issue with one of its
\* files, and defers the issue in run_cycle, however many notes, people's comments, failed
\* sends and other claims there are, exactly when the read succeeds: in the file as long as
\* no two sends overlapped and none was cut off, on the sentinel issue unless the text of
\* the claim has a fence.  A read that fails is answered Clear (dedup.rs), claim or not.
ClaimIsSeen ==
  \A d \in delivered :
    LET m == d[2] IN
      m.kind = "scope_claim" /\ Legible(d[1], m) =>
        \A up \in BOOLEAN :
          /\ (CheckScopeOverlap(d[1], m.issue, up) # Clear) <=> up
          /\ \A f \in m.files : (CheckScope(d[1], m.issue, {f}, up) # Clear) <=> up
=============================================================================
