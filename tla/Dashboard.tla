------------------------------ MODULE Dashboard ------------------------------
(***************************************************************************)
(* The dashboard daemon: a poll loop looks at the tmux sessions one by one, *)
(* announces the ones whose health is not the one of the last snapshot, and *)
(* then replaces the snapshot.  Outlets read the snapshot and subscribe to  *)
(* the announcements, and read it again when one arrives.                   *)
(***************************************************************************)
EXTENDS Naturals, Sequences, FiniteSets

CONSTANTS
  PodSessions,  \* names of tmux sessions
  Outlets,      \* clients of the socket
  ChannelCap,   \* SSE_CHANNEL_CAPACITY
  DashHazards   \* "tmuxError", "reconnect"

ASSUME ChannelHolds == ChannelCap \in Nat \ {0}

VARIABLES
  podPanes,  \* markers that a session's pane shows; NoPane when there is none
  snapshot,  \* DashboardState.pod: health of a session, or "absent"
  refresh,   \* [at, todo, taken, told] of the poll loop
  outlet     \* [at, inbox, view, due, after, early, lagged] of a client

dashVars == <<podPanes, snapshot, refresh, outlet>>

NoPane == {"none"}
Markers == {"claude", "busy"}

\* The markers are looked for in this order.  The last line or the marker, which
\* the code's health carries too, is left out.
ClassifyPane(pane) ==
  IF "claude" \notin pane THEN "crashed" ELSE IF "busy" \in pane THEN "working" ELSE "idle"

NothingShown == [s \in PodSessions |-> "absent"]
NoRefresh == [at |-> "none", todo |-> {}, taken |-> NothingShown, told |-> {}]
Offline == [at |-> "off", inbox |-> <<>>, view |-> NothingShown, due |-> FALSE,
            after |-> FALSE, early |-> FALSE, lagged |-> FALSE]

DashInit ==
  /\ podPanes = [s \in PodSessions |-> NoPane] /\ snapshot = NothingShown
  /\ refresh = NoRefresh /\ outlet = [o \in Outlets |-> Offline]

-----------------------------------------------------------------------------
(* The poll loop.                                                          *)

\* No server and no tmux read as no session; any other error ends the refresh.
ListSessions ==
  /\ refresh.at = "none"
  /\ refresh' = [NoRefresh EXCEPT !.at = "look", !.todo = {s \in PodSessions : podPanes[s] # NoPane}]
  /\ UNCHANGED <<podPanes, snapshot, outlet>>

\* The channel is a ring: a receiver that is too far behind loses the oldest.
Receive(o, s) ==
  IF o.at = "off" THEN o
  ELSE IF Len(o.inbox) < ChannelCap THEN [o EXCEPT !.inbox = Append(@, s)]
  ELSE [o EXCEPT !.inbox = Append(Tail(@), s), !.lagged = TRUE]

SendEvent(s) == outlet' = [o \in Outlets |-> Receive(outlet[o], s)]

\* Mutant: a session that the last snapshot does not have is no change.
LookAtKnown(s) ==
  LET health == ClassifyPane(podPanes[s])
  IN  /\ refresh.at = "look" /\ s \in refresh.todo /\ podPanes[s] # NoPane
      /\ IF snapshot[s] \in {health, "absent"}
         THEN /\ refresh' = [refresh EXCEPT !.todo = @ \ {s}, !.taken[s] = health]
              /\ UNCHANGED outlet
         ELSE /\ refresh' = [refresh EXCEPT !.todo = @ \ {s}, !.taken[s] = health, !.told = @ \cup {s}]
              /\ SendEvent(s)
      /\ UNCHANGED <<podPanes, snapshot>>

\* The event goes out at once, the snapshot is replaced when all are looked at.
LookAt(s) ==
  LET health == ClassifyPane(podPanes[s])
  IN  /\ refresh.at = "look" /\ s \in refresh.todo /\ podPanes[s] # NoPane
      /\ IF snapshot[s] = health
         THEN /\ refresh' = [refresh EXCEPT !.todo = @ \ {s}, !.taken[s] = health]
              /\ UNCHANGED outlet
         ELSE /\ refresh' = [refresh EXCEPT !.todo = @ \ {s}, !.taken[s] = health, !.told = @ \cup {s}]
              /\ SendEvent(s)
      /\ UNCHANGED <<podPanes, snapshot>>

\* A session that cannot be diagnosed is left out of the snapshot.
DiagnoseFails(s) ==
  /\ refresh.at = "look" /\ s \in refresh.todo
  /\ podPanes[s] = NoPane \/ "tmuxError" \in DashHazards
  /\ refresh' = [refresh EXCEPT !.todo = @ \ {s}] /\ UNCHANGED <<podPanes, snapshot, outlet>>

WriteSnapshot ==
  /\ refresh.at = "look" /\ refresh.todo = {}
  /\ snapshot' = refresh.taken /\ refresh' = NoRefresh /\ UNCHANGED <<podPanes, outlet>>

-----------------------------------------------------------------------------
(* The outlets, as docs/dashboard-api.md has them (external).              *)

Becomes(o, next) ==
  outlet' = [outlet EXCEPT ![o] = next] /\ UNCHANGED <<podPanes, snapshot, refresh>>

\* GET /events.  The stream has no ids: what was sent before is lost.
HandleSse(o) == outlet[o].at = "off" /\ Becomes(o, [outlet[o] EXCEPT !.at = "on"])

\* GET /state or /pod.  History: whether the outlet had subscribed, and whether
\* a session was announced whose health is not in the snapshot yet.
HandlePod(o) ==
  Becomes(o, [outlet[o] EXCEPT !.view = snapshot, !.due = FALSE, !.after = (outlet[o].at = "on"),
                               !.early = (refresh.told # {})])

\* An event says that the section changed, and the outlet is to read it again.
TakeEvent(o) ==
  /\ outlet[o].inbox # <<>>
  /\ Becomes(o, [outlet[o] EXCEPT !.inbox = Tail(@), !.due = TRUE])

HangUp(o) == "reconnect" \in DashHazards /\ outlet[o].at = "on" /\ Becomes(o, Offline)

\* External: what runs in the sessions.
PaneShows(s) ==
  /\ \E pane \in SUBSET Markers \cup {NoPane} : pane # podPanes[s] /\ podPanes' = [podPanes EXCEPT ![s] = pane]
  /\ UNCHANGED <<snapshot, refresh, outlet>>

DashNext ==
  \/ ListSessions \/ WriteSnapshot
  \/ \E s \in PodSessions : LookAt(s) \/ DiagnoseFails(s) \/ PaneShows(s)
  \/ \E o \in Outlets : HandleSse(o) \/ HandlePod(o) \/ TakeEvent(o) \/ HangUp(o)

DashSpec == DashInit /\ [][DashNext]_dashVars

-----------------------------------------------------------------------------
(* Properties.                                                             *)

\* PodAggregator::refresh and handle_sse: an outlet that has read the pod since
\* it subscribed, and not in the middle of a refresh, and has done what the
\* events told it, shows every session of the snapshot as it is there, whatever
\* came and went in between.  Only sessions that are gone are not announced.
OutletsAreTold ==
  refresh.at = "none" =>
    \A o \in {p \in Outlets : outlet[p].after /\ ~ outlet[p].early /\ ~ outlet[p].lagged} :
      outlet[o].inbox = <<>> /\ ~ outlet[o].due =>
        \A s \in PodSessions : snapshot[s] \in {"absent", outlet[o].view[s]}
=============================================================================
