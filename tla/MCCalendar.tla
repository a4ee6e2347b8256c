------------------------------ MODULE MCCalendar ----------------------------
(***************************************************************************)
(* Small calendars for the runs of Calendar.                               *)
(***************************************************************************)
EXTENDS Calendar

CalEvent(id, kind, tags, from, to) ==
  [id |-> id, kind |-> kind, tags |-> tags, cid |-> 0,
   start |-> from, end |-> to, orig |-> from]

TagIsName == [r \in CalRepos |-> r]

SecondWaits == [n \in HumanNumbers |-> IF n = 2 THEN 1 ELSE 0]

\* A window with a hole; a window of one's own after somebody else's; two
\* decisions that an earlier run has left, one moved since and its issue closed.
ThreeCalendars ==
  {{CalEvent(1, "window", {}, 0, 5), CalEvent(2, "blocked", {}, 1, 2)},
   {CalEvent(1, "window", {"foo"}, 2, 6), CalEvent(2, "window", {"bar"}, 0, 2)},
   {CalEvent(1, "window", {}, 0, 4),
    [CalEvent(2, "decision", {}, 0, 2) EXCEPT !.cid = 1],
    [CalEvent(3, "decision", {}, 2, 4) EXCEPT !.cid = 3, !.orig = 0]}}
=============================================================================
