----------------------------- MODULE WorkLedger -----------------------------
(***************************************************************************)
(* What the orchestrator promises about work, whatever its passes,         *)
(* snapshots, labels, comments and sessions look like: an issue is given   *)
(* to a worker only when nobody works on it and everything it depends on   *)
(* is closed, and a worker that has finished may be followed by another.   *)
(***************************************************************************)
EXTENDS Integers

CONSTANTS Issues, Deps

VARIABLES
  done,   \* closed issues
  load    \* workers on each issue

Init == done = {} /\ load = [i \in Issues |-> 0]

Assign(i) ==
  /\ load[i] = 0 /\ Deps[i] \subseteq done
  /\ load' = [load EXCEPT ![i] = 1]
  /\ UNCHANGED done

Finish(i) ==
  /\ load[i] = 1
  /\ load' = [load EXCEPT ![i] = 0]
  /\ UNCHANGED done

Close(i) ==
  /\ i \notin done
  /\ done' = done \cup {i}
  /\ UNCHANGED load

Next == \E i \in Issues : Assign(i) \/ Finish(i) \/ Close(i)

Spec == Init /\ [][Next]_<<done, load>>
=============================================================================
