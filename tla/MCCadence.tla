----------------------------- MODULE MCCadence ------------------------------
(***************************************************************************)
(* Two repositories on a host for the runs of Cadence.                     *)
(***************************************************************************)
EXTENDS Cadence

\* The mechanism that the second repository is synced with, in a behaviour.
VARIABLE barMech

OneWordTags == [r \in Repos |-> <<r>>]

OneTaskEach == [r \in Repos |-> [t \in Tasks |->
  IF <<r, t>> \in {<<"foo", "orchestrate">>, <<"bar", "idle">>} THEN "hourly" ELSE NoTime]]

Sync(r, mech) == [op |-> "sync", repo |-> r, mech |-> mech]
Removal(r) == [op |-> "remove", repo |-> r]

TwoWriters == [k \in Writers |->
  IF k = "w1"
  THEN {[op |-> "begin", repo |-> "foo", add |-> {"idle"}, mech |-> "crontab"], Removal("foo")}
  ELSE {Sync("bar", "crontab"), Sync("bar", "launchd"), Removal("bar")}]

OneWriter == [k \in Writers |->
  {Sync("foo", "crontab"), Sync("foo", "launchd"), Removal("foo")}]

MCCadInit == CadInit /\ barMech \in {"crontab", "launchd"}

MCCadNext ==
  /\ CadNext
  /\ \A k \in Writers : job'[k] \notin {Sync("bar", m) : m \in {"crontab", "launchd"} \ {barMech}}
  /\ barMech = "crontab" => job'["w2"] # Removal("bar")
  /\ UNCHANGED barMech

\* One repository alone.
MCCadOrphanSpec ==
  CadInit /\ barMech = "crontab" /\ [][CadNext /\ UNCHANGED barMech]_<<cadVars, barMech>>
=============================================================================
