------------------------------- MODULE MCPod --------------------------------
(***************************************************************************)
(* A small host for the runs of Pod: one project, whose session name       *)
(* begins the name of a session that the registry does not have.           *)
(***************************************************************************)
EXTENDS Pod

NamePrefixes == [s \in Sessions |-> IF s = "conductr-foo" THEN Sessions \ {s} ELSE {}]

SkillLine == [op: {"ensure"}, at: {"conductr-foo"}, flag: {TRUE}]

ByHand ==
  [op: {"ensure"}, at: {"conductr-foo"}, flag: {FALSE}]
    \cup [op: {"heal"}, at: {"conductr-foo"}, flag: {TRUE}]
    \cup [op: {"heal"}, at: {AllSessions}, flag: {FALSE}]
    \cup [op: {"save"}, at: {AllSessions}, flag: {TRUE}]
=============================================================================
