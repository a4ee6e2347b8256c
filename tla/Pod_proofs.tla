----------------------------- MODULE Pod_proofs -----------------------------
(***************************************************************************)
(* Safety of the pod commands for any sessions, names, processes and       *)
(* hazards: what ensure-session types after its launch goes to a Claude    *)
(* that was up when it was seen ready.                                     *)
(***************************************************************************)
EXTENDS Pod, TLAPS

-----------------------------------------------------------------------------
(* The inductive invariant.                                                *)

HostOK ==
  /\ pane \in [Sessions -> Panes] /\ rc \subseteq Sessions
  /\ cloned \subseteq Projects /\ upsets \in 0..MaxUpsets

MindOK ==
  /\ step \in [Procs -> Steps]
  /\ cmd \in [Procs -> AllCommands \cup {Nobody}]
  /\ cur \in [Procs -> Sessions \cup {Nobody}]
  /\ todo \in [Procs -> SUBSET Sessions]
  /\ seen \in [Procs -> [Sessions -> Healths \cup {"unseen"}]]
  /\ fresh \in [Procs -> SUBSET Projects]
  /\ lost \subseteq Procs

\* The session that a process is busy with is one, and it provisions projects.
Minds(k) ==
  /\ step[k] \in Ready \cup {"look", "create", "launch", "wait", "relaunch"}
       => cur[k] \in Sessions
  /\ step[k] \in {"make", "boot"} => cur[k] \in Projects
  /\ step[k] \in {"provision", "make", "boot"} => todo[k] \subseteq Projects

IsReady(k) == step[k] \in Ready => pane[cur[k]] \in Claude \/ k \in lost

PodInv == HostOK /\ MindOK /\ \A k \in Procs : Minds(k) /\ IsReady(k)

-----------------------------------------------------------------------------

LEMMA InitPodInv == ASSUME PodAssumption, PodInit PROVE PodInv
BY DEF PodAssumption, PodInit, PodInv, HostOK, MindOK, Minds, IsReady, Panes,
   Steps, Ready, NoneSeen

\* Whatever is typed, a pane stays one of the kinds of panes.
LEMMA EffectTypes ==
  /\ Launched \in [Panes -> SUBSET Panes]
  /\ Exited \in [Panes -> SUBSET Panes]
  /\ Prompted \in [Panes -> SUBSET Panes]
<1>1. Launched \in [Panes -> SUBSET Panes] BY DEF Launched, Panes, Claude
<1>2. Exited \in [Panes -> SUBSET Panes] BY DEF Exited, Panes
<1>3. Prompted \in [Panes -> SUBSET Panes] BY DEF Prompted, Panes
<1> QED BY <1>1, <1>2, <1>3

LEMMA TargetsAreSessions ==
  ASSUME PodAssumption, NEW s \in Sessions
  PROVE  Target(s) \subseteq Sessions
BY DEF Target, Live, PodAssumption

-----------------------------------------------------------------------------
(* A step of the host is sound when it keeps the types and marks whoever   *)
(* loses the Claude it had found ready.                                    *)

Marked(s) == pane[s] \in Claude /\ pane'[s] \notin Claude => Misled(s) \subseteq lost'

HostStep == HostOK' /\ \A s \in Sessions : Marked(s)

\* A sound step of the host in which no process forgets that it is lost.
LEMMA TypeSound ==
  ASSUME PodAssumption, PodInv, NEW s \in Sessions,
         NEW effect \in [Panes -> SUBSET Panes], Type(s, effect)
  PROVE  HostStep /\ lost \subseteq lost' /\ lost' \subseteq Procs
<1>0. PICK t \in Target(s) : \E p \in effect[pane[t]] :
        /\ pane' = [pane EXCEPT ![t] = p]
        /\ lost' = IF pane[t] \in Claude /\ p \notin Claude
                   THEN lost \cup Misled(t) ELSE lost
        /\ UNCHANGED <<rc, cloned, upsets>>
  BY DEF Type
<1>1. PICK p \in effect[pane[t]] :
        /\ pane' = [pane EXCEPT ![t] = p]
        /\ lost' = IF pane[t] \in Claude /\ p \notin Claude
                   THEN lost \cup Misled(t) ELSE lost
        /\ UNCHANGED <<rc, cloned, upsets>>
  BY <1>0
<1>2. t \in Sessions BY TargetsAreSessions
<1>3. p \in Panes BY <1>2 DEF PodInv, HostOK
<1>4. HostOK' BY <1>1, <1>2, <1>3 DEF PodInv, HostOK
<1>5. ASSUME NEW q \in Sessions PROVE Marked(q)
  BY <1>1, <1>2 DEF Marked, PodInv, HostOK
<1>6. lost \subseteq lost' /\ lost' \subseteq Procs
  BY <1>1 DEF PodInv, MindOK, Misled
<1> QED BY <1>4, <1>5, <1>6 DEF HostStep

\* A call that fails leaves every pane as it is.
LEMMA FailureSound ==
  ASSUME PodAssumption, PodInv, NEW s \in Sessions,
         TypingFails(s) \/ TmuxFails \/ UNCHANGED host
  PROVE  HostStep /\ pane' = pane
BY DEF TypingFails, TmuxFails, Upset, host, HostStep, HostOK, Marked, PodInv,
   PodAssumption

-----------------------------------------------------------------------------
(* A step of a process is sound when only its own mind changes, and holds  *)
(* what its next step needs.                                               *)

Others(k) ==
  \A j \in Procs \ {k} :
    /\ step'[j] = step[j] /\ cur'[j] = cur[j] /\ todo'[j] = todo[j]
    /\ j \in lost => j \in lost'

LEMMA SoundStep ==
  ASSUME PodAssumption, PodInv, NEW k \in Procs, HostStep, MindOK', Others(k),
         Minds(k)', IsReady(k)'
  PROVE  PodInv'
<1>1. ASSUME NEW j \in Procs \ {k} PROVE Minds(j)'
  BY <1>1 DEF Others, Minds, PodInv
<1>2. ASSUME NEW j \in Procs \ {k} PROVE IsReady(j)'
  BY <1>2 DEF Others, IsReady, Minds, HostStep, Marked, Misled, PodInv
<1> QED BY <1>1, <1>2 DEF HostStep, PodInv

LEMMA QuitSound ==
  ASSUME PodAssumption, PodInv, NEW k \in Procs, HostStep, Quit(k)
  PROVE  PodInv'
<1>1. step' = [step EXCEPT ![k] = "off"] BY DEF Quit, Continue
<1>2. MindOK'
  BY <1>1 DEF Quit, MindOK, PodInv, Steps, Ready, NoneSeen
<1>3. Others(k) BY <1>1 DEF Others, Quit, PodInv, MindOK
<1>4. Minds(k)' /\ IsReady(k)' BY <1>1 DEF Minds, IsReady, Ready, PodInv, MindOK
<1> QED BY <1>2, <1>3, <1>4, SoundStep

\* A command ends because a call to tmux fails, or because it is done.
LEMMA FailAndQuit ==
  ASSUME PodAssumption, PodInv, NEW k \in Procs, NEW s \in Sessions, Quit(k),
         TypingFails(s) \/ TmuxFails \/ UNCHANGED host
  PROVE  PodInv'
BY FailureSound, QuitSound

\* A process goes on to another step, the host as it was.
LEMMA GoesOn ==
  ASSUME PodAssumption, PodInv, NEW k \in Procs, NEW where \in Steps,
         Continue(k, where), UNCHANGED mind, lost \subseteq lost', lost' \subseteq Procs
  PROVE  /\ MindOK' /\ Others(k)
         /\ step'[k] = where /\ cur'[k] = cur[k] /\ todo'[k] = todo[k]
<1>1. step' = [step EXCEPT ![k] = where] BY DEF Continue
<1>2. MindOK' BY <1>1 DEF MindOK, PodInv, mind
<1>3. Others(k) BY <1>1 DEF Others, mind, PodInv, MindOK
<1> QED BY <1>1, <1>2, <1>3 DEF mind, PodInv, MindOK

-----------------------------------------------------------------------------
(* ensure-session.                                                         *)

LEMMA LookSound ==
  ASSUME PodAssumption, PodInv, NEW k \in Procs, EnsureLook(k)
  PROVE  PodInv'
<1>1. step[k] = "look" /\ cur[k] \in Sessions BY DEF EnsureLook, PodInv, Minds
<1>2. CASE Quit(k) /\ (TmuxFails \/ UNCHANGED host) BY <1>1, <1>2, FailAndQuit
<1>3. ASSUME NEW where \in {"create", "launch", "remote"}, Continue(k, where),
             UNCHANGED <<host, mind>>, lost \subseteq lost', lost' \subseteq Procs,
             where = "remote" => pane[cur[k]] = "idle" \/ k \in lost'
      PROVE  PodInv'
  <2>1. HostStep BY <1>1, <1>3, FailureSound
  <2>2. where \in Steps BY <1>3 DEF Steps, Ready
  <2>3. /\ MindOK' /\ Others(k)
        /\ step'[k] = where /\ cur'[k] = cur[k] /\ todo'[k] = todo[k]
    BY <1>3, <2>2, GoesOn
  <2>4. pane' = pane BY <1>3 DEF host
  <2>5. Minds(k)' /\ IsReady(k)' BY <1>1, <1>3, <2>3, <2>4 DEF Minds, IsReady, Ready, Claude
  <2> QED BY <2>1, <2>3, <2>5, SoundStep
<1>4. lost \cup {k} \subseteq Procs BY DEF PodInv, MindOK
<1>5. \/ Quit(k) /\ (TmuxFails \/ UNCHANGED host)
      \/ \E where \in {"create", "launch", "remote"} :
           /\ Continue(k, where) /\ UNCHANGED <<host, mind>>
           /\ lost \subseteq lost' /\ lost' \subseteq Procs
           /\ where = "remote" => pane[cur[k]] = "idle" \/ k \in lost'
  BY <1>4 DEF EnsureLook
<1> QED BY <1>2, <1>3, <1>5

\* A new session has no Claude in it yet.
LEMMA CreationSound ==
  ASSUME PodAssumption, PodInv, NEW s \in Sessions, s \notin Live,
         pane' = [pane EXCEPT ![s] = "blank"], UNCHANGED <<rc, cloned, upsets>>
  PROVE  HostStep
<1>1. HostOK' BY DEF PodInv, HostOK, Panes
<1>2. ASSUME NEW q \in Sessions PROVE Marked(q)
  BY DEF Marked, Live, Claude, PodInv, HostOK
<1> QED BY <1>1, <1>2 DEF HostStep

LEMMA CreateSound ==
  ASSUME PodAssumption, PodInv, NEW k \in Procs, EnsureCreate(k)
  PROVE  PodInv'
<1>1. step[k] = "create" /\ cur[k] \in Sessions BY DEF EnsureCreate, PodInv, Minds
<1>2. CASE Quit(k) /\ (TmuxFails \/ UNCHANGED host) BY <1>1, <1>2, FailAndQuit
<1>3. CASE /\ cur[k] \notin Live /\ pane' = [pane EXCEPT ![cur[k]] = "blank"]
           /\ Continue(k, "launch") /\ UNCHANGED <<rc, cloned, upsets, mind, lost>>
  <2>1. HostStep BY <1>1, <1>3, CreationSound
  <2>2. lost' \subseteq Procs BY <1>3 DEF PodInv, MindOK
  <2>3. /\ MindOK' /\ Others(k)
        /\ step'[k] = "launch" /\ cur'[k] = cur[k] /\ todo'[k] = todo[k]
    BY <1>3, <2>2, GoesOn DEF Steps
  <2>4. Minds(k)' /\ IsReady(k)' BY <1>1, <2>3 DEF Minds, IsReady, Ready
  <2> QED BY <2>1, <2>3, <2>4, SoundStep
<1> QED BY <1>2, <1>3 DEF EnsureCreate

LEMMA LaunchSound ==
  ASSUME PodAssumption, PodInv, NEW k \in Procs, EnsureLaunch(k)
  PROVE  PodInv'
<1>1. step[k] = "launch" /\ cur[k] \in Sessions BY DEF EnsureLaunch, PodInv, Minds
<1>2. CASE TypingFails(cur[k]) /\ Quit(k) BY <1>1, <1>2, FailAndQuit
<1>3. CASE Type(cur[k], Launched) /\ Continue(k, "wait") /\ UNCHANGED mind
  <2>1. HostStep /\ lost \subseteq lost' /\ lost' \subseteq Procs
    BY <1>1, <1>3, TypeSound, EffectTypes
  <2>2. /\ MindOK' /\ Others(k)
        /\ step'[k] = "wait" /\ cur'[k] = cur[k] /\ todo'[k] = todo[k]
    BY <1>3, <2>1, GoesOn DEF Steps
  <2>3. Minds(k)' /\ IsReady(k)' BY <1>1, <2>2 DEF Minds, IsReady, Ready
  <2> QED BY <2>1, <2>2, <2>3, SoundStep
<1> QED BY <1>2, <1>3 DEF EnsureLaunch

LEMMA WaitSound ==
  ASSUME PodAssumption, PodInv, NEW k \in Procs, EnsureWait(k)
  PROVE  PodInv'
<1>1. step[k] = "wait" /\ cur[k] \in Sessions BY DEF EnsureWait, PodInv, Minds
<1>2. UNCHANGED host BY DEF EnsureWait
<1>3. CASE Quit(k) BY <1>1, <1>2, <1>3, FailAndQuit
<1>4. CASE /\ Continue(k, "remote") /\ UNCHANGED mind
           /\ lost' = IF pane[cur[k]] = "idle" THEN lost ELSE lost \cup {k}
  <2>1. HostStep BY <1>1, <1>2, FailureSound
  <2>2. lost \subseteq lost' /\ lost' \subseteq Procs BY <1>4 DEF PodInv, MindOK
  <2>3. /\ MindOK' /\ Others(k)
        /\ step'[k] = "remote" /\ cur'[k] = cur[k] /\ todo'[k] = todo[k]
    BY <1>4, <2>2, GoesOn DEF Steps, Ready
  <2>4. Minds(k)' /\ IsReady(k)'
    BY <1>1, <1>2, <1>4, <2>3 DEF Minds, IsReady, Ready, Claude, host
  <2> QED BY <2>1, <2>3, <2>4, SoundStep
<1> QED BY <1>3, <1>4 DEF EnsureWait

\* Remote Control is looked for, switched on, and then comes --then.
LEMMA RemoteSound ==
  ASSUME PodAssumption, PodInv, NEW k \in Procs, EnsureRemote(k)
  PROVE  PodInv'
<1>1. step[k] = "remote" /\ cur[k] \in Sessions
  BY DEF EnsureRemote, PodInv, Minds, Ready
<1>2. HostStep /\ pane' = pane BY <1>1, FailureSound DEF EnsureRemote
<1>3. PICK where \in {"enable", "then"} : Continue(k, where)
  BY DEF EnsureRemote
<1>4. /\ MindOK' /\ Others(k)
      /\ step'[k] = where /\ cur'[k] = cur[k] /\ todo'[k] = todo[k]
  <2>1. lost' = lost /\ UNCHANGED mind /\ lost \subseteq Procs
    BY DEF EnsureRemote, PodInv, MindOK
  <2> QED BY <1>3, <2>1, GoesOn DEF Steps, Ready
<1>5. Minds(k)' /\ IsReady(k)'
  BY <1>1, <1>2, <1>3, <1>4 DEF EnsureRemote, Minds, IsReady, Ready, PodInv
<1> QED BY <1>2, <1>4, <1>5, SoundStep

LEMMA EnableSound ==
  ASSUME PodAssumption, PodInv, NEW k \in Procs, EnsureEnable(k)
  PROVE  PodInv'
<1>1. step[k] = "enable" /\ cur[k] \in Sessions
  BY DEF EnsureEnable, PodInv, Minds, Ready
<1>2. CASE TypingFails(cur[k]) /\ Quit(k) BY <1>1, <1>2, FailAndQuit
<1>3. CASE \E t \in Target(cur[k]) :
             /\ rc' = IF pane[t] \in Claude THEN rc \cup {t} ELSE rc
             /\ Continue(k, "then")
             /\ UNCHANGED <<pane, cloned, upsets, mind, lost>>
  <2>1. HostOK' BY <1>1, <1>3, TargetsAreSessions DEF HostOK, PodInv
  <2>2. HostStep BY <1>3, <2>1 DEF HostStep, Marked
  <2>3. lost' = lost /\ lost \subseteq Procs BY <1>3 DEF PodInv, MindOK
  <2>4. /\ MindOK' /\ Others(k)
        /\ step'[k] = "then" /\ cur'[k] = cur[k] /\ todo'[k] = todo[k]
    BY <1>3, <2>3, GoesOn DEF Steps, Ready
  <2>5. Minds(k)' /\ IsReady(k)'
    BY <1>1, <1>3, <2>4 DEF Minds, IsReady, Ready, PodInv
  <2> QED BY <2>2, <2>4, <2>5, SoundStep
<1> QED BY <1>2, <1>3 DEF EnsureEnable

LEMMA ThenSound ==
  ASSUME PodAssumption, PodInv, NEW k \in Procs, EnsureThen(k)
  PROVE  PodInv'
<1>1. cur[k] \in Sessions /\ Quit(k) BY DEF EnsureThen, PodInv, Minds, Ready
<1>2. CASE TypingFails(cur[k]) \/ UNCHANGED host BY <1>1, <1>2, FailAndQuit
<1>3. CASE /\ \E t \in Target(cur[k]) : \E p \in Prompted[pane[t]] :
                pane' = [pane EXCEPT ![t] = p]
           /\ UNCHANGED <<rc, cloned, upsets>>
  <2>1. PICK t \in Target(cur[k]) : \E p \in Prompted[pane[t]] :
          pane' = [pane EXCEPT ![t] = p]
    BY <1>3
  <2>2. t \in Sessions /\ pane[t] \in Panes
    BY <1>1, TargetsAreSessions DEF PodInv, HostOK
  <2>3. pane' = [pane EXCEPT ![t] = IF pane[t] = "idle" THEN "working" ELSE pane[t]]
    BY <2>1, <2>2 DEF Prompted
  <2>4. HostOK' BY <1>3, <2>2, <2>3 DEF HostOK, PodInv, Panes
  <2>5. \A s \in Sessions : Marked(s)
    BY <2>2, <2>3 DEF Marked, Claude, PodInv, HostOK
  <2> QED BY <1>1, <2>4, <2>5, QuitSound DEF HostStep
<1> QED BY <1>2, <1>3 DEF EnsureThen

-----------------------------------------------------------------------------
(* The loops of heal and save-state.                                       *)

LEMMA ProvisionSound ==
  ASSUME PodAssumption, PodInv, NEW k \in Procs, Provision(k)
  PROVE  PodInv'
<1>1. step[k] = "provision" /\ todo[k] \subseteq Projects /\ Projects \subseteq Sessions
  BY DEF Provision, PodInv, Minds, PodAssumption
<1>2. PICK s \in todo[k] :
        /\ todo' = [todo EXCEPT ![k] = @ \ {s}]
        /\ \/ UNCHANGED <<cloned, cur, step>>
           \/ /\ cloned' = cloned \cup {s}
              /\ \/ UNCHANGED <<cur, step>>
                 \/ cur' = [cur EXCEPT ![k] = s] /\ Continue(k, "make")
  BY DEF Provision
<1>3. HostStep
  BY <1>1, <1>2 DEF Provision, HostStep, HostOK, Marked, PodInv
<1>4. /\ todo' \in [Procs -> SUBSET Sessions] /\ todo'[k] \subseteq Projects
      /\ \A j \in Procs \ {k} : todo'[j] = todo[j]
  BY <1>1, <1>2 DEF PodInv, MindOK
<1>5. UNCHANGED <<cmd, seen, fresh, lost>> BY DEF Provision
<1>6. CASE UNCHANGED <<cur, step>>
  <2>1. MindOK' BY <1>4, <1>5, <1>6 DEF MindOK, PodInv
  <2>2. Others(k) BY <1>4, <1>5, <1>6 DEF Others
  <2>3. Minds(k)' /\ IsReady(k)' BY <1>1, <1>4, <1>6 DEF Minds, IsReady, Ready
  <2> QED BY <1>3, <2>1, <2>2, <2>3, SoundStep
<1>7. CASE cur' = [cur EXCEPT ![k] = s] /\ Continue(k, "make")
  <2>1. step' = [step EXCEPT ![k] = "make"] BY <1>7 DEF Continue
  <2>2. MindOK' BY <1>1, <1>4, <1>5, <1>7, <2>1 DEF MindOK, PodInv, Steps
  <2>3. Others(k) BY <1>4, <1>5, <1>7, <2>1 DEF Others, PodInv, MindOK
  <2>4. Minds(k)' /\ IsReady(k)'
    BY <1>1, <1>4, <1>7, <2>1 DEF Minds, IsReady, Ready, PodInv, MindOK
  <2> QED BY <1>3, <2>2, <2>3, <2>4, SoundStep
<1> QED BY <1>2, <1>6, <1>7

LEMMA MakeSound ==
  ASSUME PodAssumption, PodInv, NEW k \in Procs, ProvisionCreate(k)
  PROVE  PodInv'
<1>1. /\ step[k] = "make" /\ cur[k] \in Projects /\ todo[k] \subseteq Projects
      /\ cur[k] \in Sessions
  BY DEF ProvisionCreate, PodInv, Minds, PodAssumption
<1>2. UNCHANGED <<cmd, todo, seen, fresh, lost>> BY DEF ProvisionCreate, mind
<1>3. CASE /\ cur[k] \notin Live
           /\ pane' = [pane EXCEPT ![cur[k]] = "blank"] /\ Continue(k, "boot")
           /\ UNCHANGED <<rc, cloned, upsets, mind, lost>>
  <2>1. HostStep BY <1>1, <1>3, CreationSound
  <2>2. lost' \subseteq Procs BY <1>2 DEF PodInv, MindOK
  <2>3. /\ MindOK' /\ Others(k)
        /\ step'[k] = "boot" /\ cur'[k] = cur[k] /\ todo'[k] = todo[k]
    BY <1>3, <2>2, GoesOn DEF Steps
  <2>4. Minds(k)' /\ IsReady(k)' BY <1>1, <2>3 DEF Minds, IsReady, Ready
  <2> QED BY <2>1, <2>3, <2>4, SoundStep
<1>4. CASE /\ UNCHANGED host \/ TmuxFails
           /\ cur' = [cur EXCEPT ![k] = Nobody] /\ Continue(k, "provision")
  <2>1. HostStep BY <1>1, <1>4, FailureSound
  <2>2. step' = [step EXCEPT ![k] = "provision"] BY <1>4 DEF Continue
  <2>3. MindOK' BY <1>2, <1>4, <2>2 DEF MindOK, PodInv, Steps
  <2>4. Others(k) BY <1>2, <1>4, <2>2 DEF Others, PodInv, MindOK
  <2>5. Minds(k)' /\ IsReady(k)'
    BY <1>1, <1>2, <2>2 DEF Minds, IsReady, Ready, PodInv, MindOK
  <2> QED BY <2>1, <2>3, <2>4, <2>5, SoundStep
<1> QED BY <1>3, <1>4 DEF ProvisionCreate

LEMMA BootSound ==
  ASSUME PodAssumption, PodInv, NEW k \in Procs, ProvisionLaunch(k)
  PROVE  PodInv'
<1>1. /\ step[k] = "boot" /\ cur[k] \in Projects /\ todo[k] \subseteq Projects
      /\ cur[k] \in Sessions
  BY DEF ProvisionLaunch, PodInv, Minds, PodAssumption
<1>2. /\ step' = [step EXCEPT ![k] = "provision"] /\ UNCHANGED <<cmd, todo, seen>>
      /\ cur' = [cur EXCEPT ![k] = Nobody]
  BY DEF ProvisionLaunch, Continue
<1>3. /\ HostStep /\ lost \subseteq lost' /\ lost' \subseteq Procs
      /\ fresh' \in [Procs -> SUBSET Projects]
  <2>1. CASE Type(cur[k], Launched) /\ fresh' = [fresh EXCEPT ![k] = @ \cup {cur[k]}]
    <3>1. HostStep /\ lost \subseteq lost' /\ lost' \subseteq Procs
      BY <1>1, <2>1, TypeSound, EffectTypes
    <3>2. fresh' \in [Procs -> SUBSET Projects] BY <1>1, <2>1 DEF PodInv, MindOK
    <3> QED BY <3>1, <3>2
  <2>2. CASE TypingFails(cur[k]) /\ UNCHANGED <<fresh, lost>>
    BY <1>1, <2>2, FailureSound DEF PodInv, MindOK
  <2> QED BY <2>1, <2>2 DEF ProvisionLaunch
<1>4. MindOK' BY <1>2, <1>3 DEF MindOK, PodInv, Steps
<1>5. Others(k) BY <1>2, <1>3 DEF Others, PodInv, MindOK
<1>6. Minds(k)' /\ IsReady(k)'
  BY <1>1, <1>2 DEF Minds, IsReady, Ready, PodInv, MindOK
<1> QED BY <1>3, <1>4, <1>5, <1>6, SoundStep

\* What a loop over diagnosed sessions has left, and where it is.
LEMMA EndProvisionSound ==
  ASSUME PodAssumption, PodInv, NEW k \in Procs, EndProvision(k)
  PROVE  PodInv'
<1>1. HostStep BY DEF EndProvision, host, HostStep, HostOK, Marked, PodInv
<1>2. step' = [step EXCEPT ![k] = "capture"] BY DEF EndProvision, Continue
<1>3. /\ todo' \in [Procs -> SUBSET Sessions]
      /\ \A j \in Procs \ {k} : todo'[j] = todo[j]
  BY DEF EndProvision, PodInv, MindOK, Listed, Live
<1>4. UNCHANGED <<cmd, cur, seen, fresh, lost>> BY DEF EndProvision
<1>5. MindOK' BY <1>2, <1>3, <1>4 DEF MindOK, PodInv, Steps
<1>6. Others(k) BY <1>2, <1>3, <1>4 DEF Others, PodInv, MindOK
<1>7. Minds(k)' /\ IsReady(k)' BY <1>2 DEF Minds, IsReady, Ready, PodInv, MindOK
<1> QED BY <1>1, <1>5, <1>6, <1>7, SoundStep

LEMMA CaptureSound ==
  ASSUME PodAssumption, PodInv, NEW k \in Procs, Capture(k)
  PROVE  PodInv'
<1>1. step[k] = "capture" /\ todo[k] \subseteq Sessions BY DEF Capture, PodInv, MindOK
<1>2. CASE (\E s \in todo[k] : TypingFails(s)) /\ Quit(k) BY <1>1, <1>2, FailAndQuit
<1>3. CASE /\ \E s \in todo[k] : \E t \in Target(s) : \E h \in Shows(pane[t]) :
                /\ seen' = [seen EXCEPT ![k][s] = h]
                /\ todo' = [todo EXCEPT ![k] = @ \ {s}]
           /\ UNCHANGED <<host, step, cmd, cur, fresh, lost>>
  <2>1. PICK s \in todo[k] : \E t \in Target(s) : \E h \in Shows(pane[t]) :
          /\ seen' = [seen EXCEPT ![k][s] = h]
          /\ todo' = [todo EXCEPT ![k] = @ \ {s}]
    BY <1>3
  <2>2. PICK t \in Target(s) : \E h \in Shows(pane[t]) :
          seen' = [seen EXCEPT ![k][s] = h]
    BY <2>1
  <2>3. PICK h \in Shows(pane[t]) : seen' = [seen EXCEPT ![k][s] = h] BY <2>2
  <2>4. pane[t] \in Panes
    BY <1>1, <2>1, TargetsAreSessions DEF PodInv, HostOK
  <2>5. h \in Healths \/ pane[t] = "none" BY <2>4 DEF Shows, Remains, Panes, Claude, Healths
  <2>6. t \in Live BY DEF Target
  <2>7. seen' \in [Procs -> [Sessions -> Healths \cup {"unseen"}]]
    BY <1>1, <2>3, <2>5, <2>6 DEF Live, PodInv, MindOK
  <2>8. /\ todo' \in [Procs -> SUBSET Sessions]
        /\ \A j \in Procs \ {k} : todo'[j] = todo[j]
    BY <2>1 DEF PodInv, MindOK
  <2>9. HostStep BY <1>3 DEF host, HostStep, HostOK, Marked, PodInv
  <2>10. MindOK' BY <1>3, <2>7, <2>8 DEF MindOK, PodInv
  <2>11. Others(k) BY <1>3, <2>8 DEF Others
  <2>12. Minds(k)' /\ IsReady(k)' BY <1>1, <1>3 DEF Minds, IsReady, Ready
  <2> QED BY <2>9, <2>10, <2>11, <2>12, SoundStep
<1> QED BY <1>2, <1>3 DEF Capture

LEMMA EndCaptureSound ==
  ASSUME PodAssumption, PodInv, NEW k \in Procs, EndCapture(k)
  PROVE  PodInv'
<1>1. HostStep BY DEF EndCapture, host, HostStep, HostOK, Marked, PodInv
<1>2. PICK where \in {"restart", "save"} : step' = [step EXCEPT ![k] = where]
  BY DEF EndCapture, Continue
<1>3. /\ todo' \in [Procs -> SUBSET Sessions]
      /\ \A j \in Procs \ {k} : todo'[j] = todo[j]
  BY DEF EndCapture, PodInv, MindOK
<1>4. UNCHANGED <<cmd, cur, seen, fresh, lost>> BY DEF EndCapture
<1>5. MindOK' BY <1>2, <1>3, <1>4 DEF MindOK, PodInv, Steps
<1>6. Others(k) BY <1>2, <1>3, <1>4 DEF Others, PodInv, MindOK
<1>7. Minds(k)' /\ IsReady(k)' BY <1>2 DEF Minds, IsReady, Ready, PodInv, MindOK
<1> QED BY <1>1, <1>5, <1>6, <1>7, SoundStep

LEMMA RestartSound ==
  ASSUME PodAssumption, PodInv, NEW k \in Procs, Restart(k)
  PROVE  PodInv'
<1>1. step[k] = "restart" /\ todo[k] \subseteq Sessions BY DEF Restart, PodInv, MindOK
<1>2. PICK s \in todo[k] :
        /\ todo' = [todo EXCEPT ![k] = @ \ {s}]
        /\ \/ Type(s, Launched)
           \/ TypingFails(s) /\ UNCHANGED lost
           \/ UNCHANGED <<host, lost>>
  BY DEF Restart
<1>3. HostStep /\ lost \subseteq lost' /\ lost' \subseteq Procs
  <2>1. CASE Type(s, Launched) BY <1>1, <2>1, TypeSound, EffectTypes
  <2>2. CASE UNCHANGED lost /\ (TypingFails(s) \/ UNCHANGED host)
    BY <1>1, <2>2, FailureSound DEF PodInv, MindOK
  <2> QED BY <1>2, <2>1, <2>2
<1>4. /\ todo' \in [Procs -> SUBSET Sessions]
      /\ \A j \in Procs \ {k} : todo'[j] = todo[j]
  BY <1>2 DEF PodInv, MindOK
<1>5. UNCHANGED <<step, cmd, cur, seen, fresh>> BY DEF Restart
<1>6. MindOK' BY <1>3, <1>4, <1>5 DEF MindOK, PodInv
<1>7. Others(k) BY <1>3, <1>4, <1>5 DEF Others
<1>8. Minds(k)' /\ IsReady(k)' BY <1>1, <1>5 DEF Minds, IsReady, Ready
<1> QED BY <1>3, <1>6, <1>7, <1>8, SoundStep

LEMMA EndLoopSound ==
  ASSUME PodAssumption, PodInv, NEW k \in Procs, EndLoop(k)
  PROVE  PodInv'
<1>1. HostStep BY DEF EndLoop, host, HostStep, HostOK, Marked, PodInv
<1> QED BY <1>1, QuitSound DEF EndLoop

LEMMA SaveStateSound ==
  ASSUME PodAssumption, PodInv, NEW k \in Procs, SaveState(k)
  PROVE  PodInv'
<1>1. step[k] = "save" /\ todo[k] \subseteq Sessions BY DEF SaveState, PodInv, MindOK
<1>2. PICK s \in todo[k] :
        \/ Quit(k) /\ (TypingFails(s) \/ UNCHANGED host)
        \/ /\ \/ UNCHANGED <<host, lost, cur, step>>
              \/ Type(s, Launched) /\ UNCHANGED <<cur, step>>
              \/ /\ Type(s, Exited) /\ cur' = [cur EXCEPT ![k] = s]
                 /\ Continue(k, "relaunch")
           /\ todo' = [todo EXCEPT ![k] = @ \ {s}]
           /\ UNCHANGED <<cmd, seen, fresh>>
  BY DEF SaveState
<1>3. CASE Quit(k) /\ (TypingFails(s) \/ UNCHANGED host)
  BY <1>1, <1>3, FailAndQuit
<1>4. ASSUME /\ \/ UNCHANGED <<host, lost, cur, step>>
                \/ Type(s, Launched) /\ UNCHANGED <<cur, step>>
                \/ /\ Type(s, Exited) /\ cur' = [cur EXCEPT ![k] = s]
                   /\ Continue(k, "relaunch")
             /\ todo' = [todo EXCEPT ![k] = @ \ {s}]
             /\ UNCHANGED <<cmd, seen, fresh>>
      PROVE  PodInv'
  <2>1. HostStep /\ lost \subseteq lost' /\ lost' \subseteq Procs
    <3>1. CASE UNCHANGED <<host, lost>>
      BY <1>1, <3>1, FailureSound DEF PodInv, MindOK
    <3>2. CASE Type(s, Launched) \/ Type(s, Exited)
      BY <1>1, <3>2, TypeSound, EffectTypes
    <3> QED BY <1>4, <3>1, <3>2
  <2>2. /\ todo' \in [Procs -> SUBSET Sessions]
        /\ \A j \in Procs \ {k} : todo'[j] = todo[j]
    BY <1>4 DEF PodInv, MindOK
  <2>3. \/ UNCHANGED <<cur, step>>
        \/ cur' = [cur EXCEPT ![k] = s] /\ step' = [step EXCEPT ![k] = "relaunch"]
    BY <1>4 DEF Continue
  <2>4. MindOK'
    <3>1. step' \in [Procs -> Steps] BY <2>3 DEF MindOK, PodInv, Steps
    <3>2. cur' \in [Procs -> Sessions \cup {Nobody}]
      BY <1>1, <2>3 DEF MindOK, PodInv
    <3> QED BY <1>4, <2>1, <2>2, <3>1, <3>2 DEF MindOK, PodInv
  <2>5. Others(k) BY <2>1, <2>2, <2>3 DEF Others, PodInv, MindOK
  <2>6. Minds(k)' /\ IsReady(k)'
    BY <1>1, <2>3 DEF Minds, IsReady, Ready, PodInv, MindOK
  <2> QED BY <2>1, <2>4, <2>5, <2>6, SoundStep
<1> QED BY <1>2, <1>3, <1>4

LEMMA RelaunchSound ==
  ASSUME PodAssumption, PodInv, NEW k \in Procs, Relaunch(k)
  PROVE  PodInv'
<1>1. step[k] = "relaunch" /\ cur[k] \in Sessions BY DEF Relaunch, PodInv, Minds
<1>2. CASE TypingFails(cur[k]) /\ Quit(k) BY <1>1, <1>2, FailAndQuit
<1>3. CASE /\ Type(cur[k], Launched) /\ Continue(k, "save")
           /\ cur' = [cur EXCEPT ![k] = Nobody]
           /\ UNCHANGED <<cmd, todo, seen, fresh>>
  <2>1. HostStep /\ lost \subseteq lost' /\ lost' \subseteq Procs
    BY <1>1, <1>3, TypeSound, EffectTypes
  <2>2. step' = [step EXCEPT ![k] = "save"] BY <1>3 DEF Continue
  <2>3. MindOK'
    <3>1. step' \in [Procs -> Steps] BY <2>2 DEF MindOK, PodInv, Steps
    <3>2. cur' \in [Procs -> Sessions \cup {Nobody}] BY <1>3 DEF MindOK, PodInv
    <3> QED BY <1>3, <2>1, <3>1, <3>2 DEF MindOK, PodInv
  <2>4. Others(k) BY <1>3, <2>1, <2>2 DEF Others, PodInv, MindOK
  <2>5. Minds(k)' /\ IsReady(k)' BY <2>2 DEF Minds, IsReady, Ready, PodInv, MindOK
  <2> QED BY <2>1, <2>3, <2>4, <2>5, SoundStep
<1> QED BY <1>2, <1>3 DEF Relaunch

-----------------------------------------------------------------------------
(* Commands begin, and sessions have their own life.                       *)

\* Begun, a command has a session to look after, projects to provision or
\* sessions to diagnose.
LEMMA InvokeSound ==
  ASSUME PodAssumption, PodInv, NEW k \in Procs, NEW c \in AllCommands, Invoke(k, c)
  PROVE  PodInv'
<1>1. /\ cmd' = [cmd EXCEPT ![k] = c] /\ UNCHANGED <<pane, rc, cloned, seen, fresh, lost>>
      /\ upsets' \in 0..MaxUpsets
  BY DEF Invoke, Upset, PodInv, HostOK, PodAssumption
<1>2. HostStep BY <1>1 DEF HostStep, HostOK, Marked, PodInv
<1>3. ASSUME NEW where \in {"look", "provision", "capture"}, NEW q \in Sessions \cup {Nobody},
             NEW rest \in SUBSET Sessions,
             step' = [step EXCEPT ![k] = where], cur' = [cur EXCEPT ![k] = q],
             todo' = [todo EXCEPT ![k] = rest],
             where = "look" => q \in Sessions,
             where = "provision" => rest \subseteq Projects
      PROVE  PodInv'
  <2>1. MindOK'
    <3>1. step' \in [Procs -> Steps] BY <1>3 DEF PodInv, MindOK, Steps
    <3>2. /\ cur' \in [Procs -> Sessions \cup {Nobody}]
          /\ todo' \in [Procs -> SUBSET Sessions]
      BY <1>3 DEF PodInv, MindOK
    <3>3. cmd' \in [Procs -> AllCommands \cup {Nobody}] BY <1>1 DEF PodInv, MindOK
    <3> QED BY <1>1, <3>1, <3>2, <3>3 DEF PodInv, MindOK
  <2>2. Others(k) BY <1>1, <1>3 DEF Others, PodInv, MindOK
  <2>3. Minds(k)' /\ IsReady(k)' BY <1>3 DEF Minds, IsReady, Ready, PodInv, MindOK
  <2> QED BY <1>2, <2>1, <2>2, <2>3, SoundStep
<1>4. /\ cur = [cur EXCEPT ![k] = cur[k]] /\ cur[k] \in Sessions \cup {Nobody}
      /\ todo = [todo EXCEPT ![k] = todo[k]] /\ todo[k] \in SUBSET Sessions
  BY DEF PodInv, MindOK
<1>5. CASE Continue(k, "look") /\ c.op = "ensure" /\ cur' = [cur EXCEPT ![k] = c.at]
           /\ UNCHANGED todo
  <2>1. c.at \in Sessions BY <1>5 DEF AllCommands, EnsureCommands, PodAssumption
  <2> QED BY <1>3, <1>4, <1>5, <2>1 DEF Continue
<1>6. CASE Continue(k, "provision") /\ c.op = "heal" /\ UNCHANGED cur
           /\ todo' = [todo EXCEPT ![k] = Provisioned(c.at)]
  <2>1. c.at \in Projects \cup {AllSessions} BY <1>6 DEF AllCommands, EnsureCommands
  <2>2. Provisioned(c.at) \subseteq Projects BY <2>1 DEF Provisioned
  <2>3. Provisioned(c.at) \in SUBSET Sessions BY <2>2 DEF PodAssumption
  <2> QED BY <1>3, <1>4, <1>6, <2>2, <2>3 DEF Continue
<1>7. CASE Continue(k, "capture") /\ todo' = [todo EXCEPT ![k] = Listed(c.at)]
           /\ UNCHANGED cur
  <2>1. Listed(c.at) \in SUBSET Sessions BY DEF Listed, Live
  <2> QED BY <1>3, <1>4, <1>7, <2>1 DEF Continue
<1> QED BY <1>5, <1>6, <1>7 DEF Invoke

\* A session's own step is sound: it marks whoever it disappoints.
LEMMA BecomesSound ==
  ASSUME PodAssumption, PodInv, NEW s \in Sessions, NEW from \in SUBSET Panes,
         NEW to \in Panes, Becomes(s, from, to),
         rc' \subseteq Sessions, upsets' \in 0..MaxUpsets
  PROVE  PodInv'
<1>1. HostOK' BY DEF Becomes, HostOK, PodInv
<1>2. lost \subseteq lost' /\ lost' \subseteq Procs
  BY DEF Becomes, Misled, PodInv, MindOK
<1>3. MindOK' BY <1>2 DEF Becomes, MindOK, mind, PodInv
<1>4. ASSUME NEW k \in Procs PROVE Minds(k)' BY DEF Becomes, Minds, mind, PodInv
<1>5. ASSUME NEW k \in Procs PROVE IsReady(k)'
  BY <1>2 DEF Becomes, IsReady, Minds, Misled, mind, PodInv, HostOK
<1> QED BY <1>1, <1>3, <1>4, <1>5 DEF PodInv

LEMMA SessionSound ==
  ASSUME PodAssumption, PodInv, NEW s \in Sessions,
         \/ PaneMoves(s) \/ ClaudeWorks(s) \/ ClaudeAnswers(s)
         \/ ClaudeDies(s) \/ SessionEnds(s)
  PROVE  PodInv'
<1>1. rc' \subseteq Sessions /\ upsets' \in 0..MaxUpsets
  BY DEF PaneMoves, ShellPrompts, ClaudeStarts, ClaudeExits, ClaudeWorks,
     ClaudeAnswers, ClaudeDies, SessionEnds, Upset, PodInv, HostOK, PodAssumption
<1>2. \E from \in SUBSET Panes : \E to \in Panes : Becomes(s, from, to)
  BY DEF PaneMoves, ShellPrompts, ClaudeStarts, ClaudeExits, ClaudeWorks,
     ClaudeAnswers, ClaudeDies, SessionEnds, Panes, Claude
<1> QED BY <1>1, <1>2, BecomesSound

-----------------------------------------------------------------------------
(* Theorems.                                                               *)

LEMMA NextPodInv ==
  ASSUME PodAssumption, PodInv, [PodNext]_podVars
  PROVE  PodInv'
<1>1. ASSUME NEW k \in Procs, Command(k) PROVE PodInv'
  BY <1>1, LookSound, CreateSound, LaunchSound, WaitSound, RemoteSound,
     EnableSound, ThenSound, ProvisionSound, MakeSound, BootSound,
     EndProvisionSound, CaptureSound, EndCaptureSound, RestartSound,
     EndLoopSound, SaveStateSound, RelaunchSound DEF Command
<1>2. CASE UNCHANGED podVars
  BY <1>2 DEF podVars, host, mind, PodInv, HostOK, MindOK, Minds, IsReady
<1> QED BY <1>1, <1>2, InvokeSound, SessionSound DEF PodNext

LEMMA PodInvImplies ==
  ASSUME PodInv PROVE PodTypeOK /\ EnsureReady
<1>1. PodTypeOK BY DEF PodInv, HostOK, MindOK, PodTypeOK
<1>2. EnsureReady BY DEF PodInv, IsReady, EnsureReady
<1> QED BY <1>1, <1>2

\* Every variable of the pod keeps its type: in particular heal provisions
\* projects of the registry only, whatever sessions have similar names.
THEOREM PodTypeCorrect == PodSpec => []PodTypeOK
<1>1. PodInit => PodInv BY PodAssumption, InitPodInv
<1>2. PodInv /\ [PodNext]_podVars => PodInv' BY PodAssumption, NextPodInv
<1>3. PodInv => PodTypeOK BY PodInvImplies
<1> QED BY <1>1, <1>2, <1>3, PTL DEF PodSpec

\* However the commands interleave and whatever fails, what ensure-session types
\* once it takes its session for ready goes to a running Claude, unless that
\* Claude has ended by then (run_ensure_session, wait_for_idle).
THEOREM ReadyIsReady == PodSpec => []EnsureReady
<1>1. PodInit => PodInv BY PodAssumption, InitPodInv
<1>2. PodInv /\ [PodNext]_podVars => PodInv' BY PodAssumption, NextPodInv
<1>3. PodInv => EnsureReady BY PodInvImplies
<1> QED BY <1>1, <1>2, <1>3, PTL DEF PodSpec
=============================================================================
