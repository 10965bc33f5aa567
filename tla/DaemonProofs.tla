------------------------------ MODULE DaemonProofs ------------------------------
(***************************************************************************)
(* Safety of the process life cycle (Startup) for every set of setups, and *)
(* of the generation count of a reload (Reload) for every set of tasks and *)
(* every number of edits and reloads.                                      *)
(*                                                                         *)
(* The inductive invariant of the start, Staged, says for every stage what *)
(* identity the process has by then, what the pipe and the invoking        *)
(* process have seen, who owns the pid file and which tasks may be in the  *)
(* middle of a packet.  That of the reload, Counted, adds the shape of the *)
(* snapshots and that the DHCP loop is never ahead of the generation.      *)
(***************************************************************************)
EXTENDS Startup, Reload, TLAPS

StartupSpec == StartupInit /\ [][StartupNext]_startupVars
ReloadSpec  == ReloadInit /\ [][ReloadNext]_reloadVars

---------------------------------------------------------------------------
(* The start *)

Early  == {"resolve", "bind", "fork", "pid_file", "stdio", "set_groups", "keep_caps", "set_uid",
           "drop_caps", "runtime"}
Live   == {"spawn", "serving", "stopping"}

IsProc(p) == /\ DOMAIN p = {"uid", "gid", "groups", "keep", "effective", "permitted"}
             /\ p = [f \in DOMAIN p |-> p[f]]

\* Started by root to run as somebody else.
Managed == setup.uid = Root /\ ~setup.debug /\ setup.user \notin {NoOne, "root"}

\* The identity has been given up, up to the capabilities.
GroupsShed == proc.gid = RunAs(setup).gid /\ proc.groups = {}

Shed == /\ proc.uid = RunAs(setup).uid /\ GroupsShed
        /\ proc.effective = needed_capabilities(setup) /\ proc.permitted = needed_capabilities(setup)

\* What drop_privileges_with has done by the next stage.
Identity ==
  /\ stage \in {"resolve", "bind", "fork", "pid_file", "stdio", "set_groups"} => proc = StartedAs(setup)
  /\ stage = "fork" => ~setup.debug
  /\ stage \in {"keep_caps", "set_uid", "drop_caps"} /\ Managed => GroupsShed
  /\ stage = "set_uid" => proc.keep = TRUE /\ proc.permitted = needed_capabilities(setup) \cup {"setuid"}
  /\ stage = "drop_caps" => proc.uid = RunAs(setup).uid
  /\ stage \in {"runtime"} \cup Live /\ Managed => Shed

\* The pid file is written before the root identity is given up.
PidOwned ==
  (stage \in (Early \ {"resolve", "bind", "fork", "pid_file"}) \cup Live
     /\ setup.runfile /\ setup.uid = Root /\ ~setup.debug)
    => pidFile = IF setup.user = NoOne THEN Root ELSE RunAs(setup).uid

\* What the invoking process knows.
Reported ==
  /\ stage \in Early => invoker = "waiting" /\ result = "running" /\ pipe \in {"none", "open"}
  /\ stage \in Live => result = "running" /\ pipe \in {"none", "closed"}
  /\ stage = "ended" => result \in {"error", "io_error", "clean"}
  /\ pipe = "message" => invoker = "failure"

\* Only tasks that are waited for are in the middle of a packet.
Handled ==
  /\ stage \in Early \cup Live => handling \subseteq tasks \cap Joined
  /\ result = "clean" => handling = {} /\ tasks = {}

Staged ==
  /\ stage \in Early \cup Live \cup {"ended"}
  /\ stage # "resolve" /\ stage # "ended" => Known(setup.user, PwUid) /\ Known(setup.group, GrGid)
  /\ IsProc(proc) /\ Identity /\ PidOwned /\ Reported /\ Handled

\* The identities the host knows are numbers, and only root's is 0.
LEMMA RunAsFacts ==
  ASSUME Known(setup.user, PwUid), Known(setup.group, GrGid)
  PROVE  /\ setup.user = NoOne => RunAs(setup).uid = NoOne
         /\ setup.user = "root" => RunAs(setup).uid = Root
         /\ setup.user \notin {NoOne, "root"}
              => RunAs(setup).uid = 99 /\ RunAs(setup).gid \in Nat /\ RunAs(setup).gid # NoOne
         /\ NoOne # Root /\ NoOne # 99
<1>1. NoOne # "root" /\ NoOne # 0 /\ NoOne # 99 /\ NoOne # 98 /\ NoOne # 30 /\ NoOne # 65
  BY NoOneAssumption
<1>2. PwUid["root"] = 0 /\ PwUid["dnsmasq"] = 99 /\ DOMAIN PwUid = {"root", "dnsmasq"}
  BY DEF PwUid
<1>3. PwGid["root"] = 0 /\ PwGid["dnsmasq"] = 98
  BY DEF PwGid
<1>4. GrGid["root"] = 0 /\ GrGid["dip"] = 30 /\ GrGid["nobody"] = 65 /\ DOMAIN GrGid = {"root", "dip", "nobody"}
  BY DEF GrGid
<1>5. setup.user \in {NoOne, "root", "dnsmasq"} /\ setup.group \in {NoOne, "root", "dip", "nobody"}
  BY <1>2, <1>4 DEF Known
<1>6. RunAs(setup).uid = IF setup.user = NoOne THEN NoOne ELSE PwUid[setup.user]
  BY DEF RunAs
<1>7. RunAs(setup).gid = RunGid(setup)
  BY DEF RunAs
<1>8. setup.user \notin {NoOne, "root"} => RunGid(setup) \in Nat
  BY <1>3, <1>4, <1>5 DEF RunGid
<1> QED BY <1>1, <1>2, <1>5, <1>6, <1>7, <1>8, NoOneAssumption DEF Root

\* The process is what it was, and the stage moves on.
Forward(next) == stage' = next /\ UNCHANGED <<setup, step, proc, pipe, invoker, pidFile, tasks, handling, result>>

\* An end before the runtime.
LEMMA EarlyEnd ==
  ASSUME Staged, stage \in Early, stage' = "ended", result' = "error",
         pipe' # "message" \/ invoker' = "failure",
         UNCHANGED <<setup, step, proc, pidFile, tasks, handling>>
  PROVE  Staged'
<1>1. IsProc(proc)' /\ Identity'
  BY DEF Staged, IsProc, Identity, Early, Live
<1>2. PidOwned'
  BY DEF PidOwned, Early, Live
<1>3. Reported'
  BY DEF Reported, Early, Live
<1>4. Handled'
  BY DEF Handled, Early, Live
<1> QED BY <1>1, <1>2, <1>3, <1>4 DEF Staged

\* Both ways of failing are such ends.
LEMMA FailStep ==
  ASSUME Staged, stage \in Early, Die \/ Fail
  PROVE  Staged'
<1>1. pipe \in {"none", "open"}
  BY DEF Staged, Reported
<1> QED BY <1>1, EarlyEnd DEF Die, Fail

\* The steps before the identity changes.
LEMMA UnchangedIdentityStep ==
  ASSUME Staged, ResolveRunAs \/ BindListeners \/ ForkIntoBackground
  PROVE  Staged'
<1>1. stage \in {"resolve", "bind", "fork"} /\ stage \in Early
  BY DEF ResolveRunAs, BindListeners, ForkIntoBackground, Early
<1>2. CASE Die
  BY <1>1, <1>2, FailStep
<1>3. CASE stage = "resolve" /\ Forward("bind") /\ Known(setup.user, PwUid) /\ Known(setup.group, GrGid)
  BY <1>3 DEF Staged, Forward, IsProc, Identity, PidOwned, Reported, Handled, Early, Live
<1>4. CASE stage = "bind" /\ Forward(IF setup.debug THEN "runtime" ELSE "fork")
  <2>1. stage' \in {"runtime", "fork"} /\ (stage' = "fork" => ~setup.debug) /\ (stage' = "runtime" => setup.debug)
    BY <1>4 DEF Forward
  <2>2. UNCHANGED <<setup, step, proc, pipe, invoker, pidFile, tasks, handling, result>>
    BY <1>4 DEF Forward
  <2> QED BY <1>4, <2>1, <2>2 DEF Staged, IsProc, Identity, PidOwned, Reported, Handled, Early, Live, Managed
<1>5. CASE /\ stage = "fork" /\ stage' = "pid_file" /\ pipe' \in {"none", "open"}
           /\ UNCHANGED <<setup, step, proc, invoker, pidFile, tasks, handling, result>>
  BY <1>5 DEF Staged, IsProc, Identity, PidOwned, Reported, Handled, Early, Live
<1>6. CASE /\ stage' = "ended" /\ result' = "error" /\ pipe' = "closed"
           /\ UNCHANGED <<setup, step, proc, pidFile, tasks, handling>>
  BY <1>1, <1>6, EarlyEnd
<1> QED BY <1>2, <1>3, <1>4, <1>5, <1>6
        DEF ResolveRunAs, BindListeners, ForkIntoBackground, Forward, Go

\* The pid file, and stdio.
LEMMA PidFileStep ==
  ASSUME Staged, WritePidFile \/ RedirectStdio
  PROVE  Staged'
<1>1. stage \in {"pid_file", "stdio"} /\ stage \in Early
  BY DEF WritePidFile, RedirectStdio, Early
<1>2. CASE Fail
  BY <1>1, <1>2, FailStep
<1>3. proc = StartedAs(setup) /\ proc.uid = setup.uid
  BY <1>1 DEF Staged, Identity, StartedAs
<1>4. Known(setup.user, PwUid) /\ Known(setup.group, GrGid)
  BY <1>1 DEF Staged
<1>5. CASE /\ stage = "pid_file" /\ stage' = "stdio"
           /\ (setup.runfile /\ proc.uid = Root)
                => pidFile' = IF setup.user = NoOne THEN Root ELSE RunAs(setup).uid
           /\ UNCHANGED <<setup, step, proc, pipe, invoker, tasks, handling, result>>
  <2>1. PidOwned'
    BY <1>3, <1>5 DEF PidOwned
  <2> QED BY <1>5, <2>1 DEF Staged, IsProc, Identity, Reported, Handled, Early, Live
<1>6. CASE stage = "stdio" /\ Forward(IF proc.uid = Root THEN "set_groups" ELSE "runtime")
  <2>1. /\ stage' \in {"set_groups", "runtime"} /\ (stage' = "runtime" => setup.uid # Root)
        /\ UNCHANGED <<setup, step, proc, pipe, invoker, pidFile, tasks, handling, result>>
    BY <1>3, <1>6 DEF Forward
  <2>2. Identity'
    BY <1>6, <2>1 DEF Staged, Identity, Managed, Live
  <2>3. PidOwned'
    BY <1>6, <2>1 DEF Staged, PidOwned, Early, Live
  <2> QED BY <1>6, <2>1, <2>2, <2>3 DEF Staged, IsProc, Reported, Handled, Early, Live
<1>7. CASE WritePidFile /\ ~Fail
  <2>1. CASE /\ Go("stdio")
             /\ pidFile' = IF ~setup.runfile THEN NoOne
                           ELSE IF proc.uid = Root /\ RunAs(setup).uid \notin {NoOne, Root}
                                THEN RunAs(setup).uid ELSE proc.uid
             /\ UNCHANGED <<setup, step, proc, pipe, invoker, tasks, handling, result>>
    <3>1. (setup.runfile /\ proc.uid = Root)
             => pidFile' = IF setup.user = NoOne THEN Root ELSE RunAs(setup).uid
      BY <1>4, <2>1, RunAsFacts
    <3> QED BY <1>5, <1>7, <2>1, <3>1 DEF Go, WritePidFile
  <2>2. CASE proc.uid # Root /\ Forward("stdio")
    BY <1>5, <1>7, <2>2 DEF Forward, WritePidFile
  <2> QED BY <1>7, <2>1, <2>2 DEF WritePidFile, Forward, Go
<1> QED BY <1>2, <1>6, <1>7 DEF RedirectStdio, Forward, Go

\* One system call of drop_privileges_with that succeeds.
LEMMA BecomeStep ==
  ASSUME Staged, NEW p, NEW next, Become(p, next), IsProc(p), stage \in Early \ {"resolve", "bind", "fork", "pid_file"},
         next \in {"keep_caps", "set_uid", "drop_caps", "runtime"}, Identity'
  PROVE  Staged'
<1>1. proc' = p /\ stage' = next /\ UNCHANGED <<setup, step, pipe, invoker, pidFile, tasks, handling, result>>
  BY DEF Become, Go
<1>2. PidOwned'
  BY <1>1 DEF Staged, PidOwned, Early, Live
<1>3. Reported' /\ Handled'
  BY <1>1 DEF Staged, Reported, Handled, Early, Live
<1> QED BY <1>1, <1>2, <1>3 DEF Staged, IsProc, Early, Live

\* drop_privileges_with
LEMMA DropStep ==
  ASSUME Staged, SetGroups \/ KeepCaps \/ SetUid \/ DropCaps
  PROVE  Staged'
<1> DEFINE uid == RunAs(setup).uid
           gid == RunAs(setup).gid
           needed == needed_capabilities(setup)
<1>1. /\ stage \in {"set_groups", "keep_caps", "set_uid", "drop_caps"}
      /\ stage \in Early \ {"resolve", "bind", "fork", "pid_file"}
  BY DEF SetGroups, KeepCaps, SetUid, DropCaps, Early
<1>2. CASE Fail
  BY <1>1, <1>2, FailStep
<1>3. Known(setup.user, PwUid) /\ Known(setup.group, GrGid) /\ IsProc(proc) /\ Identity
  BY <1>1 DEF Staged
<1>4. Managed => uid = 99 /\ uid \notin {NoOne, Root} /\ gid # NoOne
  <2>1. Managed => setup.user \notin {NoOne, "root"}
    BY DEF Managed
  <2> QED BY <1>3, <2>1, RunAsFacts DEF Root
<1>5. CASE SetGroups /\ ~Fail
  <2> DEFINE next == IF uid \in {NoOne, Root} THEN "runtime" ELSE "keep_caps"
             p == IF gid = NoOne THEN proc ELSE [proc EXCEPT !.groups = {}, !.gid = gid]
  <2>1. Become(p, next) /\ stage = "set_groups"
    BY <1>5 DEF SetGroups
  <2>2. IsProc(p) /\ (gid # NoOne => p.groups = {} /\ p.gid = gid)
    BY <1>3 DEF IsProc
  <2>3. proc' = p /\ stage' = next /\ setup' = setup
    BY <2>1 DEF Become, Go
  <2>4. next \in {"runtime", "keep_caps"} /\ (next = "runtime" => ~Managed)
    BY <1>4
  <2> HIDE DEF next, p, gid
  <2>5. Identity'
    <3>1. Managed' <=> Managed
      BY <2>3 DEF Managed
    <3>2. Managed => GroupsShed'
      BY <1>4, <2>2, <2>3 DEF GroupsShed, gid
    <3> QED BY <2>3, <2>4, <3>1, <3>2 DEF Identity, Live
  <2> QED BY <1>1, <2>1, <2>2, <2>4, <2>5, BecomeStep
<1>6. CASE KeepCaps /\ ~Fail
  <2> DEFINE want == needed \cup {"setuid"}
             p == [ApplyCapabilities(proc, want) EXCEPT !.keep = TRUE]
  <2>1. Become(p, "set_uid") /\ stage = "keep_caps"
    BY <1>6 DEF KeepCaps
  <2> HIDE DEF want
  <2>2. IsProc(p) /\ p.groups = proc.groups /\ p.gid = proc.gid /\ p.keep = TRUE /\ p.permitted = want
    <3> DEFINE q == ApplyCapabilities(proc, want)
    <3>1. IsProc(q) /\ q.groups = proc.groups /\ q.gid = proc.gid /\ q.permitted = want
      BY <1>3 DEF ApplyCapabilities, IsProc
    <3> HIDE DEF q
    <3>2. LET r == [q EXCEPT !.keep = TRUE]
          IN  IsProc(r) /\ r.groups = q.groups /\ r.gid = q.gid /\ r.keep = TRUE /\ r.permitted = q.permitted
      BY <3>1 DEF IsProc
    <3> QED BY <3>1, <3>2 DEF q
  <2>3. proc' = p /\ stage' = "set_uid" /\ setup' = setup
    BY <2>1 DEF Become, Go
  <2> HIDE DEF p
  <2>4. Identity'
    <3>1. Managed' => GroupsShed'
      BY <1>3, <2>1, <2>2, <2>3 DEF Identity, Managed, GroupsShed
    <3> QED BY <2>2, <2>3, <3>1 DEF Identity, Live, want
  <2> QED BY <1>1, <2>1, <2>2, <2>4, BecomeStep
<1>7. CASE SetUid /\ ~Fail
  <2> DEFINE p == [proc EXCEPT !.uid = uid, !.effective = {}, !.permitted = IF proc.keep THEN @ ELSE {}]
  <2>1. Become(p, "drop_caps") /\ stage = "set_uid"
    BY <1>7 DEF SetUid
  <2>2. IsProc(p) /\ p.groups = proc.groups /\ p.gid = proc.gid /\ p.uid = uid
    BY <1>3 DEF IsProc
  <2>3. proc' = p /\ stage' = "drop_caps" /\ setup' = setup
    BY <2>1 DEF Become, Go
  <2> HIDE DEF p
  <2>4. Identity'
    <3>1. Managed' => GroupsShed'
      BY <1>3, <2>1, <2>2, <2>3 DEF Identity, Managed, GroupsShed
    <3> QED BY <2>2, <2>3, <3>1 DEF Identity, Live
  <2> QED BY <1>1, <2>1, <2>2, <2>4, BecomeStep
<1>8. CASE DropCaps /\ ~Fail
  <2> DEFINE p == ApplyCapabilities(proc, needed)
  <2>1. Become(p, "runtime") /\ stage = "drop_caps"
    BY <1>8 DEF DropCaps
  <2> HIDE DEF needed
  <2>2. /\ IsProc(p) /\ p.groups = proc.groups /\ p.gid = proc.gid /\ p.uid = proc.uid
        /\ p.effective = needed /\ p.permitted = needed
    BY <1>3 DEF ApplyCapabilities, IsProc
  <2>3. proc' = p /\ stage' = "runtime" /\ setup' = setup
    BY <2>1 DEF Become, Go
  <2> HIDE DEF p
  <2>4. Identity'
    <3>1. Managed' => GroupsShed'
      BY <1>3, <2>1, <2>2, <2>3 DEF Identity, Managed, GroupsShed
    <3>2. Managed' => Shed'
      BY <1>3, <2>1, <2>2, <2>3, <3>1 DEF Identity, Shed, needed
    <3> QED BY <2>3, <3>2 DEF Identity, Live
  <2> QED BY <1>1, <2>1, <2>2, <2>4, BecomeStep
<1> QED BY <1>2, <1>5, <1>6, <1>7, <1>8

\* Once the runtime runs, the identity, the pid file and the outcome stay.
LEMMA LiveStep ==
  ASSUME Staged, stage \in {"runtime"} \cup Live, stage' \in Live,
         pipe' \in {"none", "closed"}, handling' \subseteq tasks' \cap Joined,
         UNCHANGED <<setup, proc, pidFile, result>>
  PROVE  Staged'
<1>1. Known(setup.user, PwUid) /\ Known(setup.group, GrGid) /\ IsProc(proc) /\ result = "running"
  BY DEF Staged, Reported, Early, Live
<1>2. Identity'
  <2>1. Managed' => Shed
    BY DEF Staged, Identity, Managed
  <2>2. Managed' => Shed'
    BY <2>1 DEF Shed, GroupsShed
  <2> QED BY <2>2 DEF Identity, Live
<1>3. PidOwned'
  BY DEF Staged, PidOwned, Early, Live
<1>4. Reported' /\ Handled'
  BY <1>1 DEF Reported, Handled, Early, Live
<1> QED BY <1>1, <1>2, <1>3, <1>4 DEF Staged, IsProc, Live

\* Nothing happens any more.
LEMMA LiveEnd ==
  ASSUME Staged, stage \in Live, stage' = "ended", result' \in {"error", "io_error", "clean"},
         result' = "clean" => handling' = {} /\ tasks' = {},
         UNCHANGED <<setup, proc, pipe, pidFile>>
  PROVE  Staged'
<1>1. pipe' \in {"none", "closed"}
  BY DEF Staged, Reported
<1>2. Identity'
  BY DEF Identity, Live
<1>3. PidOwned'
  BY DEF PidOwned, Early, Live
<1>4. Reported' /\ Handled'
  BY <1>1 DEF Reported, Handled, Early, Live
<1> QED BY <1>2, <1>3, <1>4 DEF Staged, IsProc

\* The runtime is built and the invoking process released; tasks start, serve and stop.
LEMMA RuntimeStep ==
  ASSUME Staged, \/ StartRuntime \/ SpawnNext \/ Stop \/ Exit
                 \/ \E t \in Joined : Serve(t) \/ Finish(t)
  PROVE  Staged'
<1>1. /\ stage \in Live => pipe \in {"none", "closed"} /\ handling \subseteq tasks \cap Joined
      /\ stage = "runtime" => pipe \in {"none", "open"} /\ handling \subseteq tasks \cap Joined
  BY DEF Staged, Reported, Handled, Early
<1>2. CASE StartRuntime
  <2>1. CASE Fail
    BY <1>2, <2>1, FailStep DEF StartRuntime, Early
  <2>2. CASE ~Fail
    <3>1. /\ stage = "runtime" /\ stage' = "spawn" /\ pipe' = (IF pipe = "open" THEN "closed" ELSE pipe)
          /\ UNCHANGED <<setup, step, proc, pidFile, tasks, handling, result>>
      BY <1>2, <2>2 DEF StartRuntime, Go
    <3>2. pipe' \in {"none", "closed"}
      BY <1>1, <3>1
    <3> QED BY <1>1, <3>1, <3>2, LiveStep DEF Live
  <2> QED BY <2>1, <2>2
<1>3. CASE SpawnNext
  <2>1. stage = "spawn"
    BY <1>3 DEF SpawnNext
  <2>2. CASE /\ tasks \subseteq tasks' /\ stage' \in {"serving", "spawn"}
             /\ UNCHANGED <<setup, proc, pipe, invoker, pidFile, handling, result>>
    BY <1>1, <2>1, <2>2, LiveStep DEF Live
  <2>3. CASE stage' = "ended" /\ result' = "io_error" /\ UNCHANGED <<setup, proc, pipe, pidFile>>
    BY <2>1, <2>3, LiveEnd DEF Live
  <2> QED BY <1>3, <2>2, <2>3 DEF SpawnNext
<1>4. ASSUME NEW t \in Joined, Serve(t) PROVE Staged'
  <2>1. /\ stage \in Live /\ t \in tasks /\ handling' \subseteq handling \cup {t}
        /\ UNCHANGED <<setup, stage, step, proc, pipe, invoker, pidFile, tasks, result>>
    BY <1>4 DEF Serve, Live
  <2> QED BY <1>1, <2>1, LiveStep
<1>5. ASSUME NEW t \in Joined, Finish(t) PROVE Staged'
  <2>1. /\ stage = "stopping" /\ t \notin handling /\ tasks' = tasks \ {t}
        /\ UNCHANGED <<setup, stage, step, proc, pipe, invoker, pidFile, handling, result>>
    BY <1>5 DEF Finish
  <2> QED BY <1>1, <2>1, LiveStep DEF Live
<1>6. CASE Stop
  <2>1. /\ stage = "serving" /\ stage' = "stopping" /\ tasks' = tasks \cap Joined
        /\ UNCHANGED <<setup, step, proc, pipe, invoker, pidFile, handling, result>>
    BY <1>6 DEF Stop
  <2> QED BY <1>1, <2>1, LiveStep DEF Live
<1>7. CASE Exit
  <2>1. /\ stage = "stopping" /\ stage' = "ended" /\ tasks = {} /\ result' = "clean"
        /\ UNCHANGED <<setup, step, proc, pipe, pidFile, tasks, handling>>
    BY <1>7 DEF Exit
  <2>2. handling = {}
    BY <1>1, <2>1 DEF Live
  <2> QED BY <2>1, <2>2, LiveEnd DEF Live
<1> QED BY <1>2, <1>3, <1>4, <1>5, <1>6, <1>7

\* In every reachable state of the start the stage determines who the process is, what the
\* invoking process has seen and who may be in the middle of a packet.
THEOREM StartupInvariance == StartupSpec => []Staged
<1>1. StartupInit => Staged
  <2> SUFFICES ASSUME StartupInit PROVE Staged
    OBVIOUS
  <2>1. IsProc(proc)
    BY DEF StartupInit, StartedAs, IsProc
  <2>2. Identity
    BY DEF StartupInit, Identity, Live
  <2>3. PidOwned
    BY DEF StartupInit, PidOwned, Live
  <2>4. Reported /\ Handled
    BY DEF StartupInit, Reported, Handled, Live
  <2> QED BY <2>1, <2>2, <2>3, <2>4 DEF StartupInit, Staged, Early
<1>2. Staged /\ [StartupNext]_startupVars => Staged'
  <2> SUFFICES ASSUME Staged, [StartupNext]_startupVars PROVE Staged'
    OBVIOUS
  <2>1. CASE ResolveRunAs \/ BindListeners \/ ForkIntoBackground
    BY <2>1, UnchangedIdentityStep
  <2>2. CASE WritePidFile \/ RedirectStdio
    BY <2>2, PidFileStep
  <2>3. CASE SetGroups \/ KeepCaps \/ SetUid \/ DropCaps
    BY <2>3, DropStep
  <2>4. CASE \/ StartRuntime \/ SpawnNext \/ Stop \/ Exit
             \/ \E t \in Joined : Serve(t) \/ Finish(t)
    BY <2>4, RuntimeStep
  <2>5. CASE UNCHANGED startupVars
    BY <2>5 DEF startupVars, Staged, IsProc, Identity, Managed, GroupsShed, Shed, PidOwned, Reported, Handled
  <2> QED BY <2>1, <2>2, <2>3, <2>4, <2>5 DEF StartupNext
<1> QED BY <1>1, <1>2, PTL DEF StartupSpec

\* Whatever setup the daemon starts in and whichever step fails: it serves as the run user
\* with the capabilities it needs and no other, the invoking process sees success only when
\* the pid file and the identity are in place, and an orderly stop cuts no packet short.
THEOREM StartsAndStopsInOrderAlways == StartupSpec => []StartsAndStopsInOrder
<1>1. Staged => StartsAndStopsInOrder
  <2> SUFFICES ASSUME Staged PROVE StartsAndStopsInOrder
    OBVIOUS
  <2>1. PrivilegesShed
    BY DEF Staged, Identity, PrivilegesShed, Serving, Managed, Shed, GroupsShed, Live
  <2>2. ReleasedWhenReady
    <3>1. invoker = "success" /\ result = "running" => stage \in Live
      BY DEF Staged, Reported
    <3>2. stage \in Live /\ setup.runfile /\ setup.uid = Root /\ ~setup.debug
            => pidFile = (IF setup.user = NoOne THEN Root ELSE RunAs(setup).uid)
      BY DEF Staged, PidOwned
    <3>3. result = "running" /\ pipe = "open" => invoker = "waiting"
      BY DEF Staged, Reported
    <3> QED BY <3>1, <3>2, <3>3 DEF Staged, Reported, ReleasedWhenReady, Live
  <2>3. NothingCutShort
    BY DEF Staged, Handled, NothingCutShort
  <2> QED BY <2>1, <2>2, <2>3 DEF StartsAndStopsInOrder
<1> QED BY <1>1, StartupInvariance, PTL

---------------------------------------------------------------------------
(* The generation of a reload *)

IsDhcp(c) == c = [bank |-> c.bank, net |-> c.net, generation |-> c.generation] /\ c.generation \in Nat

Snapshots ==
  /\ snap = [t \in Tasks |-> snap[t]]
  /\ \A t \in Tasks : snap[t] = [fwd |-> snap[t].fwd, dhcp |-> snap[t].dhcp] /\ IsDhcp(snap[t].dhcp)

IsHistory(h) == h = [solo |-> h.solo, owed |-> h.owed, netPushed |-> h.netPushed]
                /\ h.owed \in BOOLEAN /\ h.netPushed \in BOOLEAN

Counted ==
  /\ IsDhcp(dhcpCfg) /\ Snapshots /\ IsHistory(history) /\ dhcpLoop.seen \in Nat
  /\ ~history.netPushed => /\ dhcpLoop.seen <= dhcpCfg.generation
                           /\ history.owed <=> dhcpCfg.generation # dhcpLoop.seen

\* A snapshot is one of a configuration with a number.
LEMMA SnapshotOK ==
  ASSUME NEW d
  PROVE  IsDhcp(DhcpSnapshot(d))
BY DEF DhcpSnapshot, IsDhcp

\* Steps that touch neither the DHCP configuration nor what is known of it.
LEMMA ElsewhereStep ==
  ASSUME Counted, UNCHANGED <<dhcpCfg, dhcpLoop>>, Snapshots',
         IsHistory(history'), history'.owed = history.owed, history'.netPushed = history.netPushed
  PROVE  Counted'
BY DEF Counted

\* The history of a step that is not about the count.
LEMMA SoloOnly ==
  ASSUME IsHistory(history), NEW b, history' = [history EXCEPT !.solo = b]
  PROVE  IsHistory(history') /\ history'.owed = history.owed /\ history'.netPushed = history.netPushed
BY DEF IsHistory

\* Building a snapshot.
LEMMA BuildStep ==
  ASSUME Snapshots, NEW t \in Tasks, NEW f, NEW d, IsDhcp(d)
  PROVE  /\ snap' = [snap EXCEPT ![t] = [fwd |-> f, dhcp |-> d]] => Snapshots'
         /\ snap' = [snap EXCEPT ![t].fwd = f] => Snapshots'
         /\ snap' = [snap EXCEPT ![t].dhcp = d] => Snapshots'
<1> DEFINE F(v) == [u \in Tasks |-> IF u = t THEN v ELSE snap[u]]
<1>1. \A v : v = [fwd |-> v.fwd, dhcp |-> v.dhcp] /\ IsDhcp(v.dhcp) /\ snap' = F(v) => Snapshots'
  BY DEF Snapshots
<1>2. snap' = [snap EXCEPT ![t] = [fwd |-> f, dhcp |-> d]] => snap' = F([fwd |-> f, dhcp |-> d])
  BY DEF Snapshots
<1>3. snap' = [snap EXCEPT ![t].fwd = f] => snap' = F([fwd |-> f, dhcp |-> snap[t].dhcp])
  BY DEF Snapshots
<1>4. snap' = [snap EXCEPT ![t].dhcp = d] => snap' = F([fwd |-> snap[t].fwd, dhcp |-> d])
  BY DEF Snapshots
<1>5. IsDhcp(snap[t].dhcp)
  BY DEF Snapshots
<1> HIDE DEF F
<1> QED BY <1>1, <1>2, <1>3, <1>4, <1>5

\* The installation of a reload counts on.
LEMMA InstallStep ==
  ASSUME Counted, NEW t \in Tasks, InstallDhcp(t)
  PROVE  Counted'
<1>1. IsDhcp(snap[t].dhcp) /\ IsDhcp(dhcpCfg) /\ IsHistory(history)
  BY DEF Counted, Snapshots
<1>2. dhcpCfg' = [snap[t].dhcp EXCEPT !.generation = dhcpCfg.generation + 1]
  BY DEF InstallDhcp, NextGeneration
<1>3. IsDhcp(dhcpCfg') /\ dhcpCfg'.generation = dhcpCfg.generation + 1
  BY <1>1, <1>2 DEF IsDhcp
<1>4. IsHistory(history') /\ history'.owed = TRUE /\ history'.netPushed = history.netPushed
  BY <1>1 DEF InstallDhcp, IsHistory
<1>5. Snapshots' /\ dhcpLoop' = dhcpLoop
  BY DEF InstallDhcp, Counted, Snapshots
<1>6. dhcpCfg.generation \in Nat /\ dhcpLoop.seen \in Nat
  BY DEF Counted, IsDhcp
<1>7. ~history.netPushed => dhcpLoop.seen < dhcpCfg'.generation
  BY <1>3, <1>6 DEF Counted
<1> QED BY <1>3, <1>4, <1>5, <1>6, <1>7 DEF Counted

\* The tick of the DHCP loop.
LEMMA TickStep ==
  ASSUME Counted, DhcpTick
  PROVE  Counted'
<1>1. dhcpLoop'.seen = dhcpCfg.generation /\ dhcpCfg' = dhcpCfg /\ Snapshots' /\ dhcpCfg.generation \in Nat
  BY DEF DhcpTick, Counted, Snapshots, IsDhcp
<1>2. IsHistory(history)
  BY DEF Counted
<1>3. CASE dhcpCfg.generation # dhcpLoop.seen
  <2>1. history' = [history EXCEPT !.owed = FALSE]
    BY <1>3 DEF DhcpTick, should_rerun_scripts
  <2>2. IsHistory(history') /\ history'.owed = FALSE
    BY <1>2, <2>1 DEF IsHistory
  <2> QED BY <1>1, <2>2 DEF Counted
<1>4. CASE dhcpCfg.generation = dhcpLoop.seen
  <2>1. history' = history
    BY <1>4 DEF DhcpTick, should_rerun_scripts
  <2> QED BY <1>1, <1>4, <2>1 DEF Counted
<1> QED BY <1>3, <1>4

\* While no networks directory is pushed, the comparison of generations tells exactly whether
\* a reload's scripts are owed: for any number of tasks, edits and reloads between two ticks.
THEOREM RerunAlwaysOwed == ReloadSpec => []RerunOwed
<1>1. ReloadInit => Counted
  <2> SUFFICES ASSUME ReloadInit PROVE Counted
    OBVIOUS
  <2>1. IsDhcp(dhcpCfg) /\ dhcpCfg.generation = 0
    BY SnapshotOK DEF ReloadInit, DhcpSnapshot
  <2>2. Snapshots
    BY <2>1 DEF ReloadInit, Snapshots
  <2>3. IsHistory(history) /\ history.owed = FALSE /\ dhcpLoop.seen = 0
    BY DEF ReloadInit, IsHistory
  <2> QED BY <2>1, <2>2, <2>3 DEF Counted
<1>2. Counted /\ [ReloadNext]_reloadVars => Counted'
  <2> SUFFICES ASSUME Counted, [ReloadNext]_reloadVars PROVE Counted'
    OBVIOUS
  <2>1. Snapshots /\ IsHistory(history) /\ Watcher \in Tasks /\ Reloaders \subseteq Tasks
    BY DEF Counted, Tasks
  <2>2. CASE UNCHANGED <<snap, dhcpCfg, dhcpLoop, history>>
    BY <2>2 DEF Counted, Snapshots
  <2>3. CASE UNCHANGED <<snap, dhcpCfg, dhcpLoop>> /\ \E b : history' = [history EXCEPT !.solo = b]
    <3>1. Snapshots'
      BY <2>1, <2>3 DEF Snapshots
    <3> QED BY <2>1, <2>3, <3>1, SoloOnly, ElsewhereStep
  <2>4. CASE \E t \in Tasks : ReadServers(t)
    <3>1. \E t \in Tasks : \E f, d : snap' = [snap EXCEPT ![t] = [fwd |-> f, dhcp |-> DhcpSnapshot(d)]]
      BY <2>4 DEF ReadServers
    <3>2. Snapshots'
      BY <2>1, <3>1, BuildStep, SnapshotOK
    <3> QED BY <2>1, <2>4, <3>2, ElsewhereStep DEF ReadServers
  <2>5. CASE PushZone \/ PushNet
    <3>1. \/ UNCHANGED snap
          \/ \E f : snap' = [snap EXCEPT ![Watcher].fwd = f]
          \/ \E d : snap' = [snap EXCEPT ![Watcher].dhcp = DhcpSnapshot(d)]
      BY <2>5 DEF PushZone, PushNet
    <3>2. Snapshots'
      <4>1. CASE UNCHANGED snap
        BY <2>1, <4>1 DEF Snapshots
      <4>2. CASE \E f : snap' = [snap EXCEPT ![Watcher].fwd = f]
        BY <2>1, <4>2, BuildStep, SnapshotOK
      <4>3. CASE \E d : snap' = [snap EXCEPT ![Watcher].dhcp = DhcpSnapshot(d)]
        BY <2>1, <4>3, BuildStep, SnapshotOK
      <4> QED BY <3>1, <4>1, <4>2, <4>3
    <3> QED BY <2>1, <2>5, <3>2, ElsewhereStep DEF PushZone, PushNet
  <2>6. CASE \E t \in Tasks : InstallDhcp(t)
    BY <2>6, InstallStep
  <2>7. CASE PutNet
    <3>1. IsDhcp(dhcpCfg') /\ Snapshots' /\ dhcpLoop' = dhcpLoop
      BY <2>1, <2>7 DEF PutNet, Snapshots
    <3>2. IsHistory(history') /\ history'.netPushed = TRUE
      BY <2>1, <2>7 DEF PutNet, IsHistory
    <3> QED BY <3>1, <3>2 DEF Counted
  <2>8. CASE DhcpTick
    BY <2>8, TickStep
  <2>9. CASE \/ \E f \in Files : Edit(f)
             \/ EditTemporary
             \/ \E t \in Reloaders : CountReload(t)
             \/ \E t \in Tasks : Flush(t) \/ Scan(t) \/ InstallForward(t)
             \/ PutZone
    BY <2>2, <2>9 DEF Edit, EditTemporary, CountReload, Flush, Scan, InstallForward, PutZone
  <2>10. CASE (\E t \in Reloaders : AskReload(t)) \/ InotifyCheck
    BY <2>3, <2>10 DEF AskReload, InotifyCheck
  <2>11. CASE UNCHANGED reloadVars
    BY <2>2, <2>11 DEF reloadVars
  <2> QED BY <2>4, <2>5, <2>6, <2>7, <2>8, <2>9, <2>10, <2>11 DEF ReloadNext, ReloadStep
<1>3. Counted => RerunOwed
  BY DEF Counted, RerunOwed, should_rerun_scripts
<1> QED BY <1>1, <1>2, <1>3, PTL DEF ReloadSpec
===============================================================================
