------------------------------ MODULE Startup ------------------------------
(***************************************************************************)
(* The life of the daemon process: what `start` in main.rs does before     *)
(* the asynchronous runtime exists (bind, fork, pid file, drop root),      *)
(* how the process the user invoked learns the outcome through the         *)
(* start-up pipe, the order in which run_main_loop_with starts its tasks,  *)
(* and how they are stopped.                                               *)
(*                                                                         *)
(* Every system call that the code checks may fail.  The kernel's rules    *)
(* for identities and capabilities are those of setgroups(2), setgid(2),   *)
(* setuid(2) and capset(2).                                                *)
(***************************************************************************)
EXTENDS Naturals, Sequences, FiniteSets, TLC

CONSTANTS
    Setups,      \* the configurations and circumstances the process starts in
    NoOne        \* stands for Option::None

ASSUME NoOneAssumption == NoOne \notin Nat /\ NoOne # "root"

VARIABLES
    setup,       \* the configuration this process was started with
    stage,       \* the next step of `start`, or of the main loop
    step,        \* the next entry of SpawnOrder
    proc,        \* the identity of the process: uid, gid, groups, capabilities
    pipe,        \* the start-up pipe: none, open, or the text written and closed
    invoker,     \* the exit status the invoking process has seen
    pidFile,     \* NoOne, or the owner of the pid file
    tasks,       \* the tasks that are running
    handling,    \* the tasks that are in the middle of serving a client
    result       \* how the process ended

startupVars ==
    <<setup, stage, step, proc, pipe, invoker, pidFile, tasks, handling, result>>

Root == 0

AllCaps == {"setuid", "net_admin", "net_raw", "net_bind_service", "other"}

----------------------------------------------------------------------------
(* The run-as identity and the capabilities that must survive the drop.    *)

\* The users and groups of the host, as getpwnam and getgrnam report them.
PwUid == [root |-> 0, dnsmasq |-> 99]
PwGid == [root |-> 0, dnsmasq |-> 98]
GrGid == [root |-> 0, dip |-> 30, nobody |-> 65]

Known(name, table) == name = NoOne \/ name \in DOMAIN table

\* `group=`, then CHGRP ("dip") when the host has it, then the run user's group.
RunGid(s) ==
    IF s.group # NoOne THEN GrGid[s.group]
    ELSE IF s.chgrp THEN GrGid["dip"]
    ELSE IF s.user # NoOne THEN PwGid[s.user]
    ELSE NoOne

RunAs(s) ==
    [uid      |-> IF s.user = NoOne THEN NoOne ELSE PwUid[s.user],
     gid      |-> RunGid(s),
     user_gid |-> IF s.user = NoOne THEN NoOne ELSE PwGid[s.user]]

needed_capabilities(s) ==
    (IF s.dhcp THEN {"net_admin"} ELSE {})
        \union (IF s.dhcp /\ ~s.no_ping THEN {"net_raw"} ELSE {})
        \union (IF s.server_iface THEN {"net_raw"} ELSE {})

----------------------------------------------------------------------------
(* How a step ends the process.                                            *)

\* `start` returns an error: one line on the terminal, status 1.
Die ==
    /\ stage' = "ended"
    /\ result' = "error"
    /\ invoker' = "failure"
    /\ UNCHANGED <<setup, step, proc, pipe, pidFile, tasks, handling>>

\* StartupPipe::fail: the message goes through the pipe when there is one.
Fail ==
    /\ stage' = "ended"
    /\ result' = "error"
    /\ pipe' = IF pipe = "open" THEN "message" ELSE pipe
    /\ invoker' = "failure"
    /\ UNCHANGED <<setup, step, proc, pidFile, tasks, handling>>

Go(next) == stage' = next

----------------------------------------------------------------------------
(* Before the runtime.                                                     *)

ResolveRunAs ==
    /\ stage = "resolve"
    /\ IF Known(setup.user, PwUid) /\ Known(setup.group, GrGid)
       THEN Go("bind") /\ UNCHANGED <<setup, step, proc, pipe, invoker, pidFile, tasks, handling, result>>
       ELSE Die

\* bind_listeners: DNS, TFTP, DHCP and DHCPv6 sockets, still with the
\* identity the process was started with.
BindListeners ==
    /\ stage = "bind"
    /\ \/ /\ "net_bind_service" \in proc.effective \/ ~setup.low_port
          /\ Go(IF setup.debug THEN "runtime" ELSE "fork")
          /\ UNCHANGED <<setup, step, proc, pipe, invoker, pidFile, tasks, handling, result>>
       \/ Die

\* Fault: the invoking process is released before the identity is dropped.
ReadyAfterFork ==
    /\ stage = "fork"
    /\ Go("pid_file")
    /\ pipe' = IF setup.no_fork THEN "none" ELSE "closed"
    /\ invoker' = IF setup.no_fork THEN invoker ELSE "success"
    /\ UNCHANGED <<setup, step, proc, pidFile, tasks, handling, result>>

\* chdir("/"), then fork, setsid, fork unless -k was given.  A failure after
\* the first fork returns from the child, whose end of the pipe just closes.
ForkIntoBackground ==
    /\ stage = "fork"
    /\ \/ /\ Go("pid_file")
          /\ pipe' = IF setup.no_fork THEN "none" ELSE "open"
          /\ UNCHANGED <<setup, step, proc, invoker, pidFile, tasks, handling, result>>
       \/ Die
       \/ /\ ~setup.no_fork
          /\ stage' = "ended"
          /\ result' = "error"
          /\ pipe' = "closed"
          /\ invoker' = "success"
          /\ UNCHANGED <<setup, step, proc, pidFile, tasks, handling>>

\* The pid file is unlinked, created with O_EXCL and given to the run user.
\* A failure is fatal for root only.
WritePidFile ==
    /\ stage = "pid_file"
    /\ \/ /\ Go("stdio")
          /\ pidFile' = IF ~setup.runfile THEN NoOne
                        ELSE IF proc.uid = Root /\ RunAs(setup).uid \notin {NoOne, Root}
                             THEN RunAs(setup).uid
                             ELSE proc.uid
          /\ UNCHANGED <<setup, step, proc, pipe, invoker, tasks, handling, result>>
       \/ /\ setup.runfile
          /\ IF proc.uid = Root
             THEN Fail
             ELSE Go("stdio") /\ UNCHANGED <<setup, step, proc, pipe, invoker, pidFile, tasks, handling, result>>

\* stdin, stdout and stderr become /dev/null.
RedirectStdio ==
    /\ stage = "stdio"
    /\ \/ /\ Go(IF proc.uid = Root THEN "set_groups" ELSE "runtime")
          /\ UNCHANGED <<setup, step, proc, pipe, invoker, pidFile, tasks, handling, result>>
       \/ Fail

----------------------------------------------------------------------------
(* drop_privileges_with, one system call per step.                         *)

Become(p, next) ==
    /\ proc' = p
    /\ Go(next)
    /\ UNCHANGED <<setup, step, pipe, invoker, pidFile, tasks, handling, result>>

\* setgroups(0) and setgid: skipped when no group was resolved.
SetGroups ==
    /\ stage = "set_groups"
    /\ LET gid == RunAs(setup).gid
           next == IF RunAs(setup).uid \in {NoOne, Root} THEN "runtime" ELSE "keep_caps"
       IN  IF gid = NoOne
           THEN Become(proc, next)
           ELSE \/ Become([proc EXCEPT !.groups = {}, !.gid = gid], next)
                \/ Fail

\* The capability sets, effective first; the kernel refuses an effective
\* capability that is not permitted.
ApplyCapabilities(p, wanted) == [p EXCEPT !.effective = wanted, !.permitted = wanted]

KeepCaps ==
    /\ stage = "keep_caps"
    /\ \/ Become([ApplyCapabilities(proc, needed_capabilities(setup) \union {"setuid"})
                    EXCEPT !.keep = TRUE], "set_uid")
       \/ Fail

\* setuid away from root empties the effective set, and the permitted set
\* too unless PR_SET_KEEPCAPS was given.
SetUid ==
    /\ stage = "set_uid"
    /\ "setuid" \in proc.effective
    /\ \/ Become([proc EXCEPT !.uid = RunAs(setup).uid,
                              !.effective = {},
                              !.permitted = IF proc.keep THEN @ ELSE {}], "drop_caps")
       \/ Fail

DropCaps ==
    /\ stage = "drop_caps"
    /\ \/ /\ needed_capabilities(setup) \subseteq proc.permitted
          /\ Become(ApplyCapabilities(proc, needed_capabilities(setup)), "runtime")
       \/ Fail

----------------------------------------------------------------------------
(* The runtime and its tasks.                                              *)

\* The tokio runtime is built, then StartupPipe::ready releases the invoker.
StartRuntime ==
    /\ stage = "runtime"
    /\ \/ /\ Go("spawn")
          /\ pipe' = IF pipe = "open" THEN "closed" ELSE pipe
          /\ invoker' = IF pipe = "open" THEN "success" ELSE invoker
          /\ UNCHANGED <<setup, step, proc, pidFile, tasks, handling, result>>
       \/ Fail

\* The order in which run_main_loop_with starts its tasks.
SpawnOrder ==
    <<"dump", "dns_sockets", "dbus", "inotify", "ubus", "forward", "arp", "tftp",
      "dhcp", "dhcp6", "netlink", "radv", "web_api", "metrics", "signals">>

\* The steps whose failure ends the daemon, and the tasks each one stops:
\* first those of the services,
AbortedByService ==
    [dump        |-> {},
     dns_sockets |-> {},
     tftp        |-> {"forward", "arp"},
     dhcp        |-> {"forward", "arp", "tftp"},
     dhcp6       |-> {"forward", "arp", "tftp", "dhcp"},
     radv        |-> {"forward", "dhcp", "dhcp6"}]

\* then those of the management interfaces,
AbortedByManagement ==
    [web_api |-> {"forward", "arp", "tftp", "dhcp", "dhcp6", "radv"},
     metrics |-> {"forward", "arp", "tftp", "dhcp", "dhcp6", "radv", "web_api"}]

\* and the registration of the signal handlers.
AbortedBySignals ==
    [signals |-> {"forward", "arp", "tftp", "dhcp", "dhcp6", "radv", "web_api",
                  "netlink", "inotify", "dbus", "ubus", "metrics"}]

AbortedBy == AbortedByService @@ AbortedByManagement @@ AbortedBySignals

\* Steps of SpawnOrder that leave no task behind.
Checks == {"dump", "dns_sockets", "signals"}

Configured(t) == t \in setup.services \union Checks \union {"inotify", "forward", "arp", "netlink"}

\* One step of run_main_loop_with: the next task starts, or its start fails.
\* A netlink socket that cannot be opened costs the notifications only.
SpawnNext ==
    /\ stage = "spawn"
    /\ LET t == SpawnOrder[step]
       IN  \/ /\ \/ tasks' = IF Configured(t) THEN tasks \union ({t} \ Checks) ELSE tasks
                 \/ t = "netlink" /\ tasks' = tasks
              /\ step' = step + 1
              /\ stage' = IF step = Len(SpawnOrder) THEN "serving" ELSE "spawn"
              /\ UNCHANGED <<setup, proc, pipe, invoker, pidFile, handling, result>>
           \/ /\ t \in DOMAIN AbortedBy
              /\ Configured(t)
              /\ tasks' = tasks \ AbortedBy[t]
              /\ handling' = handling \ AbortedBy[t]
              /\ stage' = "ended"
              /\ result' = "io_error"
              /\ invoker' = IF invoker = "waiting" THEN "success" ELSE invoker
              /\ UNCHANGED <<setup, step, proc, pipe, pidFile>>

\* A DHCP-family task starts or finishes serving one packet.
Serve(t) ==
    /\ t \in tasks \intersect {"dhcp", "dhcp6", "radv"}
    /\ stage \in {"spawn", "serving", "stopping"}
    /\ stage = "stopping" => t \in handling
    /\ handling' = IF t \in handling THEN handling \ {t} ELSE handling \union {t}
    /\ UNCHANGED <<setup, stage, step, proc, pipe, invoker, pidFile, tasks, result>>

\* SIGTERM or SIGINT: every task is aborted except those that get a shutdown
\* message and are waited for.
Joined == {"dhcp", "dhcp6", "radv"}

Stop ==
    /\ stage = "serving"
    /\ stage' = "stopping"
    /\ tasks' = tasks \intersect Joined
    /\ UNCHANGED <<setup, step, proc, pipe, invoker, pidFile, handling, result>>

\* A task that was told to stop does so between two packets.
Finish(t) ==
    /\ stage = "stopping"
    /\ t \in tasks \ handling
    /\ tasks' = tasks \ {t}
    /\ UNCHANGED <<setup, stage, step, proc, pipe, invoker, pidFile, handling, result>>

Exit ==
    /\ stage = "stopping"
    /\ tasks = {}
    /\ stage' = "ended"
    /\ result' = "clean"
    /\ invoker' = IF invoker = "waiting" THEN "success" ELSE invoker
    /\ UNCHANGED <<setup, step, proc, pipe, pidFile, tasks, handling>>

----------------------------------------------------------------------------

StartedAs(s) ==
    [uid |-> s.uid, gid |-> s.uid, groups |-> {s.uid, 4}, keep |-> FALSE,
     effective |-> IF s.uid = Root THEN AllCaps ELSE {},
     permitted |-> IF s.uid = Root THEN AllCaps ELSE {}]

StartupInit ==
    /\ setup \in Setups
    /\ stage = "resolve"
    /\ step = 1
    /\ proc = StartedAs(setup)
    /\ pipe = "none"
    /\ invoker = "waiting"
    /\ pidFile = NoOne
    /\ tasks = {}
    /\ handling = {}
    /\ result = "running"

StartupNext ==
    \/ ResolveRunAs \/ BindListeners \/ ForkIntoBackground \/ WritePidFile
    \/ RedirectStdio \/ SetGroups \/ KeepCaps \/ SetUid \/ DropCaps
    \/ StartRuntime \/ SpawnNext
    \/ \E t \in Joined : Serve(t)
    \/ Stop
    \/ \E t \in Joined : Finish(t)
    \/ Exit

----------------------------------------------------------------------------

Serving == stage \in {"spawn", "serving", "stopping"}

\* A daemon that was started by root with a run user other than root serves
\* clients as that user: its uid and gid are the configured ones, no group of
\* the invoking shell is left, and its capabilities are exactly those that
\* DHCP and interface-bound servers need.  In particular CAP_SETUID is gone,
\* so root cannot be regained (drop_privileges_with).  Only -d keeps root.
PrivilegesShed ==
    (Serving /\ setup.uid = Root /\ ~setup.debug /\ setup.user \notin {NoOne, "root"})
        => /\ proc.uid = RunAs(setup).uid
           /\ proc.gid = RunAs(setup).gid
           /\ proc.groups = {}
           /\ proc.effective = needed_capabilities(setup)
           /\ proc.permitted = needed_capabilities(setup)

\* While the daemon lives, the process that invoked it sees success only once
\* every step that can be reported through the start-up pipe is behind it:
\* the pid file is there with the run user as its owner, and root is gone.  A
\* failure of one of those steps is always reported (StartupPipe).
ReleasedWhenReady ==
    /\ (invoker = "success" /\ result = "running") =>
            /\ stage \in {"spawn", "serving", "stopping"}
            /\ (setup.runfile /\ setup.uid = Root /\ ~setup.debug)
                    => pidFile = (IF setup.user = NoOne THEN Root ELSE RunAs(setup).uid)
    /\ pipe = "message" => invoker = "failure"
    /\ (result = "running" /\ pipe = "open") => invoker = "waiting"

\* An orderly stop never cuts a DHCP, DHCPv6 or router-advertisement task in
\* the middle of a packet: the loop gets its shutdown message and is waited
\* for (the teardown at the end of run_main_loop_with).
NothingCutShort == result = "clean" => handling = {} /\ tasks = {}

\* The three together: the daemon starts and stops in order, whichever step
\* fails (drop_privileges_with, StartupPipe, run_main_loop_with).
StartsAndStopsInOrder == PrivilegesShed /\ ReleasedWhenReady /\ NothingCutShort

=============================================================================
