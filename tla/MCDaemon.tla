------------------------------ MODULE MCDaemon ------------------------------
(***************************************************************************)
(* Model checking of the process life cycle (Startup) and of run-time      *)
(* reload (Reload).  The two have no state in common; `mode` says which    *)
(* one a behaviour is about.                                               *)
(***************************************************************************)
EXTENDS Startup, Reload, TLC

VARIABLE mode

\* SIGHUP and the management interfaces run the same code.
Symmetry == Permutations(Reloaders)

MCSetups ==
    [uid : {0, 7}, user : {NoOne, "root", "dnsmasq", "ghost"}, group : {NoOne, "nobody"}, chgrp : BOOLEAN,
     debug : BOOLEAN, no_fork : BOOLEAN, runfile : BOOLEAN, low_port : {TRUE},
     dhcp : {TRUE}, no_ping : BOOLEAN, server_iface : {FALSE}, services : {{"dhcp"}}]
        \union
    [uid : {0}, user : {"dnsmasq"}, group : {NoOne}, chgrp : {TRUE},
     debug : {FALSE}, no_fork : BOOLEAN, runfile : {TRUE}, low_port : {TRUE},
     dhcp : BOOLEAN, no_ping : {TRUE}, server_iface : BOOLEAN,
     services : {{"dhcp", "dhcp6", "radv", "tftp", "dbus", "ubus", "web_api", "metrics"}}]

StartupIdle ==
    /\ setup = [uid |-> 7] /\ stage = "off" /\ step = 0 /\ proc = NoOne /\ pipe = "none"
    /\ invoker = "none" /\ pidFile = NoOne /\ tasks = {} /\ handling = {} /\ result = "off"

ReloadIdle ==
    /\ env = [watching |-> FALSE] /\ disk = <<>> /\ events = <<>> /\ daemon = <<>> /\ cache = {}
    /\ fwdCfg = <<>> /\ dhcpCfg = [generation |-> 0] /\ dhcpLoop = [seen |-> 0]
    /\ pc = [t \in Tasks |-> "off"] /\ snap = <<>> /\ hits = {} /\ edits = 0 /\ reloads = 0
    /\ history = [solo |-> FALSE, owed |-> FALSE, netPushed |-> FALSE]

Init ==
    \/ mode = "startup" /\ StartupInit /\ ReloadIdle
    \/ mode = "reload" /\ ReloadInit /\ StartupIdle

Next ==
    \/ mode = "startup" /\ StartupNext /\ UNCHANGED <<reloadVars, mode>>
    \/ mode = "reload" /\ ReloadNext /\ UNCHANGED <<startupVars, mode>>

Spec == Init /\ [][Next]_<<startupVars, reloadVars, mode>>

=============================================================================
