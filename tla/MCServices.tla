----------------------------- MODULE MCServices -----------------------------
(***************************************************************************)
(* Model checking of the services beside DNS and DHCPv4: the DHCPv6        *)
(* server, SLAAC address tracking, router advertisement, the neighbour     *)
(* cache and the syslog client.  They share no state; `mode` says which    *)
(* one a behaviour is about.                                               *)
(***************************************************************************)
EXTENDS Dhcp6, Slaac, Radv, ArpCache, Syslog, TLC

CONSTANT Modes

VARIABLE mode

----------------------------------------------------------------------------
(* DHCPv6: one or two ranges on one link, with and without a reserved      *)
(* address; two of the clients have identifiers that share a table key.    *)

Range6(start, end, flags, prefix, lt) ==
    [start6 |-> start, end6 |-> end, prefix |-> prefix, flags |-> flags, filtered |-> FALSE,
     addr_epoch |-> 0, local6 |-> 0, if_index |-> 0, preferred |-> 0, valid |-> 0, lease_time |-> lt]
LiveAddr6(a, class) ==
    [addr |-> a, prefix |-> 2, if_index |-> 1, preferred |-> 3, valid |-> 5, deprecated |-> FALSE, class |-> class]
Daemon6(ranges, conf, auth) ==
    [duid |-> None, duid_config |-> None, lease_file |-> FALSE, dhcp6 |-> ranges, dhcp_conf |-> conf,
     authoritative |-> auth]
Runtimes ==
    {daemon_dhcp6_runtime_with(Daemon6(r, c, a), <<LiveAddr6(5, "Global"), LiveAddr6(1, "LinkLocal")>>,
         first_dhcp6_mac_source(<<[name |-> "eth0", hw_type |-> 1, mac |-> "m"]>>), 0) :
        r \in {<<Range6(5, 7, {"DHCP"}, 2, 4)>>,
               <<Range6(4, 4, {"DHCP", "STATIC"}, 2, 2), Range6(6, 7, {"DHCP", "CONSTRUCTED"}, 3, Infinite)>>},
        c \in {{}, {[flags |-> {"ADDR6"}, addr6 |-> {4}]}},
        a \in BOOLEAN}
MCClids == {<<1, 2>>, <<1, 2, 3>>, <<2>>}

Dhcp6Init == runtime \in Runtimes /\ leases = <<>> /\ reply = None
Dhcp6Idle == runtime = [contexts |-> <<>>, authoritative |-> FALSE] /\ leases = <<>> /\ reply = None

----------------------------------------------------------------------------
(* SLAAC: one client with and without a name, on one of two interfaces.    *)

Hw(type, len, id) == [present |-> TRUE, type |-> type, len |-> len, id |-> id, clid_eui64 |-> TRUE, clid |-> "eui64"]
MCLeaseStates ==
    {[hw |-> h, stateful |-> FALSE, last_interface |-> i, named |-> n] :
        h \in {Hw("ETHER", 6, "mac"), Hw("IEEE1394", 8, "x")}, i \in {1, 2}, n \in BOOLEAN}
Ctx(flags, i, prefix) == [flags |-> flags, if_index |-> i, prefix |-> prefix]
MCContextChains ==
    {<<Ctx({"RA_NAME"}, 1, "p"), Ctx({"RA_NAME"}, 2, "q")>>,
     <<Ctx({"RA_NAME", "OLD"}, 1, "p"), Ctx({"RA_NAME"}, 1, "q")>>, <<Ctx({}, 1, "p")>>}

SlaacIdle == /\ lease = <<>> /\ contexts = <<>> /\ slaac_address = [k \in SlaacLeases |-> <<>>]
             /\ dns_dirty = FALSE /\ clock = 0

----------------------------------------------------------------------------
(* Router advertisement: two contexts on one or two subnets of one or two  *)
(* interfaces, one of them possibly a template or draining.                *)

RaCtx(net, flags) ==
    [start6 |-> net, end6 |-> net + 1, prefix |-> 2, flags |-> flags, if_index |-> 1, ra_time |-> 0,
     short_start |-> 0, saved_valid |-> 2, lost |-> 1, lease_time |-> 2]
Live6(name, i, a, class) ==
    [name |-> name, if_index |-> i, addr |-> a, class |-> class, prefix |-> 2, valid |-> 9, preferred |-> 8,
     deprecated |-> FALSE, tentative |-> FALSE]
LinkLocal(name, i) == Live6(name, i, 1, "link_local")
MCLives ==
    {<<LinkLocal("eth0", 1), Live6("eth0", 1, 5, "global"), Live6("eth0", 1, 9, "ula")>>,
     <<Live6("eth0", 1, 9, "ula"), LinkLocal("eth0", 1), Live6("eth0", 1, 5, "global")>>,
     <<LinkLocal("eth1", 2), Live6("eth1", 2, 9, "global"), LinkLocal("eth0", 1), Live6("eth0", 1, 5, "global")>>,
     <<[Live6("eth0", 1, 5, "global") EXCEPT !.tentative = TRUE]>>}
MCRas ==
    {[ra_interfaces |-> <<[names |-> {"eth0"}, interval |-> 4, lifetime |-> 1, prio |-> 1]>>, dhcp_except |-> e,
      allowed |-> {"eth0", "eth1"}, bridges |-> <<[iface |-> "eth0", aliases |-> {"eth1"}]>>, opt_ra |-> o,
      is_dns_server |-> TRUE] : e \in {{}, {"eth1"}}, o \in BOOLEAN}
Apart ==
    {<<RaCtx(4, {"RA"}), RaCtx(8, f)>> : f \in {{"RA", "DHCP", "SETLEASE", "RA_ROUTER"}, {"DHCP"}, {"TEMPLATE"}}} \union
    {<<RaCtx(4, {"RA"}), RaCtx(12, {"RA", "OLD"})>>}
Together == {<<RaCtx(4, {"RA"}), RaCtx(4, {"RA"})>>}

RadvInit(chains) ==
    /\ ra \in MCRas /\ live \in MCLives /\ now = 1 /\ deadline = 1 /\ lastRa = {} /\ gap = FALSE
    /\ \E cs \in chains : ctx \in Started(cs)
RadvIdle ==
    /\ ra = <<>> /\ live = <<>> /\ ctx = <<>> /\ now = 0 /\ deadline = 0 /\ lastRa = {} /\ gap = FALSE

RadvNext ==
    \/ Wake
    \/ \E name \in {"eth0", "eth1"}, source \in {NoIface, "host"} : Solicited(name, source)
    \/ LinkChange(MCLives)
    \/ RadvSecond

----------------------------------------------------------------------------

Interchangeable == Permutations(Threads) \union Permutations(Macs)

ArpIdle == /\ active = <<>> /\ old = <<>> /\ age = 0 /\ kernel = {} /\ netlink = FALSE /\ script_arp = FALSE
           /\ view = {} /\ found = [addr |-> NoMac, mac |-> NoMac]

SyslogIdle ==
    /\ queue = <<>> /\ connection_type = "Dgram" /\ log_fd = NoFd /\ connection_good = TRUE
    /\ entries_lost = 0 /\ syslogd = <<>> /\ logger = <<>> /\ pid = 0 /\ submitted = 0
    /\ owed = <<>> /\ uncounted = 0

Init ==
    /\ mode \in Modes
    /\ IF mode = "dhcp6" THEN Dhcp6Init ELSE Dhcp6Idle
    /\ IF mode = "slaac" THEN SlaacInit ELSE SlaacIdle
    /\ CASE mode = "radv" -> RadvInit(Apart) [] mode = "radv_shared" -> RadvInit(Together) [] OTHER -> RadvIdle
    /\ IF mode = "arp" THEN ArpInit ELSE ArpIdle
    /\ IF mode = "syslog" THEN SyslogInit ELSE SyslogIdle

Next ==
    \/ mode = "dhcp6" /\ Dhcp6Next /\ UNCHANGED <<slaacVars, radvVars, arpVars, syslogVars, mode>>
    \/ mode = "slaac" /\ SlaacNext /\ UNCHANGED <<dhcp6Vars, radvVars, arpVars, syslogVars, mode>>
    \/ mode \in {"radv", "radv_shared"} /\ RadvNext /\ UNCHANGED <<dhcp6Vars, slaacVars, arpVars, syslogVars, mode>>
    \/ mode = "arp" /\ ArpNext /\ UNCHANGED <<dhcp6Vars, slaacVars, radvVars, syslogVars, mode>>
    \/ mode = "syslog" /\ SyslogNext /\ UNCHANGED <<dhcp6Vars, slaacVars, radvVars, arpVars, mode>>

Spec == Init /\ [][Next]_<<dhcp6Vars, slaacVars, radvVars, arpVars, syslogVars, mode>>

=============================================================================
