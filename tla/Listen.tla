------------------------------- MODULE Listen -------------------------------
(***************************************************************************)
(* Where the daemon listens: which addresses of which interfaces the       *)
(* --interface, --except-interface, --listen-address and --auth-server     *)
(* directives admit, which sockets are bound in each of the three binding  *)
(* modes, and which datagrams the arrival filter lets through afterwards.  *)
(*                                                                         *)
(* An interface name is a sequence of name parts; a pattern may end in     *)
(* "*".  An address is a pair of its family, 4 or 6, and the rest.  What   *)
(* the kernel knows of an address is a record                              *)
(*    [dev, label, index, addr, loopback, link_local, tentative]           *)
(* with label = <<>> for an address that has no label.                     *)
(***************************************************************************)
EXTENDS Naturals, Sequences, FiniteSets, SequencesExt

IsV6(addr) == addr[1] = 6

----------------------------------------------------------------------------
(* Enumeration: what the daemon learns of the live addresses.              *)

Info(name, label, index, k, dad) ==
    [name |-> name, label |-> label, index |-> index, addr |-> k.addr,
     loopback |-> k.loopback, link_local |-> k.link_local, dad |-> dad]

LabelOrDev(k) == IF k.label = <<>> THEN k.dev ELSE k.label

\* getifaddrs: a labelled address goes by its label, and an alias has no
\* interface index of its own; nothing is known of DAD.
enumerate_interfaces(kernel) ==
    [n \in DOMAIN kernel |->
        LET k == kernel[n]
        IN  Info(LabelOrDev(k), <<>>, IF LabelOrDev(k) = k.dev THEN k.index ELSE 0, k, FALSE)]

\* Netlink: the IPv6 addresses, then the IPv4 ones, with the label as the
\* name too; the loopback mark comes from getifaddrs, by name.
enumerate_interfaces_netlink(kernel) ==
    LET six  == SelectSeq(kernel, LAMBDA k : IsV6(k.addr))
        four == SelectSeq(kernel, LAMBDA k : ~IsV6(k.addr))
        lo   == {i.name : i \in {j \in ToSet(enumerate_interfaces(kernel)) : j.loopback}}
        Marked(i) == [i EXCEPT !.loopback = i.name \in lo]
    IN  [n \in DOMAIN six |-> Marked(Info(six[n].dev, <<>>, six[n].index, six[n], six[n].tentative))] \o
        [n \in DOMAIN four |-> Marked(Info(LabelOrDev(four[n]), four[n].label, four[n].index, four[n], FALSE))]

enumerate_interfaces_for_dns(kernel, netlink) ==
    IF netlink THEN enumerate_interfaces_netlink(kernel) ELSE enumerate_interfaces(kernel)

\* The interfaces on which the DHCPv6 groups are joined, each once.
join_dhcp6_multicast_all_interfaces(kernel) ==
    {i.index : i \in {j \in ToSet(enumerate_interfaces(kernel)) : IsV6(j.addr)}} \ {0}

----------------------------------------------------------------------------
(* Filtering.                                                              *)

iface_name_matches(name, pattern) ==
    IF pattern # <<>> /\ Last(pattern) = "*"
    THEN IsPrefix(Front(pattern), name)
    ELSE name = pattern

\* IfaceCheckConfig: patterns to allow and to deny, addresses to listen on,
\* and the nameless (<<>>) --interface of --local-service=host.
iface_check_config(daemon) ==
    [allow   |-> daemon.if_names \ {<<>>},
     deny    |-> daemon.if_except \ {<<>>},
     addrs   |-> daemon.if_addrs,
     unnamed |-> <<>> \in daemon.if_names]

iface_allowed_config(daemon) ==
    [dhcp_except |-> {e \in daemon.dhcp_except : e.pattern # <<>>},
     tftp_ifaces |-> daemon.tftp_interfaces \ {<<>>},
     auth        |-> daemon.auth_interfaces]

HasIfNames(c) == c.unnamed \/ c.allow # {}
Restricted(c) == HasIfNames(c) \/ c.addrs # {}

\* iface_check_used: whether an address of an interface is admitted, and the
\* entries that matched.  An address match outranks --except-interface.
MatchedNames(name, c) == {p \in c.allow : iface_name_matches(name, p)}
MatchedAddrs(addr, c) == c.addrs \intersect {addr}

iface_check(name, addr, c) ==
    /\ Restricted(c) => MatchedNames(name, c) # {} \/ MatchedAddrs(addr, c) # {}
    /\ MatchedAddrs(addr, c) # {} \/ ~\E p \in c.deny : iface_name_matches(name, p)

\* The form router advertisements use: there is no address to match.
iface_check_name(name, c) ==
    /\ Restricted(c) => \E p \in c.allow : iface_name_matches(name, p)
    /\ ~\E p \in c.deny : iface_name_matches(name, p)

\* --auth-server entries: [name, v4, v6, addr]; a name without a family
\* stands for both, an entry without a name matches its address.
auth_interface_match(name, addr, entries) ==
    \E e \in entries :
        IF e.name # <<>>
        THEN e.name = name /\ ((~e.v4 /\ ~e.v6) \/ (IF IsV6(addr) THEN e.v6 ELSE e.v4))
        ELSE e.addr = addr

EffectiveName(i) == IF IsV6(i.addr) \/ i.label = <<>> THEN i.name ELSE i.label

\* iface_allowed_v4 and _v6: whether the address joins the served set, and
\* what else may be offered on it.  Loopback and auth-DNS interfaces get no
\* DHCP and no TFTP.
Admits(i, c, o) ==
    \/ iface_check(EffectiveName(i), i.addr, c)
    \/ auth_interface_match(EffectiveName(i), i.addr, o.auth)

\* --no-dhcp-interface entries are [pattern, v4, v6]: any match also turns
\* TFTP off, the family bits decide about DHCP.
Excepted(i, o) == {e \in o.dhcp_except : iface_name_matches(i.name, e.pattern)}

Record(i, o) ==
    LET auth == auth_interface_match(EffectiveName(i), i.addr, o.auth)
        dhcp == ~i.loopback /\ ~auth /\ ~\E e \in Excepted(i, o) : IF IsV6(i.addr) THEN e.v6 ELSE e.v4
    IN  [name     |-> i.name, index |-> i.index, addr |-> i.addr,
         loopback |-> i.loopback, link_local |-> i.link_local, dad |-> i.dad,
         is_label |-> EffectiveName(i) # i.name,
         auth_dns |-> auth,
         dhcp4_ok |-> dhcp /\ ~IsV6(i.addr),
         dhcp6_ok |-> dhcp /\ IsV6(i.addr),
         tftp_ok  |-> /\ ~auth
                      /\ Excepted(i, o) = {}
                      /\ IF o.tftp_ifaces = {} THEN ~i.loopback
                         ELSE \E p \in o.tftp_ifaces : iface_name_matches(i.name, p)]

\* enumerate_allowed_interfaces walks the live addresses in order.  A config
\* with --interface gains every loopback interface by name on the way, and
\* that addition stays for the addresses after it.
EnumerateStep(acc, i, o) ==
    LET check == IF HasIfNames(acc.check) /\ i.loopback /\ i.name \notin acc.check.allow
                 THEN [acc.check EXCEPT !.allow = @ \union {i.name}]
                 ELSE acc.check
        synthesised == check.allow \ acc.check.allow
        twice == \E r \in ToSet(acc.interfaces) : r.addr = i.addr /\ r.index = i.index
    IN  IF twice
        THEN [acc EXCEPT !.check = check, !.used = @ \union synthesised]
        ELSE [check      |-> check,
              used       |-> acc.used \union synthesised \union MatchedNames(EffectiveName(i), check),
              addrs      |-> acc.addrs \union MatchedAddrs(i.addr, check),
              interfaces |-> IF Admits(i, check, o)
                             THEN Append(acc.interfaces, Record(i, o))
                             ELSE acc.interfaces]

enumerate_allowed_interfaces(kernel, netlink, c, o) ==
    FoldLeft(LAMBDA acc, i : EnumerateStep(acc, i, o),
             [check |-> c, used |-> {}, addrs |-> {}, interfaces |-> <<>>],
             enumerate_interfaces_for_dns(kernel, netlink))

unmatched_names(e) == e.check.allow \ e.used
unmatched_addrs(e) == e.check.addrs \ e.addrs

----------------------------------------------------------------------------
(* Sockets.                                                                *)

\* The address a listener binds: link-local needs its interface's scope.
listen_addr(r) == [addr |-> r.addr, scope |-> IF IsV6(r.addr) /\ r.link_local THEN r.index ELSE 0]

\* make_sock: only a failing socket() can mean "no such family", only a
\* failing bind() "no such address"; `fails' names the call that fails.
make_sock(fails) ==
    CASE fails = "none" -> "ok"
      [] fails = "socket_family" -> "no_family"
      [] fails = "bind_absent" -> "not_available"
      [] OTHER -> "error"

\* Whether the kernel is asked for the arrival interface of each datagram.
Pktinfo(a, nowild) == IsV6(a.addr) \/ ~nowild

create_listeners_checked(a, fails, cleverbind) ==
    LET r == make_sock(fails[a.addr])
    IN  CASE r = "ok" -> "made"
          [] r = "no_family" -> "skipped"
          [] r = "not_available" /\ cleverbind -> "skipped"
          [] OTHER -> "failed"

\* create_bound_listeners_checked: one socket per address, shared by the
\* interfaces that carry it; the first failure ends it.
Shared(records) == {listen_addr(r) : r \in records}

create_bound_listeners(records, fails, cleverbind) ==
    LET made == [a \in Shared(records) |-> create_listeners_checked(a, fails, cleverbind)]
    IN  [failed |-> \E a \in DOMAIN made : made[a] = "failed",
         socks  |-> {a \in DOMAIN made : made[a] = "made"}]

\* The two wildcard sockets; a family without support is skipped quietly.
Wildcards == {[addr |-> <<4, "any">>, scope |-> 0], [addr |-> <<6, "any">>, scope |-> 0]}

create_wildcard_listeners(fails) ==
    [failed |-> \E a \in Wildcards : create_listeners_checked(a, fails, FALSE) = "failed",
     socks  |-> {a \in Wildcards : create_listeners_checked(a, fails, FALSE) = "made"}]

\* A --listen-address no interface carries is bound as well, with the
\* unscoped address; --bind-dynamic may wait for it.
UnmatchedListen(e, socks, fails, cleverbind) ==
    LET wanted == {[addr |-> x, scope |-> 0] : x \in unmatched_addrs(e)} \ socks
    IN  [failed |-> \E a \in wanted :
                        \/ create_listeners_checked(a, fails, cleverbind) = "failed"
                        \/ create_listeners_checked(a, fails, cleverbind) = "skipped" /\ ~cleverbind,
         socks  |-> {a \in wanted : create_listeners_checked(a, fails, cleverbind) = "made"}]

\* The per-datagram check that goes with the sockets.
Filter(check, o, interfaces, cleverbind) ==
    [check |-> check, opts |-> o, interfaces |-> interfaces, cleverbind |-> cleverbind]

\* IPv4 sockets under --bind-interfaces are the only ones left unchecked.
CheckDst(a, nowild) == ~nowild \/ IsV6(a.addr)

Refused == [failed |-> TRUE]

\* bind_dns_listeners.
BindWildcard(e, o, fails) ==
    LET w == create_wildcard_listeners(fails)
    IN  IF w.failed \/ w.socks = {} THEN Refused
        ELSE [failed |-> FALSE, socks |-> w.socks, checked |-> {a \in w.socks : CheckDst(a, FALSE)},
              filter |-> Filter(e.check, o, e.interfaces, FALSE)]

BindEach(e, o, fails, cleverbind) ==
    LET ready == SelectSeq(e.interfaces, LAMBDA r : ~r.dad)
        own   == create_bound_listeners(ToSet(ready), fails, cleverbind)
        extra == UnmatchedListen(e, own.socks, fails, cleverbind)
        socks == own.socks \union extra.socks
    IN  IF own.failed \/ extra.failed \/ (~cleverbind /\ unmatched_names(e) # {}) THEN Refused
        ELSE [failed |-> FALSE, socks |-> socks,
              checked |-> {a \in socks : CheckDst(a, ~cleverbind)},
              filter |-> Filter(e.check, o, ready, cleverbind)]

bind_dns_listeners(kernel, netlink, daemon, nowild, cleverbind, fails) ==
    LET o == iface_allowed_config(daemon)
        e == enumerate_allowed_interfaces(kernel, netlink, iface_check_config(daemon), o)
    IN  IF nowild /\ cleverbind THEN Refused
        ELSE IF ~nowild /\ ~cleverbind THEN BindWildcard(e, o, fails)
        ELSE BindEach(e, o, fails, cleverbind)

\* bind_tftp_listeners: addresses on which TFTP is allowed, DAD or not.
bind_tftp_listeners(kernel, netlink, daemon, nowild, cleverbind, fails) ==
    LET e == enumerate_allowed_interfaces(kernel, netlink, iface_check_config(daemon),
                                          iface_allowed_config(daemon))
    IN  IF ~nowild /\ ~cleverbind THEN create_wildcard_listeners(fails)
        ELSE create_bound_listeners({r \in ToSet(e.interfaces) : r.tftp_ok}, fails, cleverbind)

----------------------------------------------------------------------------
(* Arrival.                                                                *)

IsUnrestricted(f) == ~Restricted(f.check) /\ f.check.deny = {}

loopback_exception(arrived_on_loopback, dest, interfaces) ==
    arrived_on_loopback /\ \E r \in ToSet(interfaces) : r.addr = dest

label_exception(index, dest, interfaces) ==
    \E r \in ToSet(interfaces) : r.index = index /\ r.addr = dest

\* The names of the interfaces by index, as the kernel has them now.
indextoname(kernel, index) == {k.dev : k \in {j \in ToSet(kernel) : j.index = index}}

\* ArrivalFilter::refresh, on every rejection outside --bind-dynamic.
RefreshFilter(f, kernel, netlink) ==
    IF f.cleverbind THEN f
    ELSE LET e == enumerate_allowed_interfaces(kernel, netlink, f.check, f.opts)
         IN  [f EXCEPT !.check = e.check, !.interfaces = e.interfaces]

\* Fault: the alias exception is forgotten.
NoLabels(f, kernel, netlink, index, dest) ==
    \/ IsUnrestricted(f)
    \/ \E name \in indextoname(kernel, index) :
          \/ iface_check(name, dest, f.check)
          \/ LET now == RefreshFilter(f, kernel, netlink).interfaces
             IN  loopback_exception(\E r \in ToSet(now) : r.index = index /\ r.loopback, dest, now)

accepts(f, kernel, netlink, index, dest) ==
    \/ IsUnrestricted(f)
    \/ \E name \in indextoname(kernel, index) :
          \/ iface_check(name, dest, f.check)
          \/ LET now == RefreshFilter(f, kernel, netlink).interfaces
             IN  \/ loopback_exception(\E r \in ToSet(now) : r.index = index /\ r.loopback, dest, now)
                 \/ ~IsV6(dest) /\ label_exception(index, dest, now)

\* is_dad_listeners: some address is still being probed and not bound.
is_dad_listeners(interfaces, bound, nowild) ==
    nowild /\ \E r \in ToSet(interfaces) : r.dad /\ listen_addr(r) \notin bound

\* The warnings of the two non-dynamic modes, as the set of records they name.
warn_bound_listeners(interfaces, private_net) ==
    {r \in ToSet(interfaces) : ~r.auth_dns /\ ~IsV6(r.addr) /\ r.addr \notin private_net}
warn_wild_labels(interfaces) == {r \in ToSet(interfaces) : r.is_label}

\* parse_resolv_conf: a line is [word, addr, scope]; other words and
\* lines without an address (<<>>) are skipped, a scope only means something for v6.
parse_resolv_conf(lines, nametoindex) ==
    LET kept == SelectSeq(lines, LAMBDA l : l.word \in {"nameserver", "server"} /\ l.addr # <<>>)
    IN  [k \in DOMAIN kept |->
            [addr |-> kept[k].addr, port |-> 53,
             scope |-> IF IsV6(kept[k].addr) /\ kept[k].scope # <<>> THEN nametoindex[kept[k].scope] ELSE 0]]

=============================================================================
