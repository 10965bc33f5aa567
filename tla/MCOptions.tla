----------------------------- MODULE MCOptions -----------------------------
(***************************************************************************)
(* DHCPv4 replies, relays and /etc/ethers, the events of the script helper *)
(* and the packet dump, over every small input: a behaviour picks one      *)
(* input and computes the answer of the code for it.                       *)
(***************************************************************************)
EXTENDS Reply4, TLC

Fr == INSTANCE Frames

VARIABLES job, answer, done
vars == <<job, answer, done>>

Tag(neg, wild, name) == [neg |-> neg, wild |-> wild, name |-> name]
Red == <<"r">>
Blue == <<"b">>
Opt(code, val, flags, netid) ==
    [opt |-> code, val |-> val, flags |-> flags, netid |-> netid, vendor_class |-> <<>>]
Is(name) == {Tag(FALSE, FALSE, name)}
Not(name) == {Tag(TRUE, FALSE, name)}
TagSets == {{}, Is(Red), Is(Blue), Not(Blue), {Tag(FALSE, TRUE, <<>>)}, Is(Red) \cup Is(Blue)}

(* --- which options the tags select *)
Selectable == {Opt(c, <<1>>, f, n) : c \in {NETMASK, ROUTER}, f \in {{}, {"pxe"}}, n \in TagSets}
Rules == {<<>>, <<[tag |-> Is(Red), set |-> <<Blue>>]>>, <<[tag |-> Not(Red), set |-> <<Blue>>]>>,
          <<[tag |-> Is(Blue), set |-> <<Red>>], [tag |-> Is(Red), set |-> <<<<"x">>>>]>>}
FilterJobs == [op : {"filter"}, opts : {<<x, y>> : x \in Selectable, y \in Selectable}
                                       \cup {<<x, Opt(ROUTER, <<1>>, {}, {}), y>> : x \in Selectable, y \in Selectable},
               tags : {<<>>, <<Red>>}, context : {<<>>, <<Blue>>}, pxemode : 0..1, rules : Rules]

(* --- replies: one context, options of every kind, a request *)
Context == [start |-> 16, end |-> 20, netmask |-> 0, broadcast |-> 0, router |-> 0, local |-> 0, lease_time |-> 40,
            netid |-> Blue, static |-> FALSE, proxy |-> FALSE, fixed_mask |-> FALSE, fixed_brdcast |-> FALSE]
Near == [local |-> 21, netmask |-> 16, broadcast |-> 31]
Far == [local |-> 53, netmask |-> 16, broadcast |-> 63]
Custom == {Opt(66, <<0>>, {"addr", "force"}, {}), Opt(66, <<9>>, {"string"}, Is(Blue)), Opt(T1, <<39>>, {}, {}),
           Opt(T2, <<5>>, {}, {}), Opt(67, <<>>, {}, Is(Red)), Opt(VENDOR_ID, <<7>>, {"force"}, {}),
           [Opt(5, <<8>>, {"vendor", "force"}, {Red}) EXCEPT !.vendor_class = <<88>>]}
Rule(kind, data) == [kind |-> kind, data |-> data, set |-> <<Red>>, subopt |-> 1, hw |-> <<1, 2>>, wild |-> {1},
                     htype |-> 0, opt |-> HOSTNAME, val |-> <<3>>, flags |-> {}, name |-> <<3>>, wildcard |-> TRUE]
ClientOptions ==
    {FlattenSeq(<<list, vendor, agent, class, <<END>>>>) :
        list \in {<<>>, <<REQUESTED_OPTIONS, 2, 66, ROUTER>>, <<REQUESTED_OPTIONS, 3, T1, END, 66>>},
        vendor \in {<<>>, <<VENDOR_ID, 2, 80, 88>>, <<VENDOR_ID, 1, 88>>},
        agent \in {<<>>, <<AGENT_ID, 3, 1, 1, 7>>},
        class \in {<<>>, <<HOSTNAME, 2, 3, 4>>, <<USER_CLASS, 2, 1, 6>>, <<USER_CLASS, 2, 6, 9>>}}
Pkt(type, options) ==
    [type |-> type, op |-> BOOTREQUEST, hops |-> 0, htype |-> 1, chaddr |-> <<1, 3>>, ciaddr |-> 0, giaddr |-> 0,
     options |-> options]
ReplyTypes == [discover |-> "offer", request |-> "ack", inform |-> "ack", bootp |-> "bootp"]
ReplyJobs ==
    [op : {"reply"}, type : DOMAIN ReplyTypes, client : ClientOptions, arrival : {None, Near, Far},
     opts : {<<x, y>> : x \in Custom, y \in Custom},
     rules : {<<Rule("vendor", <<88>>), Rule("class", <<6>>), Rule("mac", <<>>), Rule("agent", <<7>>),
                Rule("match", <<>>), Rule("name", <<>>)>>}]
BootDefault == [netid |-> {}, next_server |-> 0, file |-> <<1>>]
Bare(j) == [type |-> ReplyTypes[j.type], siaddr |-> 21, file |-> <<>>, yiaddr |-> IF j.type = "inform" THEN 0 ELSE 17,
            options |-> IF j.type = "bootp" THEN <<>> ELSE option_put(<<>>, MESSAGE_TYPE, 2)]
Host == [name |-> <<5>>, netid |-> <<>>]
Server(j) == [contexts |-> ArrivalContexts(<<Context>>, j.arrival), dhcp_opts |-> j.opts, tag_rules |-> <<>>,
              boots |-> <<BootDefault>>, domain |-> <<4>>]
VendorArea == 16   \* 64 bytes
Bounded(j, r) == IF j.type = "bootp" THEN [r EXCEPT !.options = cap_vendor_area(@, VendorArea)] ELSE r
DecoratedFor(j, pkt) == Bounded(j, decorate_reply(Bare(j), pkt, Server(j), derived_tags(pkt, j.rules), Host))
Decorated(j) == DecoratedFor(j, Pkt(j.type, j.client))

(* --- lease queries *)
Lease == [addr |-> 17, clid |-> <<1, 1>>, left |-> 30, name |-> <<5>>, vendorclass |-> None, agent_id |-> <<1, 1, 7>>]
QueryJobs == [op : {"query"}, client : ClientOptions, left : {5, 30, 40, Infinite}, known : BOOLEAN,
              opts : {<<x, y>> : x \in Custom, y \in Custom}]
Queried(j) ==
    LET f == option_filter(<<>>, <<Blue>>, j.opts, 0, <<>>)
    IN  handle_leasequery(Pkt("query", j.client), IF j.known THEN 13 ELSE LEASEUNKNOWN,
                          IF j.known THEN [Lease EXCEPT !.left = j.left] ELSE None, <<Context>>, f, <<4>>, 40)

(* --- relays: an interface with index 2 facing the clients, an uplink *)
Relay(split, uplink, interface) ==
    [local |-> 10, server |-> 90, uplink |-> uplink, interface |-> interface,
     iface_index |-> IF split THEN 0 ELSE 2, split |-> split]
Relays == {Relay(FALSE, 0, None), Relay(FALSE, 0, "up"), Relay(TRUE, 50, None),
           [Relay(FALSE, 0, "up") EXCEPT !.server = 0], [Relay(FALSE, 0, None) EXCEPT !.local = 11]}
Facing == [addr |-> 10, index |-> 2]
Resolve == [up |-> [addr |-> 50, broadcast |-> 63]]
RelayJobs(relays, padding) ==
    [op : {"relay"}, relays : {<<x>> : x \in relays} \cup {<<x, y>> : x \in relays, y \in relays},
     giaddr : {0, 10, 70}, hops : {0, 21}, padding : padding, ciaddr : {0, 12},
     offer : {<<END>>, <<ROUTER, 1, 9, END>>}]
\* The server behind the relay answers as RFC 3046 has it: the agent's
\* option comes back, last.
Answered(p, offer) ==
    LET agent == find_option(p.options, AGENT_ID)
    IN  [p EXCEPT !.op = BOOTREPLY,
                  !.options = ToWire(IF agent = None THEN offer ELSE option_put_raw(offer, AGENT_ID, agent), MinOptions)]
Returned(j, out) ==
    [i \in DOMAIN out |->
        [sent |-> out[i], back |-> RelayDispatch(Answered(out[i].packet, j.offer), j.relays, Facing, "up", Resolve)]]
Round(j) ==
    Returned(j, RelayDispatch([Pkt("discover", <<MESSAGE_TYPE, 1, 1, END>> \o j.padding) EXCEPT
                                  !.giaddr = j.giaddr, !.hops = j.hops, !.ciaddr = j.ciaddr],
                              j.relays, Facing, "up", Resolve).out)

(* --- /etc/ethers *)
Key(addr, name) == [addr |-> addr, name |-> name]
Lines == [hw : {None, "m1", "m2"}, key : {None, Key(1, None), Key(2, None), Key(0, "n")}]
HostEntry(addr, name, hw) == [from_ethers |-> FALSE, addr |-> addr, name |-> name, hwaddrs |-> hw]
Hosts == {HostEntry(a, n, h) : a \in {0, 1}, n \in {None, "n"}, h \in {<<>>, <<"m1">>, <<"m1", "m2">>}}
Files == {<<x, y>> : x \in Lines, y \in Lines}
Records(file) == {file[i] : i \in {k \in DOMAIN file : file[k].hw # None /\ file[k].key # None}}
Plain(file) == /\ \A i, k \in DOMAIN file : i # k => file[i].hw # file[k].hw /\ file[i].key # file[k].key
Foreign(file, conf) ==
    \A r \in Records(file), i \in DOMAIN conf : ~Keyed(conf[i], r.key) /\ r.hw \notin ToSet(conf[i].hwaddrs)
EtherJobs ==
    LET confs == {<<>>} \cup {<<x>> : x \in Hosts} \cup {<<x, y>> : x \in Hosts, y \in Hosts}
    IN  UNION {[op : {"ethers"}, conf : {c}, old : {f \in Files : Foreign(f, c)}, lines : Files] :
                   c \in {<<>>} \cup {<<x>> : x \in Hosts}}
        \cup {[op |-> "ethers", conf |-> c, old |-> f, lines |-> f] : c \in confs, f \in {f \in Files : Plain(f)}}

(* --- script events through the helper's pipe *)
LeaseEvents ==
    {Fr!for_lease(a, [flags |-> f, hwaddr_type |-> 1, hwaddr |-> <<1, 0, 2>>, addr |-> 17, giaddr |-> g, addr6 |-> 66,
                      clid |-> c, expires |-> 30, extradata |-> x], h, 10) :
        a \in {Fr!Actions.del, Fr!Actions.old_hostname, Fr!Actions.add}, f \in {1, 32}, g \in {0, 70},
        c \in {<<>>, <<0, 5>>}, x \in {<<>>, <<97, 0, 0, 98, 0>>, [i \in 1 .. 26 |-> IF i % 2 = 0 THEN 0 ELSE 97]},
        h \in {None, <<104>>, <<104, 46, 100>>, <<104, 32>>}}
OtherEvents ==
    {Fr!for_arp(d, m, v6, 17) : d \in BOOLEAN, m \in {<<>>, <<1, 0>>, [i \in 1 .. 16 |-> i]}, v6 \in BOOLEAN}
        \cup {Fr!for_tftp(f, 9, v6, 18) : f \in {<<>>, <<47, 46>>}, v6 \in BOOLEAN}
        \cup {Fr!for_relay_snoop(66, <<50, 47>>, i) : i \in {<<>>, [k \in 1 .. 15 |-> 101]}}
ScriptJobs == [op : {"script"}, events : {<<x>> : x \in LeaseEvents} \cup {<<x, y>> : x \in OtherEvents, y \in LeaseEvents}
                                         \cup {<<x, y>> : x \in OtherEvents, y \in OtherEvents},
               log_dhcp : BOOLEAN]

(* --- the packet dump: packets, a device that fills up, restarts *)
At4(n) == [ip |-> <<10, 0, 0, n>>, port |-> 50 + n]
At6(n) == [ip |-> [i \in 1 .. 16 |-> IF i = 16 THEN n ELSE 254], port |-> 65535]
Dumped == [src : {None, At4(1), At6(1)}, dst : {None, At4(2), At6(255)}, local : {None, At4(3)},
           payload : {<<>>, <<1>>, <<8, 0, 255, 255, 17>>}, room : {0, 1, 9, 99}, wanted : {TRUE}]
Restart == [wanted |-> FALSE]
DumpJobs == [op : {"dump"}, kind : {"absent", "fifo"}, icmp : BOOLEAN, steps : {<<x>> : x \in Dumped}]
                \cup [op : {"dump"}, kind : {"absent"}, icmp : BOOLEAN,
                      steps : {<<x, Restart, y>> : x \in {d \in Dumped : d.local = None /\ d.src # None},
                                                   y \in {d \in Dumped : d.local # None /\ d.room = 99}}]
Written(j) ==
    LET step(h, s) == IF ~s.wanted THEN Fr!DumpInit("file", h.file)
                      ELSE IF j.icmp THEN Fr!dump_packet_icmp(h, TRUE, s.src, s.dst, s.payload, s.room)
                      ELSE Fr!dump_packet_udp(h, TRUE, s.src, s.dst, s.local, s.payload, s.room)
        After[i \in 0 .. Len(j.steps)] == IF i = 0 THEN Fr!DumpInit(j.kind, <<>>) ELSE step(After[i - 1], j.steps[i])
    IN  After[Len(j.steps)]

Init == /\ job \in FilterJobs \cup ReplyJobs \cup QueryJobs \cup RelayJobs(Relays, {<<>>}) \cup EtherJobs
                  \cup ScriptJobs \cup DumpJobs
        /\ answer = None
        /\ done = FALSE

Filter == job.op = "filter" /\ answer' = option_filter(job.tags, job.context, job.opts, job.pxemode, job.rules)
Decorate == job.op = "reply" /\ answer' = Decorated(job)
Query == job.op = "query" /\ answer' = Queried(job)
Pass == job.op = "relay" /\ answer' = Round(job)
ReadEthers == job.op = "ethers" /\ answer' = dhcp_read_ethers(dhcp_read_ethers(job.conf, job.old), job.lines)
RunScripts == /\ job.op = "script"
              /\ answer' = Fr!run_helper_loop(FlattenSeq([i \in DOMAIN job.events |-> Fr!encode(job.events[i])]), "cmd",
                                              job.log_dhcp)
Dump == job.op = "dump" /\ answer' = Written(job)

Next == /\ ~done
        /\ done' = TRUE
        /\ Filter \/ Decorate \/ Query \/ Pass \/ ReadEthers \/ RunScripts \/ Dump
        /\ UNCHANGED job
Spec == Init /\ [][Next]_vars

----------------------------------------------------------------------------

\* Whether an option applies to the client under all its tags.
Eligible(o) ==
    LET tags == run_tag_if(job.tags, job.rules)
        all  == IF job.context = <<>> THEN tags ELSE run_tag_if(job.context \o tags, job.rules)
    IN  match_netid_wild(o.netid, all) /\ pxe_ok(o, job.pxemode)

\* The four passes of option_filter leave one value for every option code
\* that has an applicable value, and it is one whose tags match whenever
\* there is such a one.
OneValuePerOption ==
    (done /\ job.op = "filter") =>
        \A code \in {NETMASK, ROUTER} :
            LET fit == {i \in DOMAIN job.opts : job.opts[i].opt = code /\ Eligible(job.opts[i])}
                ok  == {i \in DOMAIN answer.opts : answer.opts[i].opt = code /\ "tagok" \in answer.opts[i].flags}
            IN  /\ ok \subseteq fit
                /\ Cardinality(ok) = IF fit = {} THEN 0 ELSE 1
                /\ (\E i \in fit : job.opts[i].netid # {}) => \A i \in ok : job.opts[i].netid # {}

\* The codes of an option area, in order, up to END; None when it is cut.
Codes(area) ==
    LET At[i \in 1..Len(area) + 1] ==
            IF i > Len(area) THEN None
            ELSE IF area[i] = END THEN <<>>
            ELSE IF i + 1 > Len(area) \/ i + 1 + area[i + 1] > Len(area) THEN None
            ELSE IF At[i + 2 + area[i + 1]] = None THEN None ELSE <<area[i]>> \o At[i + 2 + area[i + 1]]
    IN  At[1]

\* A reply is a well-formed option area however it was put together: every
\* configured option that applies and is asked for (or forced) is found with
\* its value, the relay's option comes back as the last one, and a reply to
\* a lease query holds nothing that was not asked for (do_options,
\* decorate_reply, handle_leasequery); a BOOTP reply fits the vendor area
\* (cap_vendor_area).
ReplyReadable ==
    (done /\ job.op \in {"reply", "query"}) =>
        LET codes == Codes(answer.options)
            req   == IF job.op = "reply" /\ job.type = "bootp" THEN None ELSE find_option(job.client, REQUESTED_OPTIONS)
            agent == find_option(job.client, AGENT_ID)
        IN  /\ codes # None
            /\ (job.op = "reply" /\ job.type = "bootp") => Len(answer.options) <= VendorArea
            /\ (job.op = "reply" /\ job.type # "bootp") =>
                  /\ agent # None => Last(codes) = AGENT_ID /\ find_option(answer.options, AGENT_ID) = agent
                  /\ \A i \in DOMAIN job.opts :
                        (/\ job.opts[i].opt = 66 /\ job.opts[i].netid = {}
                         /\ \A k \in DOMAIN job.opts : job.opts[k].opt = 66 => k = i) =>
                              find_option(answer.options, 66) # None
            /\ (job.op = "query" /\ req # None) =>
                  \A i \in 2..Len(codes) : in_list(req, codes[i])

\* Whatever timers are configured, a client that gets a lease of two seconds
\* or more renews before it rebinds and rebinds before the lease is over
\* (do_options).
TimersOrdered ==
    (done /\ job.op = "reply") =>
        LET t(code) == find_option(answer.options, code)
        IN  (t(T1) # None /\ t(LEASE_TIME) # None) =>
                t(T1)[1] < t(T2)[1] /\ t(T2)[1] < t(LEASE_TIME)[1]

\* The three together: the options of a reply say each thing once, can be
\* read to the end and give timers in order (do_options, decorate_reply).
RepliesWellFormed == OneValuePerOption /\ ReplyReadable /\ TimersOrdered

\* A request sent upstream through a relay and answered by the server comes
\* back to the interface the client is on, with what the server said and
\* without the option the relay had added (relay_upstream4, relay_reply4).
RelayReturns ==
    (done /\ job.op = "relay") =>
        \A i \in DOMAIN answer :
            (answer[i].sent.packet.giaddr = answer[i].sent.from) =>
                LET back == answer[i].back.back
                IN  /\ back # None /\ back.iface = Facing.index
                    /\ find_option(back.pkt.options, AGENT_ID) = None
                    /\ find_option(back.pkt.options, ROUTER) = find_option(job.offer, ROUTER)

\* Reading /etc/ethers again, as every SIGHUP does, gives what reading it
\* once gives: nothing is left of an earlier file that named no configured
\* host, and nothing changes when the file, which names no machine, address
\* or name twice, is the same (apply_ethers_records).
EthersRerun ==
    (done /\ job.op = "ethers") => answer = dhcp_read_ethers(job.conf, job.lines)

\* A script run through the helper's pipe is the script a direct call of
\* run_script_child would run, for every event in the order of sending: no
\* event shifts the ones behind it (encode, decode_header, run_helper_loop).
ScriptsAsSent ==
    (done /\ job.op = "script") =>
        answer = [i \in DOMAIN job.events |->
                     Fr!run_script_child(Fr!ActionName(job.events[i].action), job.events[i], job.log_dhcp)]

\* The frames a reader of the dump file finds.
FramesIn(file) ==
    LET From[pos \in 1 .. Len(file)] ==
            IF pos + 2 > Len(file) THEN <<>>
            ELSE LET next == pos + 2 + file[pos + 2]
                 IN  IF next > Len(file) THEN <<>> ELSE <<SubSeq(file, pos + 3, next)>> \o From[next]
    IN  From[1]
\* The frame a packet makes: None where an end is unknown or the families
\* differ.
FrameOf(j, s) ==
    LET end(e) == IF e = None /\ ~j.icmp THEN s.local ELSE e
        src == end(s.src)
        dst == end(s.dst)
    IN  IF src = None \/ dst = None THEN None
        ELSE IF Len(src.ip) # Len(dst.ip) THEN None
        ELSE IF j.icmp THEN Fr!frame_icmp(src.ip, dst.ip, s.payload)
        ELSE Fr!frame_udp(src.ip, src.port, dst.ip, dst.port, s.payload)
\* What a receiver checks: the IPv4 header's sum and the transport's.
Sound(frame, proto) ==
    LET v6 == frame[1] = 96
        head == IF v6 THEN 40 ELSE 20
        src == IF v6 THEN SubSeq(frame, 9, 24) ELSE SubSeq(frame, 13, 16)
        dst == IF v6 THEN SubSeq(frame, 25, 40) ELSE SubSeq(frame, 17, 20)
        segment == SubSeq(frame, head + 1, Len(frame))
    IN  /\ v6 \/ Fr!WordSum(SubSeq(frame, 1, 20)) = 2^16 - 1
        /\ (proto = 17 \/ (v6 /\ Len(segment) >= 4)) =>
               Fr!WordSum(Fr!Pseudo(src, dst, proto, Len(segment)) \o segment) = 2^16 - 1

\* The dump file reads back over a full device and a restart: the packets
\* before a torn record are all found in order; when none is torn nothing
\* else is found, and the count, also one recovered from the old file, is
\* their number; every UDP and ICMPv6 frame passes the receiver's checks
\* (write_record, DumpHandle::init, frame_udp_ipv4 and the other framings).
DumpReadsBack ==
    (done /\ job.op = "dump") =>
        LET written(i) == job.steps[i].wanted /\ job.steps[i].room > 0 /\ FrameOf(job, job.steps[i]) # None
            torn(i) == written(i) /\ job.steps[i].room < 2 + Len(FrameOf(job, job.steps[i]))
            whole == SelectSeq([i \in DOMAIN job.steps |-> i],
                               LAMBDA i : written(i) /\ ~ \E k \in 1 .. i : torn(k))
            sent == [n \in DOMAIN whole |-> FrameOf(job, job.steps[whole[n]])]
            found == FramesIn(answer.file)
        IN  /\ IsPrefix(sent, found)
            /\ (~ \E i \in DOMAIN job.steps : torn(i)) => found = sent /\ answer.count = Len(sent)
            /\ \A i \in DOMAIN sent : Sound(sent[i], IF job.icmp THEN 58 ELSE 17)

\* Both streams of framed records the daemon writes are read as they were
\* written: the helper's pipe and the packet dump.
StreamsReadBack == ScriptsAsSent /\ DumpReadsBack

=============================================================================
