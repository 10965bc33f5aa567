------------------------------ MODULE DhcpValues ------------------------------
(***************************************************************************)
(* The value parsers of option.rs for DHCP, router advertisement, bridges  *)
(* and TFTP.  OptCode gives the option names of OPTTAB their numbers,      *)
(* OptKind the numbers their kind of value.                                *)
(***************************************************************************)
EXTENDS RecordValues

CONSTANTS OptCode, OptKind

TagPrefixes == {"tag", "net"}
AnyPrefixes == {"tag", "net", "set"}

\* The number of leading tokens with one of the prefixes.
FirstStop(v, stops) == IF stops = {} THEN Len(v) ELSE (CHOOSE i \in stops : \A j \in stops : i <= j) - 1
Leading(v, ps) == FirstStop(v, {i \in DOMAIN v : StripAny(v[i], ps) = None})
Tags(v, ps) == SelectSeq(Each(LAMBDA t : StripAny(t, ps), v), LAMBDA r : r # None)
\* The leading tokens, and the rest of the value.
SplitAt(v, k) == [head |-> SubSeq(v, 1, k), rest |-> SubSeq(v, k + 1, Len(v))]
Split(v, ps) == SplitAt(v, Leading(v, ps))
\* set:x, tag:x or a bare name; the tag of a classifying rule.
RuleTag(t) == LET r == StripAny(t, {"set", "tag"})
                  name == IF r = None THEN t ELSE r
              IN IF name = "" THEN None ELSE name

----------------------------------------------------------------------------
parse_lease_time(t) == IF t \in DOMAIN Secs THEN Secs[t] ELSE None
Infinite == -1   \* 0xffffffff
parse_dhcp_host_time(t) == IF t = "infinite" THEN Infinite ELSE parse_lease_time(t)
DefaultLease == 3600
DefaultMask == "255.255.255.0"

\* dhcp-range=[tag:x,...][set:y,]start,end[,netmask][,time].  The netmask is sought
\* with find_map, whose first hit is `start` itself, and then filtered.
RangeOf(head, sets, ips, time) ==
    IF "" \in Range(Tags(head, AnyPrefixes)) \/ Len(sets) > 1 \/ Len(ips) < 2 THEN None
    ELSE [start |-> ips[1], end |-> ips[2],
          netmask |-> IF ips[1] \notin {ips[1], ips[2]} THEN ips[1] ELSE DefaultMask,
          lease |-> IF time = None THEN DefaultLease ELSE time,
          filter |-> Tags(head, TagPrefixes), netid |-> Part(sets, 1, "")]
RangeIn(s) ==
    RangeOf(s.head, Tags(s.head, {"set"}), SelectSeq(s.rest, LAMBDA t : t \in Addr4),
            IF s.rest = <<>> THEN None ELSE parse_lease_time(Last(s.rest)))
parse_dhcp_range(v) == RangeIn(Split(v, AnyPrefixes))

\* The kind of each dhcp-host field, in the order the source tries them.
HostField(t) ==
    CASE StripAny(t, TagPrefixes) # None -> "filter"
      [] StripPrefix(t, "set") # None -> "netid"
      [] StripPrefix(t, "id") # None -> "clid"
      [] t \in Addr4 -> "addr"
      [] parse_dhcp_host_time(t) # None -> "time"
      [] t = "ignore" -> "ignore"
      [] HasCut(t, ":") -> "mac"
      [] OTHER -> "name"
parse_mac_pattern(t) == IF t \in Hex THEN t ELSE None
parse_client_id(t) == IF HasCut(t, ":") THEN IF t \in Hex THEN t ELSE None ELSE t

HostFields == {"filter", "netid", "clid", "addr", "time", "ignore", "mac", "name"}
HostOf(of, filter, netid, ids, real, names) ==
    LET lastOf(s, d) == IF s = <<>> THEN d ELSE s[Len(s)]
    IN  IF /\ "" \notin Range(filter \o netid)
           /\ AllParsed(Each(parse_client_id, real))
           /\ AllParsed(Each(parse_mac_pattern, of["mac"]))
           /\ AllParsed(names) /\ Len(names) <= 1
           /\ of["mac"] # <<>> \/ ids # <<>> \/ names # <<>>
        THEN [hwaddrs |-> of["mac"], clid |-> lastOf(real, None), noclid |-> "*" \in Range(ids),
              hostname |-> Part(names, 1, None), addr |-> lastOf(of["addr"], None),
              lease |-> IF of["time"] = <<>> THEN None ELSE parse_dhcp_host_time(lastOf(of["time"], "")),
              disable |-> of["ignore"] # <<>>, filter |-> filter, netid |-> netid, bank |-> FALSE]
        ELSE None
HostById(of, ids) ==
    HostOf(of, Tags(of["filter"], TagPrefixes), Tags(of["netid"], {"set"}), ids,
           SelectSeq(ids, LAMBDA t : t # "*"), Each(parse_domain_token, of["name"]))
HostFrom(of) == HostById(of, Tags(of["clid"], {"id"}))
parse_dhcp_host(v) ==
    IF "" \in Range(v) THEN None
    ELSE HostFrom([k \in HostFields |-> SelectSeq(v, LAMBDA t : HostField(t) = k)])

\* Tag lists: tag:x, net:x or a bare name in each field.
parse_dhcp_netid_list(v) ==
    LET tag(t) == IF StripAny(t, TagPrefixes) # None THEN StripAny(t, TagPrefixes) ELSE t
    IN IF "" \in Range(v) THEN None ELSE Each(tag, v)

----------------------------------------------------------------------------
(* Boot menus and options.                                                 *)
parse_pxe_prompt(v) ==
    Checked([opt |-> 10, flags |-> {"VENDOR", "VENDOR_PXE"}, netid |-> <<>>, encap |-> 0,
             vendor |-> "", prompt |-> v[1],
             val |-> IF Part(v, 2, "") = "" THEN <<255>>
                     ELSE IF U8(v[2]) = None THEN None ELSE <<U8(v[2])>>])

PXE_CSA_NAMES == <<"x86PC", "PC98", "IA64_EFI", "Alpha", "Arc_x86", "Intel_Lean_Client",
                   "IA32_EFI", "x86-64_EFI", "Xscale_EFI", "BC_EFI", "ARM32_EFI", "ARM64_EFI">>
\* `next` is the boot type the next service with a base name of its own is given.
ServiceType(t) ==
    IF t \in Range(PXE_CSA_NAMES) THEN (CHOOSE i \in DOMAIN PXE_CSA_NAMES : PXE_CSA_NAMES[i] = t) - 1 ELSE U16(t)
ServiceOf(csa, p, type, own, next, netid) ==
    IF csa = None THEN None
    ELSE [csa |-> csa, menu |-> p[2], own |-> own, basename |-> IF own THEN type ELSE None,
          boot |-> IF own THEN next ELSE IF type = None THEN 0 ELSE U16(type),
          server |-> Part(p, 4, None), netid |-> netid]
ServiceTyped(p, type, next, netid) ==
    ServiceOf(ServiceType(p[1]), p, type, type # None /\ U16(type) = None, next, netid)
ServiceIn(s, next) ==
    IF Len(s.rest) < 2 THEN None ELSE ServiceTyped(s.rest, Part(s.rest, 3, None), next, Tags(s.head, TagPrefixes))
parse_pxe_service(v, next) == ServiceIn(Split(v, TagPrefixes), next)

\* The value of an option, by the kind of the option; an empty value is no bytes.
parse_dhcp_option_value(v, kind) ==
    CASE v = <<>> -> <<>>
      [] v # <<>> /\ kind = "addr" -> IF Range(v) \subseteq Addr4 THEN v ELSE None
      [] v # <<>> /\ kind = "name" -> EachParsed(parse_domain_token, v)
      [] v # <<>> /\ kind = "time" -> IF Len(v) = 1 /\ parse_lease_time(v[1]) # None
                                      THEN <<parse_lease_time(v[1])>> ELSE None
      [] v # <<>> /\ kind = "u8"  -> IF Len(v) = 1 /\ U8(v[1]) # None THEN <<U8(v[1])>> ELSE None
      [] v # <<>> /\ kind = "u16" -> IF Len(v) = 1 /\ U16(v[1]) # None THEN <<U16(v[1])>> ELSE None
      [] v # <<>> /\ kind = "u32" -> IF Len(v) = 1 /\ U32(v[1]) # None THEN <<U32(v[1])>> ELSE None
      [] OTHER -> v

\* dhcp-option: leading tags, at most one kind of encapsulation, the option, its value.
OptionNumber(t, name) ==
    IF name = None THEN U8(t) ELSE IF name \in DOMAIN OptCode THEN OptCode[name] ELSE None
OptionOf(code, val, tags, vendor, encap, flags) ==
    IF /\ code # None /\ val # None /\ "" \notin Range(tags)
       /\ vendor = <<>> \/ encap = <<>>
       /\ encap # <<>> => flags \intersect {"PXE_OPT", "VENDOR"} = {} /\ AllParsed(Each(U16, encap))
    THEN [opt |-> code, val |-> val, netid |-> tags,
          encap |-> IF encap = <<>> THEN 0 ELSE U16(encap[Len(encap)]),
          vendor |-> IF vendor = <<>> THEN "" ELSE vendor[Len(vendor)],
          flags |-> flags \union (IF vendor # <<>> THEN {"VENDOR"} ELSE {})
                          \union (IF encap # <<>> THEN {"ENCAPSULATE"} ELSE {}),
          prompt |-> ""]
    ELSE None
OptionCoded(code, s, flags) ==
    OptionOf(code, parse_dhcp_option_value(Tail(s.rest), IF code \in DOMAIN OptKind THEN OptKind[code] ELSE "other"),
             Tags(s.head, AnyPrefixes), Tags(s.head, {"vendor"}), Tags(s.head, {"encap"}), flags)
OptionIn(s, flags) ==
    IF s.rest = <<>> THEN None
    ELSE OptionCoded(OptionNumber(s.rest[1], StripPrefix(s.rest[1], "option")), s, flags)
parse_dhcp_option(v, flags) == OptionIn(Split(v, AnyPrefixes \union {"vendor", "encap"}), flags)

\* A classifier: an option with exactly one tag and no encapsulation.
Classifier(opt) ==
    IF opt = None THEN None
    ELSE IF opt.flags \intersect {"ENCAPSULATE", "VENDOR"} = {} /\ Len(opt.netid) = 1 THEN opt ELSE None
parse_dhcp_match(v) == Classifier(parse_dhcp_option(v, {"MATCH"}))

\* dhcp-boot=[tag:x,...]file[,server-name[,address[,tag]]]
BootOf(p, tags, next, last) ==
    LET tag == StripAny(last, AnyPrefixes)
    IN  IF "" \in Range(tags) \/ Part(p, 1, "") = "" \/ next \notin Addr4 \union {""} THEN None
        ELSE [file |-> p[1], sname |-> Part(p, 2, ""), next |-> next,
              netid |-> IF tags # <<>> \/ last = "" THEN tags ELSE <<IF tag = None THEN last ELSE tag>>]
BootIn(s) == BootOf(s.rest, Tags(s.head, AnyPrefixes), Part(s.rest, 3, ""), Part(s.rest, 4, ""))
parse_dhcp_boot(v) == BootIn(Split(v, AnyPrefixes))

----------------------------------------------------------------------------
(* Rules that set a tag, delays, relays.                                   *)

\* dhcp-vendorclass, dhcp-userclass: tag,text
parse_dhcp_vendor(v) ==
    Sized(v, 2, 2, [netid |-> RuleTag(v[1]), class |-> IF v[2] = "" THEN None ELSE v[2]])
parse_dhcp_userclass(v) == parse_dhcp_vendor(v)

\* dhcp-name-match=set:tag,name[*]; the '*' makes it a prefix match.
parse_dhcp_name_match(v) ==
    Sized(v, 2, 2, [netid |-> RuleTag(v[1]), name |-> IF v[2] = "" THEN None ELSE Left(v[2], "*"),
                    wildcard |-> HasCut(v[2], "*")])

parse_dhcp_mac(v) == Sized(v, 2, 2, [netid |-> RuleTag(v[1]), hwaddr |-> parse_mac_pattern(v[2])])

\* dhcp-circuitid, dhcp-subscrid, dhcp-remoteid: tag,text or tag,hex:hex
parse_relay_id_data(t) == IF HasCut(t, ":") /\ t \in Hex THEN <<"hex", t>> ELSE <<"text", t>>
parse_dhcp_relay_id(v, subopt) ==
    Sized(v, 2, 2, [netid |-> RuleTag(v[1]), subopt |-> subopt, data |-> parse_relay_id_data(v[2])])

\* tag-if=tag:x,...,set:y,...: both lists are built front first, so end up reversed.
parse_tag_if(v) ==
    LET set == Tags(v, {"set"})
        tag == Tags(v, {"tag"})
    IN IF (\E t \in Range(v) : StripAny(t, {"set", "tag"}) \in {None, ""}) \/ set = <<>> THEN None
       ELSE [tag |-> Reverse(tag), set |-> Reverse(set)]

parse_dhcp_reply_delay(v) ==
    LET k == Len(v) - 1
        tags == Each(LAMBDA t : StripPrefix(t, "tag"), SubSeq(v, 1, k))
    IN IF v = <<>> \/ \E i \in DOMAIN tags : tags[i] \in {None, ""} THEN None
       ELSE Checked([delay |-> U32(v[Len(v)]), filter |-> tags])

\* dhcp-alternate-port[=server[,client]]: the client port defaults to the next one,
\* which does not exist above 65535.
MaxPort == 65535
parse_dhcp_alternate_port(v) ==
    LET client == IF Len(v) = 2 THEN U16(v[2]) ELSE U16(v[1]) + 1
    IN IF v \in {<<>>, <<"">>} THEN [server |-> 1067, client |-> 1068]
       ELSE IF Len(v) > 2 \/ U16(v[1]) = None \/ client \notin 0..MaxPort THEN None
       ELSE [server |-> U16(v[1]), client |-> client]

\* dhcp-relay and dhcp-split-relay: local,server[#port][,interface] or
\* local,interface.  Split mode needs all three fields and no wildcard.
DhcpPort == [v4 |-> 67, v6 |-> 547]
AllServers == "ff05::1:3"
parse_dhcp_relay(v, split) ==
    LET starred(t) == HasCut(t, "*")
        four == v[1] \in Addr4
        fam == IF four THEN Addr4 ELSE Addr6
        server == Left(v[2], "#")
        port == IF HasCut(v[2], "#") /\ U16(Right(v[2], "#")) # None THEN U16(Right(v[2], "#"))
                ELSE IF four THEN DhcpPort.v4 ELSE DhcpPort.v6
        direct == server \in fam
        uplink == split /\ Len(v) = 3 /\ v[3] \in Addr4
        ok == /\ Len(v) \in 2..3
              /\ split => Len(v) = 3 /\ ~starred(v[3]) /\ four
              /\ four \/ v[1] \in Addr6
              /\ ~direct => Len(v) = 2 /\ ~starred(v[2])
    IN IF ~ok THEN None
       ELSE [local |-> v[1], v6 |-> ~four, port |-> port, split |-> split,
             server |-> IF direct THEN server ELSE IF four THEN "0.0.0.0" ELSE AllServers,
             uplink |-> IF uplink THEN v[3] ELSE "0.0.0.0",
             interface |-> IF uplink THEN None ELSE IF direct THEN Part(v, 3, None) ELSE server]

----------------------------------------------------------------------------
(* Interfaces: bridges, shared networks, router advertisement, TFTP.       *)

\* bridge-interface=iface,alias,...: aliases are added to the bridge of that interface,
\* which is created if there is none.
parse_bridge_interface(v, bridges) ==
    LET at == SelectInSeq(bridges, LAMBDA b : b.iface = v[1])
        aliases == SelectSeq(Tail(v), NonEmpty)
    IN IF Len(v) < 2 \/ v[1] = "" THEN None
       ELSE IF at = 0 THEN Append(bridges, [iface |-> v[1], aliases |-> aliases])
       ELSE [bridges EXCEPT ![at].aliases = @ \o aliases]

parse_shared_network(v) ==
    LET fam == IF v[2] \in Addr4 THEN Addr4 ELSE Addr6
    IN IF Len(v) < 2 \/ ~Address(v[2]) \/ (v[1] \notin fam /\ v[1] \notin DOMAIN IfIndex) THEN None
       ELSE [shared |-> v[2], match |-> IF v[1] \in fam THEN v[1] ELSE None,
             index |-> IF v[1] \in fam THEN 0 ELSE IfIndex[v[1]]]

\* ra-param=iface,[mtu:<n>|<iface>|off,][high|low,]interval[,lifetime]
MinMtu == 1280
RaMtu(mtu) ==
    IF mtu = None THEN 0 ELSE IF mtu = "off" THEN -1
    ELSE IF mtu \in DOMAIN Num THEN ParseIn(mtu, MinMtu, I32Max) ELSE 0
RaTimes(v, size, prio, j) ==
    IF Len(v) < j THEN None
    ELSE Checked([name |-> v[1], mtu |-> size, interval |-> ParseIn(v[j], 0, I32Max),
                  lifetime |-> IF Len(v) > j THEN ParseIn(v[j + 1], 0, I32Max) ELSE -1, prio |-> prio])
RaPriority(v, size, i) ==
    IF Part(v, i, "") \in {"low", "high"} THEN RaTimes(v, size, v[i], i + 1) ELSE RaTimes(v, size, "medium", i)
RaFrom(v, mtu) == RaPriority(v, RaMtu(mtu), IF mtu = None THEN 2 ELSE 3)
parse_ra_param(v) == IF Part(v, 1, "") = "" THEN None ELSE RaFrom(v, StripPrefix(Part(v, 2, ""), "mtu"))

parse_tftp_interfaces(v) == EachParsed(LAMBDA t : [name |-> t, addr |-> None], v)
parse_tftp_port_range(v) ==
    LET a == U16(v[1])
        b == U16(v[2])
    IN IF Len(v) # 2 \/ a = None \/ b = None THEN None
       ELSE [start |-> IF a > b THEN b ELSE a, end |-> IF a > b THEN a ELSE b]

\* umbrella=deviceid:..,orgid:n,assetid:n: what each sub-option sets.
parse_umbrella(v) ==
    LET ok(t) == CASE StripPrefix(t, "deviceid") # None -> StripPrefix(t, "deviceid") \in Hex
                   [] StripAny(t, {"orgid", "assetid"}) # None
                        -> U32(StripAny(t, {"orgid", "assetid"})) # None
                   [] OTHER -> FALSE
        last(n) == v[SelectLastInSeq(v, LAMBDA t : Left(t, ":") = n)]
    IN IF \A t \in Range(v) : ok(t)
       THEN [n \in {Left(t, ":") : t \in Range(v)} |-> Right(last(n), ":")] ELSE None
=============================================================================
