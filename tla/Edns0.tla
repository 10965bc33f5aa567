------------------------------- MODULE Edns0 --------------------------------
(***************************************************************************)
(* EDNS0: the OPT record of a message, the options that identify a client  *)
(* to the upstream servers (edns0.rs), and what a reply goes through on    *)
(* its way back to the client (process_reply, forward.rs).                 *)
(*                                                                         *)
(* The TTL field of an OPT record is its extended rcode and its DO bit.    *)
(* An address is its octets, of Bits bits each.                            *)
(***************************************************************************)
EXTENDS Packet

CONSTANTS
    Bits,        \* 8
    V4Octets,    \* 4
    V6Octets     \* 16

CLIENT_SUBNET == 8
EDE == 15
MAC == 101
NOMDEVICEID == 102
NOMCPEID == 103
UMBRELLA == 104

DoBit(ttl) == ttl % 2 = 1
ExtRcode(ttl) == ttl \div 2
OptTtl(do) == IF do THEN 1 ELSE 0

(* --------------------------- the OPT record ---------------------------- *)

RECURSIVE parse_opt_options(_)
Preceded(option, rest) == IF rest = None THEN None ELSE <<option>> \o rest
parse_opt_options(data) ==
    IF data = <<>> THEN <<>>
    ELSE IF Len(data) < 2 THEN None
    ELSE IF 2 + data[2] > Len(data) THEN None
    ELSE Preceded([code |-> data[1], data |-> SubSeq(data, 3, 2 + data[2])],
                  parse_opt_options(SubSeq(data, 3 + data[2], Len(data))))

build_opt_rdata(options) ==
    FlattenSeq([i \in DOMAIN options |-> <<options[i].code, Len(options[i].data)>> \o options[i].data])

\* The first OPT record of the additional section; records after it are not
\* looked at.
RECURSIVE FirstOpt(_, _, _)
OptOrLater(b, rr, n) ==
    IF rr = None THEN None
    ELSE IF rr.rtype = T_OPT THEN rr
    ELSE FirstOpt(b, rr.end, n)
FirstOpt(b, pos, n) == IF n = 0 THEN None ELSE OptOrLater(b, RrAt(b, pos), n - 1)
PseudoHeader(opt, options) ==
    IF options = None THEN None
    ELSE [offset |-> opt.start, end |-> opt.end, udp_size |-> opt.class, ext_rcode |-> ExtRcode(opt.ttl),
          do |-> DoBit(opt.ttl), options |-> options]
ReadOpt(p, opt) == IF opt = None THEN None ELSE PseudoHeader(opt, parse_opt_options(Slice(p.body, opt.rd, opt.end)))
FindOptAfter(p, rs) == IF rs = None THEN None ELSE ReadOpt(p, FirstOpt(p.body, rs.end, p.ar))
find_pseudoheader(p) == FindOptAfter(p, Records(p, p.an + p.ns))

WithOpt(p, udp_size, do, rdata) ==
    [p EXCEPT !.body = @ \o <<0, T_OPT, udp_size, OptTtl(do), Len(rdata)>> \o rdata, !.ar = @ + 1]
WithoutOpt(p, info) ==
    IF info = None THEN p
    ELSE [p EXCEPT !.body = Slice(@, 0, info.offset) \o Slice(@, info.end, Len(@)), !.ar = @ - 1]

\* Fault: the old record stays where it is.
AppendOnly(p, udp_size, do, options) == WithOpt(p, udp_size, do, build_opt_rdata(options))

\* An OPT record with exactly these contents at the end of the message, in
\* place of the one it had.
add_pseudoheader(p, udp_size, do, options) ==
    WithOpt(WithoutOpt(p, find_pseudoheader(p)), udp_size, do, build_opt_rdata(options))
add_do_bit(p, udp_size) == add_pseudoheader(p, udp_size, TRUE, <<>>)

\* The forwarder's own search: the last OPT record, if every record can be
\* walked.
LastOpt(opts) == IF opts = <<>> THEN None ELSE [udp_size |-> Last(opts).class, do |-> DoBit(Last(opts).ttl)]
AdditionalOpts(p, rs) ==
    IF p.ar = 0 \/ rs = None THEN <<>>
    ELSE SelectSeq(SubSeq(rs.items, p.an + p.ns + 1, Len(rs.items)), LAMBDA rr : rr.rtype = T_OPT)
forward_find_pseudoheader(p) == LastOpt(AdditionalOpts(p, Records(p, p.an + p.ns + p.ar)))
FlagsGiven(p, opt, do) ==
    [has_pheader |-> opt # None, do_question |-> do, ad_question |-> do \/ p.header.ad,
     checking_disabled |-> p.header.cd]
AsksDo(opt) == IF opt = None THEN FALSE ELSE opt.do
FlagsFrom(p, opt) == FlagsGiven(p, opt, AsksDo(opt))
fwd_flags_from_query(p) == FlagsFrom(p, forward_find_pseudoheader(p))

strip_dnssec_if_not_requested(p) ==
    IF AsksDo(find_pseudoheader(p)) THEN p
    ELSE PacketOf(filter_with(p, LAMBDA i, rr, q : VerdictDnssec(p, i, rr, q)))

(* ---------------------- options that name a client --------------------- *)

Without(options, code) == SelectSeq(options, LAMBDA o : o.code # code)
Opt(code, data) == [code |-> code, data |-> data]
upsert_option(options, code, data, mode) ==
    CASE mode = "AddIfAbsent" ->
            IF data = None \/ \E o \in Range(options) : o.code = code THEN options
            ELSE Append(options, Opt(code, data))
      [] mode = "Replace" ->
            IF data = None THEN Without(options, code) ELSE Append(Without(options, code), Opt(code, data))
      [] mode = "ReplaceOnly" -> Without(options, code)

\* What add_mac and add_dns_client do with the value they found, or None.
Stamp(options, code, data, strip) ==
    IF data # None THEN upsert_option(options, code, data, IF strip THEN "Replace" ELSE "AddIfAbsent")
    ELSE IF strip THEN upsert_option(options, code, None, "ReplaceOnly")
    ELSE options

FoundMac(mac, cfg) == IF cfg.add_mac /\ mac # None /\ mac # <<>> THEN mac ELSE None
add_mac(options, mac, cfg) == Stamp(options, MAC, FoundMac(mac, cfg), cfg.strip_mac)

\* Three bytes as four six-bit characters.
encoder(x) == <<x[1] \div 4, (x[1] * 16 + x[2] \div 16) % 64, (x[2] * 4 + x[3] \div 64) % 64, x[3] % 64>>
mac_to_base64(mac) == encoder(SubSeq(mac, 1, 3)) \o encoder(SubSeq(mac, 4, 6))
print_mac(mac) == FlattenSeq([i \in DOMAIN mac |-> <<mac[i] \div 16, mac[i] % 16>>])
EncodedMac(mac, cfg) ==
    IF (cfg.mac_b64 \/ cfg.mac_hex) /\ mac # None /\ (mac # None => Len(mac) = 6)
    THEN IF cfg.mac_hex THEN print_mac(mac) ELSE mac_to_base64(mac)
    ELSE None
add_dns_client(options, mac, cfg) == Stamp(options, NOMDEVICEID, EncodedMac(mac, cfg), cfg.strip_mac)

\* The organisation, the client's address, the device and the asset.
add_umbrella_opt(options, source, cfg) ==
    upsert_option(options, UMBRELLA,
                  (IF cfg.umbrella_org # 0 THEN <<1, cfg.umbrella_org>> ELSE <<>>)
                  \o <<IF source.v6 THEN 6 ELSE 4>> \o source.octets
                  \o (IF cfg.umbrella_devid THEN <<2, cfg.umbrella_device>> ELSE <<>>)
                  \o (IF cfg.umbrella_asset # 0 THEN <<3, cfg.umbrella_asset>> ELSE <<>>), "Replace")

(* --------------------------- client subnets ---------------------------- *)

Padded(a) == a.octets \o [i \in 1 .. V6Octets - Len(a.octets) |-> 0]

\* The last octet keeps the bits of the prefix.
MaskTail(x, mask) ==
    IF mask % Bits = 0 THEN x ELSE LET low == 2 ^ (Bits - (mask % Bits)) IN (x \div low) * low
Prefix(a, mask) ==
    LET l == Min({(mask - 1) \div Bits + 1, V6Octets})
    IN  [i \in 1 .. l |-> IF i = l THEN MaskTail(Padded(a)[i], mask) ELSE Padded(a)[i]]

\* The option for a client, and whether it is the same for every client.
SubnetOf(addr, mask, fixed) ==
    [family |-> IF addr.v6 THEN 2 ELSE 1, mask |-> mask,
     addr |-> IF mask = 0 THEN <<>> ELSE Prefix(addr, mask), cacheable |-> fixed \/ mask = 0]
SubnetFor(source, sub) ==
    IF sub = None THEN SubnetOf(source, 0, FALSE)
    ELSE IF sub.const_addr = None THEN SubnetOf(source, sub.mask, FALSE)
    ELSE SubnetOf(sub.const_addr, sub.mask, TRUE)
calc_subnet_opt(source, cfg) == SubnetFor(source, IF source.v6 THEN cfg.add_subnet6 ELSE cfg.add_subnet4)
to_wire(sub) == <<sub.family, sub.mask, 0>> \o sub.addr
OwnSubnet(options) == \E o \in Range(options) : o.code = CLIENT_SUBNET /\ Len(o.data) >= 2 /\ (Len(o.data) >= 2 => o.data[2] # 0)

\* The options, and whether the answer may be cached.
add_client_subnet(options, source, cfg, cacheable) ==
    LET sub == calc_subnet_opt(source, cfg)
    IN  IF cfg.client_subnet
        THEN [options |-> upsert_option(options, CLIENT_SUBNET, to_wire(sub), IF cfg.strip_ecs THEN "Replace" ELSE "AddIfAbsent"),
              cacheable |-> sub.cacheable]
        ELSE IF cfg.strip_ecs
        THEN [options |-> upsert_option(options, CLIENT_SUBNET, None, "ReplaceOnly"), cacheable |-> cacheable]
        ELSE [options |-> options, cacheable |-> cacheable /\ ~OwnSubnet(options)]

\* Whether the subnet options of a message are those its peer would have
\* been given; without a peer, whether it has none of its own.
Echoes(d, exp) ==
    /\ Len(d) = Len(exp.addr) + 3
    /\ d[1] = exp.family /\ d[2] = exp.mask
    /\ SubSeq(d, 4, Len(d)) = exp.addr
AllEcho(options, exp) == \A o \in Range(options) : o.code = CLIENT_SUBNET => Echoes(o.data, exp)
SourceFits(info, peer, cfg) ==
    IF info = None THEN TRUE
    ELSE IF peer = None THEN ~OwnSubnet(info.options)
    ELSE AllEcho(info.options, calc_subnet_opt(peer, cfg))
check_source(p, peer, cfg) == SourceFits(find_pseudoheader(p), peer, cfg)

WithClientId(options, cfg) ==
    IF cfg.dns_client_id = None THEN options ELSE upsert_option(options, NOMCPEID, <<cfg.dns_client_id>>, "Replace")
WithUmbrella(options, source, cfg) == IF cfg.umbrella THEN add_umbrella_opt(options, source, cfg) ELSE options
add_edns0_config(existing, source, mac, cfg) ==
    add_client_subnet(WithUmbrella(WithClientId(add_dns_client(add_mac(existing, mac, cfg), mac, cfg), cfg), source, cfg),
                      source, cfg, FoundMac(mac, cfg) = None /\ EncodedMac(mac, cfg) = None /\ ~cfg.umbrella)

(* The forwarder resolves the client's MAC and stamps the query.           *)
StampedWith(p, info, edns_pktsz, options) ==
    IF info # None THEN add_pseudoheader(p, info.udp_size, info.do, options)
    ELSE IF options = <<>> THEN p
    ELSE add_pseudoheader(p, edns_pktsz, FALSE, options)
StampedFrom(p, info, source, mac, cfg, edns_pktsz) ==
    StampedWith(p, info, edns_pktsz,
                add_edns0_config(IF info = None THEN <<>> ELSE info.options, source, mac, cfg).options)
with_client_mac(p, source, mac, cfg, edns_pktsz) ==
    LET needs == cfg.mac_b64 \/ cfg.mac_hex \/ cfg.add_mac
    IN  IF ~needs /\ ~cfg.strip_mac THEN p
        ELSE StampedFrom(p, find_pseudoheader(p), source, IF needs THEN mac ELSE None, cfg, edns_pktsz)

(* -------------------- a reply on its way to the client ----------------- *)

\* The question, and the OPT records, of a message whose answer is refused.
strip_records(d, rcode) ==
    write([d EXCEPT !.header.rcode = rcode, !.answers = <<>>, !.authority = <<>>,
                    !.additional = SelectSeq(@, LAMBDA rr : rr.rtype = T_OPT)])

setup_reply(header) == [header EXCEPT !.aa = FALSE, !.tc = FALSE, !.ad = FALSE, !.ra = TRUE, !.rcode = 5]
RefusedWith(d, opts, edns_pktsz) ==
    write([header |-> setup_reply(d.header), questions |-> d.questions, answers |-> <<>>, authority |-> <<>>,
           additional |-> IF opts = <<>> THEN <<>>
                          ELSE <<[name |-> <<>>, rtype |-> T_OPT, class |-> edns_pktsz,
                                  ttl |-> OptTtl(DoBit(opts[1].ttl)), rdata |-> <<>>]>>])
RefusedFrom(d, edns_pktsz) ==
    IF d = None THEN None
    ELSE RefusedWith(d, SelectSeq(d.additional, LAMBDA rr : rr.rtype = T_OPT), edns_pktsz)
make_refused_answer(p, edns_pktsz) == RefusedFrom(parse(p), edns_pktsz)

AttachTo(p, info, ede) ==
    IF info = None THEN p
    ELSE add_pseudoheader(p, info.udp_size, info.do, Append(Without(info.options, EDE), Opt(EDE, <<ede>>)))
attach_ede(p, ede) == AttachTo(p, find_pseudoheader(p), ede)

\* What extract_addresses and the bogus-nxdomain check said of the reply
\* ("cached", "bogus", "rebind" or "bad") decides what is left of it.
Cached(p, d, said) ==
    IF d = None THEN [pkt |-> [p EXCEPT !.an = 0, !.ns = 0, !.ar = 0, !.header.rcode = 2], ede |-> 0]
    ELSE CASE said = "bogus" /\ p.header.rcode # 3 ->
                [pkt |-> [strip_records(d, 3) EXCEPT !.header.aa = FALSE], ede |-> 15]
           [] said = "rebind" -> [pkt |-> strip_records(d, d.header.rcode), ede |-> 15]
           [] said = "bad" -> [pkt |-> strip_records(d, 2), ede |-> 0]
           [] OTHER -> [pkt |-> p, ede |-> None]
cache_upstream_reply(p, said) == Cached(p, parse(p), said)

\* The OPT record goes if the client sent none; else it speaks for us: our
\* payload size, and the client's own DO bit.
OrSame(p, new) == IF new = None THEN p ELSE new
OwnOpt(p, sizep, cfg, ctx) ==
    [p EXCEPT !.body[sizep + 1] = cfg.edns_pktsz,
              !.body[sizep + 2] = IF cfg.dnssec_valid /\ ~ctx.do_question THEN @ - (@ % 2) ELSE @]
RewriteOpt(p, info, cfg, ctx) ==
    IF info = None THEN p
    ELSE IF ~ctx.has_pheader THEN OrSame(p, filter_rr_types(p, {T_OPT}))
    ELSE OwnOpt(p, skip_name(p.body, info.offset) + 1, cfg, ctx)

Filtered(p, cfg) ==
    IF p.header.rcode = 0 /\ cfg.filter_rr # {}
    THEN LET f == filter_configured_rr_types(p, cfg.filter_rr) IN IF f = None THEN Whole(p) ELSE f
    ELSE Whole(p)

\* The signatures go if the client did not ask for them, and the reason for
\* what was taken out is told.
Told(p, info, ede, ctx) == IF info # None /\ ctx.has_pheader /\ ede # None THEN attach_ede(p, ede) ELSE p
Stripped(p, cfg, ctx) ==
    IF cfg.dnssec_valid /\ ~ctx.do_question THEN OrSame(p, strip_dnssec_if_not_requested(p)) ELSE p
Passed(filtered, ede, info, cfg, ctx) ==
    Told(Stripped(filtered.pkt, cfg, ctx), info, IF filtered.removed > 0 THEN 17 ELSE ede, ctx)
PassOn(cached, info, cfg, ctx) == Passed(Filtered(cached.pkt, cfg), cached.ede, info, cfg, ctx)
Settle(p, rcode, info, cfg, ctx, said) ==
    IF p.header.opcode # 0 \/ rcode \notin {0, 3} THEN p
    ELSE IF p.header.tc THEN Passed(Whole(p), None, info, cfg, ctx)
    ELSE PassOn(cache_upstream_reply(p, said), info, cfg, ctx)
Reworked(p, info, cfg, ctx, said) ==
    Settle(p, p.header.rcode + 16 * (IF info = None THEN 0 ELSE info.ext_rcode), info, cfg, ctx, said)
Rewritten(p, info, cfg, ctx) ==
    [RewriteOpt([p EXCEPT !.header.cd = ctx.checking_disabled], info, cfg, ctx)
        EXCEPT !.header.ad = @ /\ cfg.dnssec_proxy, !.header.ra = TRUE]
ProcessReply(p, info, cfg, ctx, said) ==
    IF info # None /\ cfg.client_subnet /\ ~check_source(p, ctx.query_source, cfg) THEN None
    ELSE Reworked(Rewritten(p, info, cfg, ctx), info, cfg, ctx, said)

\* The packet the client gets, or None when the reply is discarded.
process_reply(p0, cfg, ctx, said) == ProcessReply(p0, find_pseudoheader(p0), cfg, ctx, said)

=============================================================================
