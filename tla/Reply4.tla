------------------------------- MODULE Reply4 -------------------------------
(***************************************************************************)
(* The options of DHCPv4 packets: how they are written and found           *)
(* (rfc2131.rs, dhcp_common.rs); what a request is worth before its lease  *)
(* is looked up, and what its reply is decorated with afterwards: the tags *)
(* of the client, the contexts of the arrival interface, the options the   *)
(* tags select, the lease query, the relay (relay_upstream4, relay_reply4),*)
(* and the entries of /etc/ethers (dhcp.rs).                               *)
(*                                                                         *)
(* An option area is a sequence of bytes, as in the code.  An address, a   *)
(* time or an interface index is one byte wide instead of four; a name is  *)
(* a short sequence of bytes.  A tag is a sequence of letters; a tag of a  *)
(* rule may be negated or end in a wildcard.  A netmask is the size of the *)
(* block of addresses it groups, 0 when unspecified.                       *)
(***************************************************************************)
EXTENDS Integers, Sequences, SequencesExt, FiniteSetsExt

CONSTANT None

PAD == 0
END == 255
NETMASK == 1
ROUTER == 3
DNSSERVER == 6
HOSTNAME == 12
DOMAINNAME == 15
BROADCAST == 28
VENDOR_CLASS_OPT == 43
LEASE_TIME == 51
OVERLOAD == 52
MESSAGE_TYPE == 53
REQUESTED_OPTIONS == 55
MAXMESSAGE == 57
T1 == 58
T2 == 59
VENDOR_ID == 60
CLIENT_ID == 61
USER_CLASS == 77
CLIENT_FQDN == 81
AGENT_ID == 82
LAST_TRANSACTION == 91
ARCH == 93
PXE_UUID == 97
SUBNET_SELECT == 118
LEASEUNKNOWN == 12
SUBOPT_REMOTE_ID == 2
SUBOPT_SUBNET == 5
SUBOPT_FLAGS == 10
SUBOPT_SERVER_OR == 11

Infinite == 1000        \* a lease time of u32::MAX

----------------------------------------------------------------------------
(* Finding *)

\* The position of the option's code, or 0.
option_find1(buf, code, minsize) ==
    LET At[i \in 1..Len(buf) + 1] ==
            IF i > Len(buf) \/ buf[i] = END THEN 0
            ELSE IF buf[i] = PAD THEN At[i + 1]
            ELSE IF i + 1 > Len(buf) \/ i + 1 + buf[i + 1] > Len(buf) THEN 0
            ELSE IF buf[i] = code /\ buf[i + 1] >= minsize THEN i
            ELSE At[i + 2 + buf[i + 1]]
    IN  At[1]

OptionData(buf, i) == SubSeq(buf, i + 2, i + 1 + buf[i + 1])

find_dhcp_option(buf, code, minsize) ==
    LET i == option_find1(buf, code, minsize)
    IN  IF i = 0 THEN None ELSE OptionData(buf, i)

find_option(options, code) == find_dhcp_option(options, code, 0)

has_opt_raw(opts, code) == option_find1(opts, code, 0) # 0

\* The main area without its cookie, then the overloaded file and sname.
option_find(pkt, code, minsize) ==
    LET opts  == IF Len(pkt.options) > 4 THEN SubSeq(pkt.options, 5, Len(pkt.options)) ELSE pkt.options
        over  == find_dhcp_option(opts, OVERLOAD, 1)
        areas == <<opts>> \o (IF over # None /\ over[1] % 2 = 1 THEN <<pkt.file>> ELSE <<>>)
                          \o (IF over # None /\ (over[1] \div 2) % 2 = 1 THEN <<pkt.sname>> ELSE <<>>)
        hits  == SelectSeq(areas, LAMBDA a : find_dhcp_option(a, code, minsize) # None)
    IN  IF hits = <<>> THEN None ELSE find_dhcp_option(Head(hits), code, minsize)

\* No list asks for everything; a list ends at END.
in_list(list, code) ==
    \/ list = None
    \/ \E i \in DOMAIN list : list[i] = code /\ \A j \in 1..i : list[j] # END

----------------------------------------------------------------------------
(* Writing *)

WithoutEnd(opts) == IF opts # <<>> /\ Last(opts) = END THEN Front(opts) ELSE opts

append_opt(opts, code, data) ==
    WithoutEnd(opts) \o <<code, Len(data) % 256>> \o data \o <<END>>

option_put(opts, code, val) == append_opt(opts, code, <<val>>)

option_put_raw(opts, code, data) == append_opt(opts, code, SubSeq(data, 1, Min({Len(data), 255})))

option_put_string(opts, code, s, null_term) ==
    option_put_raw(opts, code, IF null_term /\ Len(s) < 255 THEN Append(s, 0) ELSE s)

\* Keep the options that fit whole in max_len - 1 bytes.
cap_vendor_area(options, max_len) ==
    LET budget == max_len - 1
        At[i \in 1..Len(options) + 1] ==
            IF i > Len(options) \/ options[i] = END THEN i - 1
            ELSE IF options[i] = PAD THEN IF i > budget THEN i - 1 ELSE At[i + 1]
            ELSE IF i + 1 > Len(options) \/ i + 1 + options[i + 1] > Min({Len(options), budget}) THEN i - 1
            ELSE At[i + 2 + options[i + 1]]
    IN  Append(SubSeq(options, 1, At[1]), END)

\* A datagram is never shorter than the BOOTP minimum: here, `min` option bytes.
ToWire(options, min) ==
    LET full == IF options # <<>> /\ Last(options) = END THEN options ELSE Append(options, END)
    IN  full \o [i \in 1..(Max({min, Len(full)}) - Len(full)) |-> PAD]

----------------------------------------------------------------------------
(* Configured options: [opt, val, flags, netid, vendor_class]; flags is a  *)
(* subset of {"string", "addr", "force", "vendor", "encap", "pxe", "tagok"}*)

\* Zero addresses stand for our own; a string may be terminated.
do_opt(o, local, null_term) ==
    LET raw == IF o.val = None THEN <<>> ELSE o.val
    IN  IF "addr" \in o.flags /\ local # None
        THEN [i \in DOMAIN raw |-> IF raw[i] = 0 THEN local ELSE raw[i]]
        ELSE IF "string" \in o.flags /\ null_term /\ Len(raw) < 255 THEN Append(raw, 0) ELSE raw

HasRun(hay, needle) == \E i \in 0..(Len(hay) - Len(needle)) : SubSeq(hay, i + 1, i + Len(needle)) = needle

match_vendor_opts(vc, opts) ==
    {i \in DOMAIN opts : "vendor" \in opts[i].flags /\ vc # None /\ HasRun(vc, opts[i].vendor_class)}

\* Any tag in common: an option without a tag matches nothing.
prune_vendor_opts(opts, matched, netid) ==
    {i \in matched : opts[i].netid \cap netid # {}}

do_encap_opts(opts, matched, null_term, area) ==
    LET inner == FoldLeft(LAMBDA acc, i : IF i \in matched
                              THEN LET d == do_opt(opts[i], None, null_term)
                                   IN  acc \o <<opts[i].opt, Len(d) % 256>> \o d
                              ELSE acc,
                          <<>>, [i \in DOMAIN opts |-> i])
    IN  IF matched = {} THEN area ELSE append_opt(area, VENDOR_CLASS_OPT, Append(inner, END))

----------------------------------------------------------------------------
(* Filling in a reply.  c holds the fields of DoOptionsConfig. *)

UserTime(opts, code, lt, default) ==
    LET set == SelectSeq(opts, LAMBDA o : /\ o.opt = code /\ o.val # None
                                          /\ o.val # <<>> /\ o.val[1] > 2 /\ o.val[1] < lt)
    IN  IF set = <<>> THEN default ELSE Last(set).val[1]

Monus(a, b) == IF a > b THEN a - b ELSE 0

Halved[f \in 0..64] == [t \in 0..64 |-> IF f > t \div 8 THEN Halved[f \div 2][t] ELSE f]

\* Fault: the user's timers are taken as they are.
UserTimers(opts, lt, fuzz) ==
    LET t1 == UserTime(opts, T1, lt, lt \div 2)
        t2 == UserTime(opts, T2, lt, (lt * 7) \div 8)
        f  == Halved[fuzz][t1]
    IN  <<Monus(t1, f), Monus(t2, f)>>

Timers(opts, lt, fuzz) ==
    LET t1 == UserTime(opts, T1, lt, lt \div 2)
        t2 == UserTime(opts, T2, lt, (lt * 7) \div 8)
        t  == IF t2 <= t1 THEN Monus(t2, 1) ELSE t1
        f  == Halved[fuzz][t]
    IN  <<Monus(t, f), Monus(t2, f)>>

PutTimers(c, opts) ==
    LET t == Timers(c.config_opts, c.lease_time, c.fuzz)
    IN  IF c.lease_time = Infinite THEN opts ELSE option_put(option_put(opts, T1, t[1]), T2, t[2])

\* One default: put when it is wanted, unless it is there already.
PutDefault(opts, code, data, wanted) ==
    IF wanted /\ ~has_opt_raw(opts, code) THEN append_opt(opts, code, data) ELSE opts

PutContext(c, opts) ==
    LET x == c.context
        asked(code) == in_list(c.req_options, code)
        o1 == PutDefault(opts, NETMASK, <<x.netmask>>, ~c.leasequery \/ asked(NETMASK))
        o2 == PutDefault(o1, BROADCAST, <<x.broadcast>>, x.broadcast # 0 /\ (~c.leasequery \/ asked(BROADCAST)))
        o3 == PutDefault(o2, ROUTER, <<x.router>>, x.router # 0 /\ asked(ROUTER))
    IN  IF x = None THEN opts
        ELSE PutDefault(o3, DNSSERVER, <<x.local>>, c.dns_port = 53 /\ asked(DNSSERVER))

PutNames(c, opts) ==
    LET term(s) == IF c.null_term THEN Append(s, 0) ELSE s
        o1 == IF c.subnet_addr = None THEN opts ELSE option_put(opts, SUBNET_SELECT, c.subnet_addr)
        o2 == IF c.domain = None THEN o1
              ELSE PutDefault(o1, DOMAINNAME, term(c.domain), in_list(c.req_options, DOMAINNAME))
        o3 == IF c.hostname = None THEN o2
              ELSE PutDefault(o2, HOSTNAME, term(c.hostname), in_list(c.req_options, HOSTNAME))
    IN  IF c.hostname = None \/ c.fqdn_flags = 0 THEN o3
        ELSE append_opt(o3, CLIENT_FQDN,
                        term(<<c.fqdn_flags % 16, 255, 255>> \o c.hostname
                             \o (IF c.domain = None THEN <<>> ELSE c.domain)))

NeverUser == {CLIENT_FQDN, MAXMESSAGE, OVERLOAD, PAD, END, T1, T2}
Defaults  == {NETMASK, BROADCAST, ROUTER, DNSSERVER, DOMAINNAME, HOSTNAME}

PutUserOption(c, opts, o) ==
    IF \/ "tagok" \notin o.flags
       \/ ("force" \notin o.flags \/ c.leasequery) /\ ~in_list(c.req_options, o.opt)
       \/ o.opt \in NeverUser
       \/ o.opt = VENDOR_ID /\ c.pxe_arch # None
       \/ o.val \in {None, <<>>} /\ o.opt \in Defaults
    THEN opts
    ELSE append_opt(opts, o.opt, do_opt(o, IF c.context = None THEN None ELSE c.context.local, c.null_term))

PutVendor(c, opts) ==
    LET matched == prune_vendor_opts(c.config_opts, match_vendor_opts(c.vendor_class, c.config_opts), c.netid)
        forced  == \E i \in matched : "force" \in c.config_opts[i].flags
    IN  IF /\ ~c.leasequery
           /\ forced \/ in_list(c.req_options, VENDOR_CLASS_OPT) \/ in_list(c.req_options, VENDOR_ID)
        THEN do_encap_opts(c.config_opts, matched, c.null_term, opts) ELSE opts

PXEClient == <<80, 88>>
is_pxe_client(vc) == vc # None /\ IsPrefix(PXEClient, vc)

pxe_misc(opts, uuid, vendor) ==
    LET o1 == append_opt(opts, VENDOR_ID, IF vendor = None THEN PXEClient ELSE vendor)
    IN  IF uuid # None /\ Len(uuid) = 17 THEN append_opt(o1, PXE_UUID, uuid) ELSE o1

PutPxe(c, opts) == IF c.pxe_arch = None THEN opts ELSE pxe_misc(opts, c.uuid, c.pxevendor)

do_options(opts, c) ==
    PutPxe(c, PutVendor(c, FoldLeft(LAMBDA acc, o : PutUserOption(c, acc, o),
                                    PutNames(c, PutContext(c, PutTimers(c, opts))), c.config_opts)))

----------------------------------------------------------------------------
BOOTREQUEST == 1
BOOTREPLY == 2

----------------------------------------------------------------------------
(* Tags *)

match_netid_wild(check, pool) ==
    \A t \in check : t.neg # (\E p \in ToSet(pool) : IF t.wild THEN IsPrefix(t.name, p) ELSE p = t.name)

AddTags(tags, set) == tags \o SelectSeq(set, LAMBDA t : t \notin ToSet(tags))

\* The rules in order, each seeing the tags the earlier ones have set.
run_tag_if(tags, rules) ==
    FoldLeft(LAMBDA acc, r : IF match_netid_wild(r.tag, acc) THEN AddTags(acc, r.set) ELSE acc, tags, rules)

rfc3004_user_classes(raw) ==
    LET At[i \in 1..Len(raw) + 1] ==
            IF i > Len(raw) THEN <<>>
            ELSE IF i + raw[i] > Len(raw) THEN None
            ELSE IF At[i + 1 + raw[i]] = None THEN None
            ELSE <<SubSeq(raw, i + 1, i + raw[i])>> \o At[i + 1 + raw[i]]
    IN  At[1]

\* Any class of a well-formed option; else anywhere in its bytes.
UserClassMatches(raw, class) ==
    LET classes == rfc3004_user_classes(raw)
    IN  \/ class = <<>>
        \/ classes # None /\ \E i \in DOMAIN classes : HasRun(classes[i], class)
        \/ classes = None /\ HasRun(raw, class)

match_bytes(o, data) ==
    \/ o.val \in {None, <<>>}
    \/ /\ Len(o.val) <= Len(data)
       /\ IF "hex" \in o.flags THEN SubSeq(data, 1, Len(o.val)) = o.val
          ELSE \E i \in 0..(Len(data) - Len(o.val)) :
                   /\ "string" \in o.flags \/ i % Len(o.val) = 0
                   /\ SubSeq(data, i + 1, i + Len(o.val)) = o.val

NameMatches(rule, name) ==
    \/ name = rule.name
    \/ rule.wildcard /\ Len(name) > Len(rule.name) /\ IsPrefix(rule.name, name)

MacMatches(rule, pkt) ==
    /\ Len(rule.hw) = Len(pkt.chaddr)
    /\ rule.htype \in {0, pkt.htype}
    /\ \A i \in DOMAIN rule.hw : i \in rule.wild \/ rule.hw[i] = pkt.chaddr[i]

\* A rule gives its tags when what it looks at is there and matches.
RuleMatches(rule, pkt) ==
    LET opt(code) == find_option(pkt.options, code)
    IN  CASE rule.kind = "vendor" -> opt(VENDOR_ID) # None /\ HasRun(opt(VENDOR_ID), rule.data)
          [] rule.kind = "class"  -> opt(USER_CLASS) # None /\ UserClassMatches(opt(USER_CLASS), rule.data)
          [] rule.kind = "mac"    -> MacMatches(rule, pkt)
          [] rule.kind = "agent"  -> /\ opt(AGENT_ID) # None
                                     /\ find_dhcp_option(opt(AGENT_ID), rule.subopt, 1) = rule.data
          [] rule.kind = "match"  -> opt(rule.opt) # None /\ match_bytes(rule, opt(rule.opt))
          [] rule.kind = "name"   -> opt(HOSTNAME) # None /\ NameMatches(rule, opt(HOSTNAME))

Kinds == <<"vendor", "class", "mac", "agent", "match", "name">>
derived_tags(pkt, rules) ==
    LET sets(kind, acc, r) == IF r.kind = kind /\ RuleMatches(r, pkt) THEN acc \o r.set ELSE acc
    IN  FlattenSeq([i \in DOMAIN Kinds |-> FoldLeft(LAMBDA acc, r : sets(Kinds[i], acc, r), <<>>, rules)])

\* The first delay with tags that match, else the first without tags.
select_reply_delay(tags, delays) ==
    LET tagged == SelectSeq(delays, LAMBDA d : d.filter # {} /\ match_netid_wild(d.filter, tags))
        plain  == SelectSeq(delays, LAMBDA d : d.filter = {})
    IN  IF tagged # <<>> THEN Head(tagged).secs ELSE IF plain # <<>> THEN Head(plain).secs ELSE 0

----------------------------------------------------------------------------
(* Which configured options apply *)

pxe_ok(o, pxemode) == IF "pxe" \in o.flags THEN pxemode # 0 ELSE pxemode # 2

Encapsulated(o) == o.flags \cap {"encap", "vendor", "rfc3925"} # {}

\* Untagged options whose code no tagged option has taken.
Unclaimed(opts, ok) ==
    {i \in DOMAIN opts : /\ ~Encapsulated(opts[i]) /\ i \notin ok /\ opts[i].netid = {}
                         /\ \A j \in ok : opts[j].netid = {} \/ opts[j].opt # opts[i].opt}

TaggedOk(opts, tags, pxemode) ==
    {i \in DOMAIN opts : /\ ~Encapsulated(opts[i]) /\ opts[i].netid # {}
                         /\ match_netid_wild(opts[i].netid, tags) /\ pxe_ok(opts[i], pxemode)}

\* With the context's tags: what still matches, and what matches now and has
\* no rival.
WithContext(opts, pxemode, first, ctx) ==
    LET still == {i \in first : match_netid_wild(opts[i].netid, ctx)}
    IN  still \cup {i \in TaggedOk(opts, ctx, pxemode) \ still : \A j \in still : opts[j].opt # opts[i].opt}

WithUntagged(opts, pxemode, ok) == ok \cup {i \in Unclaimed(opts, ok) : pxe_ok(opts[i], pxemode)}

FirstOfCode(opts, ok) == {i \in ok : \A j \in ok : j < i => opts[j].opt # opts[i].opt}

Selected(tags, opts, chosen) ==
    [tags |-> tags,
     opts |-> [i \in DOMAIN opts |-> [opts[i] EXCEPT !.flags =
                   IF i \in chosen THEN @ \cup {"tagok"} ELSE @ \ {"tagok"}]]]

FilterFor(tagif, context_tags, opts, pxemode, rules, first) ==
    LET tagged == IF context_tags = <<>> THEN first
                  ELSE WithContext(opts, pxemode, first, run_tag_if(context_tags \o tagif, rules))
    IN  Selected(tagif, opts, FirstOfCode(opts, WithUntagged(opts, pxemode, tagged)))

FilterTagged(tagif, context_tags, opts, pxemode, rules) ==
    FilterFor(tagif, context_tags, opts, pxemode, rules, TaggedOk(opts, tagif, pxemode))

\* The options to send, and the tags of the client (without the context's).
option_filter(tags, context_tags, opts, pxemode, rules) ==
    FilterTagged(run_tag_if(tags, rules), context_tags, opts, pxemode, rules)

----------------------------------------------------------------------------
(* Contexts: [start, end, netmask, broadcast, router, local, lease_time,   *)
(* netid, static, proxy, fixed_mask, fixed_brdcast]                        *)

is_same_net(a, b, mask) == IF mask = 0 THEN TRUE ELSE a \div mask = b \div mask

InPool(x, a) == ~x.static /\ ~x.proxy /\ x.start <= a /\ a <= x.end
address_available(contexts, a) ==
    /\ \A i \in DOMAIN contexts : contexts[i].router # a
    /\ \E i \in DOMAIN contexts : InPool(contexts[i], a)

FirstOf(s, P(_)) == IF SelectSeq(s, P) = <<>> THEN None ELSE Head(SelectSeq(s, P))

narrow_context(contexts, a) ==
    LET near(x) == x.netmask # 0 /\ is_same_net(a, x.start, x.netmask)
        pool    == FirstOf(contexts, LAMBDA x : InPool(x, a))
        static  == FirstOf(contexts, LAMBDA x : x.static /\ near(x))
    IN  IF address_available(contexts, a) THEN pool
        ELSE IF static # None THEN static ELSE FirstOf(contexts, LAMBDA x : ~x.proxy /\ near(x))

\* Contexts of the arrival interface's subnet, with what they lack filled in.
link_contexts_for_interface(contexts, iface) ==
    LET masked(x) == IF ~x.fixed_mask /\ \E e \in {x.start, x.end} : is_same_net(iface.local, e, iface.netmask)
                     THEN [x EXCEPT !.netmask = iface.netmask] ELSE x
        here(x)   == x.netmask # 0 /\ \A e \in {x.start, x.end} : is_same_net(iface.local, e, x.netmask)
        bcast(x)  == IF is_same_net(iface.broadcast, x.start, x.netmask) THEN iface.broadcast
                     ELSE (x.start \div x.netmask) * x.netmask + x.netmask - 1
        done(x)   == [x EXCEPT !.router = iface.local, !.local = iface.local,
                               !.broadcast = IF x.fixed_brdcast THEN @ ELSE bcast(x)]
        all       == [i \in DOMAIN contexts |-> masked(contexts[i])]
    IN  [contexts |-> [i \in DOMAIN all |-> IF here(all[i]) THEN done(all[i]) ELSE all[i]],
         linked   |-> {i \in DOMAIN all : here(all[i])}]

\* The contexts the dispatch sees: the linked ones, or all when none links.
ArrivalContexts(contexts, arrival) ==
    LET l == link_contexts_for_interface(contexts, arrival)
    IN  IF arrival = None THEN contexts
        ELSE IF l.linked = {} THEN l.contexts
        ELSE FoldLeft(LAMBDA acc, i : IF i \in l.linked THEN Append(acc, l.contexts[i]) ELSE acc,
                      <<>>, [i \in DOMAIN contexts |-> i])

context_for_reply(contexts, yiaddr) ==
    LET first == IF contexts = <<>> THEN None ELSE Head(contexts)
    IN  IF yiaddr = 0 \/ narrow_context(contexts, yiaddr) = None THEN first ELSE narrow_context(contexts, yiaddr)

----------------------------------------------------------------------------
(* Replies *)

\* By the first tag, else the entry without tags.
find_boot(boots, tag) ==
    LET tagged == FirstOf(boots, LAMBDA b : tag # None /\ tag \in b.netid)
    IN  IF tagged # None THEN tagged ELSE FirstOf(boots, LAMBDA b : b.netid = {})

ContextTags(x) == IF x = None \/ x.netid = <<>> THEN <<>> ELSE <<x.netid>>

requested_arch(pkt) ==
    LET raw == find_option(pkt.options, ARCH) IN IF raw = None \/ Len(raw) < 2 THEN None ELSE raw

WithAgent(opts, agent) == IF agent = None THEN opts ELSE option_put_raw(opts, AGENT_ID, agent)

\* The options of a reply for an address of context x.
ReplyOptions(reply, pkt, cfg, host, x, vendor, filter) ==
    LET bootp == reply.type = "bootp"
        time  == IF x = None THEN 36 ELSE x.lease_time
        timed == IF reply.type = "offer" \/ (reply.type = "ack" /\ pkt.type # "inform")
                 THEN option_put(reply.options, LEASE_TIME, time) ELSE reply.options
    IN  do_options(timed,
            [context |-> x, req_options |-> IF bootp THEN None ELSE find_option(pkt.options, REQUESTED_OPTIONS),
             hostname |-> IF host = None THEN None ELSE host.name, domain |-> cfg.domain,
             netid |-> ToSet(filter.tags), subnet_addr |-> None, fqdn_flags |-> 0, null_term |-> FALSE,
             pxe_arch |-> IF bootp THEN None ELSE requested_arch(pkt), uuid |-> None, vendor_class |-> vendor,
             lease_time |-> IF pkt.type = "inform" \/ bootp THEN Infinite ELSE time,
             fuzz |-> 0, pxevendor |-> None, config_opts |-> filter.opts, dns_port |-> 53, leasequery |-> FALSE])

Booted(reply, boot, opts) ==
    [reply EXCEPT !.siaddr  = IF boot # None /\ boot.next_server # 0 THEN boot.next_server ELSE @,
                  !.file    = IF boot # None THEN boot.file ELSE @,
                  !.options = opts]

DecorateFiltered(reply, pkt, cfg, host, x, vendor, filter) ==
    Booted(reply, find_boot(cfg.boots, IF filter.tags = <<>> THEN None ELSE Head(filter.tags)),
           WithAgent(ReplyOptions(reply, pkt, cfg, host, x, vendor, filter), find_option(pkt.options, AGENT_ID)))

DecorateFor(reply, pkt, cfg, tags, host, x, vendor) ==
    DecorateFiltered(reply, pkt, cfg, host, x, vendor,
        option_filter(tags \o (IF host = None THEN <<>> ELSE host.netid), ContextTags(x), cfg.dhcp_opts,
                      IF is_pxe_client(vendor) THEN 1 ELSE 0, cfg.tag_rules))

decorate_reply(reply, pkt, cfg, tags, host) ==
    DecorateFor(reply, pkt, cfg, tags, host, context_for_reply(cfg.contexts, reply.yiaddr),
                find_option(pkt.options, VENDOR_ID))

PutAsked(req, opts, code, data, when) ==
    IF when /\ in_list(req, code) THEN option_put_raw(opts, code, data) ELSE opts

\* What is left of the lease, as durations before and after now.
PutTimes(req, opts, left, full) ==
    LET timed == left # Infinite
    IN  PutAsked(req,
            PutAsked(req,
                PutAsked(req, PutAsked(req, opts, LEASE_TIME, <<left>>, TRUE),
                         T1, <<left - full \div 2>>, timed /\ left > full \div 2),
                T2, <<left - full \div 8>>, timed /\ left > full \div 8),
            LAST_TRANSACTION, <<full - left>>, timed /\ left < full)

QueryOptions(req, opts, lease, contexts, filter, domain) ==
    do_options(opts, [context |-> narrow_context(contexts, lease.addr), req_options |-> req,
        hostname |-> lease.name, domain |-> domain, netid |-> ToSet(filter.tags), subnet_addr |-> None,
        fqdn_flags |-> 0, null_term |-> FALSE, pxe_arch |-> None, uuid |-> None,
        vendor_class |-> lease.vendorclass, lease_time |-> Infinite, fuzz |-> 0, pxevendor |-> None,
        config_opts |-> filter.opts, dns_port |-> 53, leasequery |-> TRUE])

LeaseTold(req, type, lease, contexts, filter, domain, full) ==
    LET known == PutAsked(req, option_put(<<>>, MESSAGE_TYPE, type), CLIENT_ID, lease.clid, lease.clid # None)
    IN  PutAsked(req, QueryOptions(req, PutTimes(req, known, lease.left, full), lease, contexts, filter, domain),
                 AGENT_ID, lease.agent_id, lease.agent_id # None)

\* What is left of the lease, told in the terms the client asked for.
handle_leasequery(pkt, type, lease, contexts, filter, domain, full) ==
    IF lease = None
    THEN [ciaddr |-> IF type = LEASEUNKNOWN THEN 0 ELSE pkt.ciaddr, options |-> option_put(<<>>, MESSAGE_TYPE, type)]
    ELSE [ciaddr |-> lease.addr,
          options |-> LeaseTold(find_option(pkt.options, REQUESTED_OPTIONS), type, lease, contexts, filter, domain, full)]

\* Giaddr, else ciaddr, else everybody.
reply_dest(pkt) == IF pkt.giaddr # 0 THEN <<"relay", pkt.giaddr>>
                   ELSE IF pkt.ciaddr # 0 THEN <<"client", pkt.ciaddr>> ELSE <<"client", "broadcast">>
relay_reply_client_dest(pkt) == <<"client", IF pkt.ciaddr # 0 THEN pkt.ciaddr ELSE "broadcast">>

----------------------------------------------------------------------------
(***************************************************************************)
(* The DHCPv4 relay (rfc2131.rs relay_upstream4, relay_reply4; the relay   *)
(* branch of dhcp.rs run_dhcp_loop) and the hosts of /etc/ethers (dhcp.rs).*)
(*                                                                         *)
(* A relay is [local, server, uplink, interface, iface_index, split]; a    *)
(* host entry is [from_ethers, addr, name, hwaddrs], with 0 and None for   *)
(* what it lacks.                                                          *)
(***************************************************************************)

CONSTANT MinOptions   \* option bytes of the shortest datagram (300 bytes in all)

\* The address a split-mode relay sends from: its interface's, as it is now.
Uplink(relay, resolve) == IF relay.interface = None THEN relay.uplink ELSE resolve[relay.interface].addr

Fires(relay, iface) ==
    IF relay.split THEN relay.local = iface.addr
    ELSE relay.iface_index # 0 /\ relay.iface_index = iface.index

\* Fault: the interface the request came from is not told.
AgentInfoAnon(relay, iface, unicast) ==
    <<SUBOPT_SUBNET, 1, relay.local, SUBOPT_SERVER_OR, 1, relay.local,
      SUBOPT_FLAGS, 1, IF unicast THEN 128 ELSE 0, SUBOPT_REMOTE_ID, 1, 0>>

AgentInfo(relay, iface, unicast) ==
    <<SUBOPT_SUBNET, 1, relay.local, SUBOPT_SERVER_OR, 1, relay.local,
      SUBOPT_FLAGS, 1, IF unicast THEN 128 ELSE 0, SUBOPT_REMOTE_ID, 1, iface.index>>

\* A relay that has its address already in giaddr sees a loop; one that
\* finds another's only passes the packet on.
Forwarded(relay, from, pkt, iface, unicast) ==
    [pkt EXCEPT !.hops = @ + 1,
                !.giaddr = IF @ = 0 THEN from ELSE @,
                !.options = IF relay.split /\ pkt.giaddr = 0
                            THEN option_put_raw(@, AGENT_ID, AgentInfo(relay, iface, unicast)) ELSE @]

\* The packets to send and the relays with their uplinks resolved.
relay_upstream4(iface, pkt, unicast, relays, resolve) ==
    LET takes(r)  == /\ pkt.op = BOOTREQUEST /\ pkt.hops <= 20 /\ Fires(r, iface)
                     /\ r.split => Uplink(r, resolve) # 0
        solved(r) == IF takes(r) /\ r.split THEN [r EXCEPT !.uplink = Uplink(r, resolve)] ELSE r
        from(r)   == IF r.split THEN Uplink(r, resolve) ELSE r.local
        dest(r)   == IF r.server # 0 THEN r.server
                     ELSE IF r.interface = None THEN 0 ELSE resolve[r.interface].broadcast
        sends     == SelectSeq(relays, LAMBDA r : takes(r) /\ pkt.giaddr # from(r) /\ dest(r) # 0)
    IN  [relays   |-> [i \in DOMAIN relays |-> solved(relays[i])],
         forwards |-> [i \in DOMAIN sends |->
                         [dest |-> dest(sends[i]), from |-> from(sends[i]),
                          packet |-> Forwarded(sends[i], from(sends[i]), pkt, iface, unicast)]]]

\* The agent's option becomes END; it and the byte after it are cleared.
StripAgent(options) ==
    LET i == option_find1(options, AGENT_ID, 1)
    IN  IF i = 0 THEN options
        ELSE [j \in DOMAIN options |-> IF j = i THEN END
                                       ELSE IF j > i /\ j <= i + options[i + 1] + 2 THEN 0 ELSE options[j]]

\* The interface to send the reply out of, 0 when it is not ours.
ReturnIface(relay, pkt) ==
    LET agent  == find_dhcp_option(pkt.options, AGENT_ID, 1)
        remote == find_dhcp_option(agent, SUBOPT_REMOTE_ID, 1)
    IN  IF ~relay.split THEN IF pkt.giaddr = relay.local THEN relay.iface_index ELSE 0
        ELSE IF relay.uplink = 0 \/ pkt.giaddr # relay.uplink \/ agent = None THEN 0
        ELSE IF remote = None THEN 0 ELSE remote[1]

Stripped(relay, pkt) ==
    IF relay.split /\ relay.uplink # 0 /\ pkt.giaddr = relay.uplink
    THEN [pkt EXCEPT !.options = StripAgent(@)] ELSE pkt

relay_reply4(pkt, relays, arrival) ==
    LET step(acc, r) ==
            LET iface == ReturnIface(r, acc.pkt)
            IN  IF acc.iface # 0 THEN acc
                ELSE [pkt |-> Stripped(r, acc.pkt),
                      iface |-> IF r.interface \in {None, arrival} THEN iface ELSE 0]
    IN  IF pkt.giaddr = 0 \/ pkt.op # BOOTREPLY THEN [pkt |-> pkt, iface |-> 0]
        ELSE FoldLeft(step, [pkt |-> pkt, iface |-> 0], relays)

ReplyRelayed(back) ==
    [out |-> <<>>, back |-> [back EXCEPT !.pkt.options = ToWire(@, MinOptions)],
     dest |-> relay_reply_client_dest(back.pkt), local |-> FALSE]

RequestRelayed(up) ==
    [out |-> [i \in DOMAIN up.forwards |-> [up.forwards[i] EXCEPT !.packet.options = ToWire(@, MinOptions)]],
     back |-> None, dest |-> None, local |-> TRUE]

DispatchWith(pkt, relays, iface, resolve, back) ==
    IF relays # <<>> /\ back.iface # 0 THEN ReplyRelayed(back)
    ELSE RequestRelayed(relay_upstream4(iface, pkt, FALSE, relays, resolve))

\* The loop: a reply for a client of ours goes out to it; anything else is
\* ours to answer as well, after a request has been passed on.  The uplinks
\* are resolved in a copy of the relays that is then dropped.
RelayDispatch(pkt, relays, iface, arrival, resolve) ==
    DispatchWith(pkt, relays, iface, resolve, relay_reply4(pkt, relays, arrival))

----------------------------------------------------------------------------
(* /etc/ethers: records [hw, key], the key an address or a name *)

\* Lines that are comments, have no second field or a bad one are skipped.
parse_ethers_text(lines) == SelectSeq(lines, LAMBDA l : l.hw # None /\ l.key # None)

IndexOf(conf, P(_)) == LET S == {i \in DOMAIN conf : P(conf[i])} IN IF S = {} THEN 0 ELSE Min(S)

Keyed(c, key) == IF key.addr # 0 THEN c.addr = key.addr ELSE c.name = key.name

Blank == [from_ethers |-> TRUE, addr |-> 0, name |-> None, hwaddrs |-> <<>>]

Merge(c, rec) ==
    [c EXCEPT !.addr = IF rec.key.addr # 0 THEN rec.key.addr ELSE @,
              !.name = IF rec.key.addr # 0 THEN @ ELSE rec.key.name,
              !.hwaddrs = <<rec.hw>> \o (IF @ = <<>> THEN <<>> ELSE Tail(@))]

ApplyEther(conf, rec) ==
    LET same   == IndexOf(conf, LAMBDA c : Keyed(c, rec.key))
        by_hw  == IndexOf(conf, LAMBDA c : c.hwaddrs = <<rec.hw>>)
        target == IF same # 0 THEN same ELSE by_hw
    IN  IF same # 0 /\ conf[same].from_ethers THEN conf
        ELSE IF target # 0 THEN [conf EXCEPT ![target] = Merge(@, rec)]
        ELSE Append(conf, Merge(Blank, rec))

\* Fault: what an earlier reading left is not purged.
KeepOld(conf, records) == FoldLeft(ApplyEther, conf, records)

apply_ethers_records(conf, records) ==
    FoldLeft(ApplyEther, SelectSeq(conf, LAMBDA c : ~c.from_ethers), records)

dhcp_read_ethers(conf, lines) == apply_ethers_records(conf, parse_ethers_text(lines))

=============================================================================
