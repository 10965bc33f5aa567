------------------------------ MODULE MCPacket ------------------------------
(***************************************************************************)
(* DNS messages, their records and their EDNS0 options, checked against    *)
(* reference definitions over every small message, and, through MCZones,   *)
(* the DNSSEC validator and the authoritative zones.  A behaviour picks    *)
(* one input and computes the answer of the code for it.                   *)
(***************************************************************************)
EXTENDS Edns0, TLC

CONSTANTS NSEC3_ITERS, MaxAlias

VARIABLES job, answer, done
vars == <<job, answer, done>>

\* A hash of names without collisions on the names of MCZones.
ZoneHash(n, p) == (FoldLeft(LAMBDA h, l : h * 11 + l + 1, p[1], n) * 29) % 1009
Zn == INSTANCE MCZones WITH hash_name <- ZoneHash

(* --- names: every short run of cells *)
Cells == {0, 1, 2, 65, 97, 128, Ptr, Ptr + 1, Ptr + 3, NotText}
NameJobs == [op : {"name"}, body : UNION {[1 .. n -> Cells] : n \in 1 .. 4}, pos : 0 .. 1]

(* --- messages: one question and three records with compressed names *)
NameCells(st, k) ==
    CASE k = "lit" -> <<1, 97, 0>>
      [] k = "q" -> <<Ptr>>
      [] k = "prev" -> <<Ptr + st.owner>>
      [] k = "data" -> <<Ptr + st.data>>
      [] k = "sub" -> <<1, 98, Ptr + st.owner>>
      [] k = "root" -> <<0>>
DataCells(st, r) ==
    CASE r.rtype = T_CNAME -> NameCells(st, r.data)
      [] r.rtype = T_MX -> <<7>> \o NameCells(st, r.data)
      [] OTHER -> <<9, 9>>
RECURSIVE Laid(_, _)
Laid(recs, st) ==
    IF recs = <<>> THEN st.body
    ELSE LET r == recs[1]
             owner == NameCells(st, r.owner)
             data == IF r.rtype = T_OPT THEN build_opt_rdata(r.data)
                     ELSE DataCells([st EXCEPT !.owner = Len(st.body)], r)
             at == Len(st.body) + Len(owner) + Fixed
         IN  Laid(Tail(recs),
                  [body |-> st.body \o owner \o <<r.rtype, r.class, r.ttl, Len(data)>> \o data,
                   owner |-> IF r.rtype = T_OPT THEN st.owner ELSE Len(st.body),
                   data |-> CASE r.rtype = T_CNAME -> at [] r.rtype = T_MX -> at + 1 [] OTHER -> 0])
Asked == <<2, 97, 98, 0>>
Body(qtype, recs) == Laid(recs, [body |-> Asked \o <<qtype, C_IN>>, owner |-> 0, data |-> 0])
Header(ad, rcode) == [aa |-> TRUE, tc |-> FALSE, ad |-> ad, cd |-> FALSE, ra |-> FALSE, rcode |-> rcode, opcode |-> 0]
Message(qtype, recs, split, h) ==
    [header |-> h, qd |-> 1, an |-> split[1], ns |-> split[2], ar |-> split[3], body |-> Body(qtype, recs)]

Rec(t, o, d) == [rtype |-> t, class |-> C_IN, ttl |-> 6, owner |-> o, data |-> d]
Plain == {Rec(t, o, "lit") : t \in {T_A, T_RRSIG}, o \in {"lit", "q", "prev", "data", "sub"}}
Named == {Rec(t, o, d) : t \in {T_CNAME, T_MX}, o \in {"q", "sub"}, d \in {"lit", "prev", "data"}}
OptRec(do, options) == [rtype |-> T_OPT, class |-> 3, ttl |-> OptTtl(do), owner |-> "root", data |-> options]
Recs == Plain \cup Named
\* A last record may point at its own owner, past two records that go.
Trios == {<<x, y, z>> : x \in Recs, y \in Recs, z \in Plain \cup {OptRec(FALSE, <<>>), Rec(T_MX, "lit", "prev")}}
Filters == {"a", "any", "dnssec", "opt"}
FilterJobs == {[op |-> "filter", recs |-> t, split |-> s, qtype |-> q, filter |-> f] :
                  t \in Trios, s \in {<<2, 0, 1>>, <<1, 1, 1>>}, q \in {T_ANY, T_RRSIG}, f \in Filters}

(* --- replies *)
Contexts == [has_pheader : BOOLEAN, do_question : BOOLEAN, checking_disabled : {TRUE}, query_source : {None}]
ReplyConfigs == [dnssec_valid : BOOLEAN, dnssec_proxy : BOOLEAN, filter_rr : {{}, {T_A}}, edns_pktsz : {5},
                 client_subnet : {FALSE}]
OptRecs == {OptRec(d, o) : d \in BOOLEAN, o \in {<<>>, <<Opt(EDE, <<1>>), Opt(MAC, <<2>>)>>}}
ReplyRecs == {<<x, y>> : x \in Plain, y \in {Rec(T_CNAME, "q", "q")} \cup OptRecs}
             \cup {<<x, y, z>> : x \in Plain, y \in {Rec(T_RRSIG, "prev", "lit")}, z \in OptRecs}
ReplyJobs == {[op |-> "reply", recs |-> r, h |-> h, cfg |-> c, ctx |-> x, said |-> a] :
                 r \in ReplyRecs, h \in {Header(TRUE, 0), Header(FALSE, 3), Header(TRUE, 2)}, c \in ReplyConfigs,
                 x \in Contexts, a \in {"cached", "bogus", "rebind", "bad"}}

(* --- options *)
V4(a, b) == [v6 |-> FALSE, octets |-> <<a, b>>]
V6(a) == [v6 |-> TRUE, octets |-> <<a, 1, 2, 3>>]
Sources == {V4(1, 2), V4(1, 3), V4(2, 0), V6(1), V6(2)}
Macs == {None, <<1, 2, 3, 4, 5, 250>>, <<1, 2, 3, 4, 5, 251>>, <<1, 2>>}
Sub(m, c) == [mask |-> m, const_addr |-> c]
Configs == [add_mac : BOOLEAN, strip_mac : BOOLEAN, mac_b64 : BOOLEAN, mac_hex : BOOLEAN,
            client_subnet : BOOLEAN, strip_ecs : BOOLEAN,
            add_subnet4 : {None, Sub(0, None), Sub(3, None), Sub(3, V6(3))}, add_subnet6 : {None, Sub(5, None)},
            dns_client_id : {None, 5}, umbrella : BOOLEAN, umbrella_org : {1}, umbrella_devid : {FALSE},
            umbrella_device : {0}, umbrella_asset : {0}]
Existing == {<<>>, <<Opt(CLIENT_SUBNET, <<1, 3, 0, 1, 2>>)>>, <<Opt(MAC, <<9>>)>>}
OptionJobs == [op : {"options"}, cfg : {c \in Configs : c.mac_b64 => ~c.mac_hex}, existing : Existing,
               source : {V4(1, 2), V6(1)}, mac : {None, <<1, 2, 3, 4, 5, 250>>}]

Init == \/ /\ job \in NameJobs \cup FilterJobs \cup ReplyJobs \cup OptionJobs
           /\ answer = None
           /\ done = FALSE
        \/ Zn!Init

ReadName == /\ job.op = "name"
            /\ answer' = [extract |-> extract_name(job.body, job.pos), skip |-> skip_name(job.body, job.pos),
                          check |-> check_name(job.body, job.pos, {}, TRUE)]
Original == Message(job.qtype, job.recs, job.split, Header(FALSE, 0))
Filter == /\ job.op = "filter"
          /\ answer' = CASE job.filter = "opt" -> [pkt |-> filter_rr_types(Original, {T_OPT})]
                         [] job.filter = "dnssec" -> [pkt |-> strip_dnssec_if_not_requested(Original)]
                         [] job.filter = "any" -> filter_configured_rr_types(Original, {T_ANY})
                         [] job.filter = "a" -> filter_configured_rr_types(Original, {T_A})
Upstream == Message(T_A, job.recs, <<1, 0, Len(job.recs) - 1>>, job.h)
Reply == /\ job.op = "reply"
         /\ answer' = process_reply(Upstream, job.cfg, job.ctx, job.said)
Options == /\ job.op = "options"
           /\ answer' = add_edns0_config(job.existing, job.source, job.mac, job.cfg)

Next == \/ /\ ~done
           /\ done' = TRUE
           /\ ReadName \/ Filter \/ Reply \/ Options
           /\ UNCHANGED job
        \/ Zn!Next
Spec == Init /\ [][Next]_vars

----------------------------------------------------------------------------

\* The three walkers of a name agree: where extract_name reads one,
\* skip_name and the filter's check_name stop at the same cell, the name fits
\* the wire, and it reads back as it was written.
WalkersAgree ==
    (done /\ job.op = "name" /\ answer.extract # None) =>
        /\ answer.skip = answer.extract.end
        /\ answer.check # None => answer.check = [b |-> job.body, end |-> answer.extract.end]
        /\ Len(write_name(answer.extract.name)) <= MaxWire
        /\ extract_name(write_name(answer.extract.name), 0).name = answer.extract.name

Sections(d) == d.answers \o d.authority \o d.additional
RefRemoves(i) ==
    LET r == job.recs[i]
        inAnswer == i <= job.split[1]
    IN  CASE job.filter = "opt" -> r.rtype = T_OPT /\ i > job.split[1] + job.split[2]
          [] job.filter = "dnssec" -> r.rtype = T_RRSIG /\ ~(inAnswer /\ job.qtype = T_RRSIG)
          [] job.filter = "a" -> inAnswer /\ r.rtype = T_A
          [] job.filter = "any" -> IF job.qtype = T_ANY THEN r.rtype \in {T_RRSIG, T_OPT} /\ r.class = C_IN ELSE FALSE
\* A kept record spells a name with one of the record before it.
Leans(i) ==
    LET r == job.recs[i]
    IN  r.owner \in {"prev", "sub"} \/ (r.owner = "data" /\ job.recs[i - 1].rtype \in {T_CNAME, T_MX})
        \/ (r.rtype \in {T_CNAME, T_MX} /\ r.data = "data" /\ job.recs[i - 1].rtype \in {T_CNAME, T_MX})
Removed == {i \in DOMAIN job.recs : RefRemoves(i)}
Broken == \E i \in DOMAIN job.recs \ Removed : i - 1 \in Removed /\ Leans(i)

\* A filter takes out exactly the records it is meant to, and every record
\* it leaves reads as it did before, compressed names included; when a kept
\* name is spelt with bytes of a record that would go, the message is left
\* alone (filter_with).
FilteredRight ==
    (done /\ job.op = "filter") =>
        LET was == parse(Original)
            is == parse(answer.pkt)
            kept(lo, hi) == SelectSeq([i \in 1 .. hi - lo |-> [at |-> lo + i, rr |-> Sections(was)[lo + i]]],
                                      LAMBDA x : x.at \notin Removed)
            rrs(s) == [i \in DOMAIN s |-> s[i].rr]
            s == job.split
        IN  IF Removed = {} \/ Broken THEN answer.pkt = Original
            ELSE /\ is # None
                 /\ is.questions = was.questions
                 /\ is.answers = rrs(kept(0, s[1]))
                 /\ is.authority = rrs(kept(s[1], s[1] + s[2]))
                 /\ is.additional = rrs(kept(s[1] + s[2], s[1] + s[2] + s[3]))

\* Both of the above: a message filtered on its way to a client keeps the
\* records that were to stay, and every walker of names reads it alike
\* (filter_with, check_name, extract_name, skip_name).
FilterKeepsRest == FilteredRight /\ WalkersAgree

Opts(d) == SelectSeq(d.additional, LAMBDA rr : rr.rtype = T_OPT)
Rrsigs(d) == {rr \in Range(Sections(d)) : rr.rtype = T_RRSIG}

\* A client sees EDNS0 only if it spoke it, then one OPT record that offers
\* our payload size and, under validation, sets DO and brings signatures only
\* if the client asked; AD is not passed on, CD is the client's, and a
\* blocked reply has no records left (process_reply).
EdnsForClient ==
    (done /\ job.op = "reply") =>
        LET d == parse(answer)
            passed == job.h.rcode \in {0, 3}
        IN  /\ d # None
            /\ Len(Opts(d)) = IF job.ctx.has_pheader /\ Opts(parse(Upstream)) # <<>> THEN 1 ELSE 0
            /\ \A i \in DOMAIN Opts(d) :
                  /\ Opts(d)[i].class = job.cfg.edns_pktsz
                  /\ DoBit(Opts(d)[i].ttl) => job.ctx.do_question \/ ~job.cfg.dnssec_valid
                  /\ parse_opt_options(Opts(d)[i].rdata) # None
            /\ (passed /\ job.cfg.dnssec_valid /\ ~job.ctx.do_question) => Rrsigs(d) = {}
            /\ answer.header.cd /\ answer.header.ra /\ (answer.header.ad => job.h.ad /\ job.cfg.dnssec_proxy)
            /\ (passed /\ job.said \in {"rebind", "bad"}) => d.answers = <<>> /\ d.authority = <<>>

\* Two clients whose answers may be cached have asked the same query: no
\* address and no MAC got into the options of either (add_edns0_config).
\* A client subnet overrules what the MAC and Umbrella options said, so the
\* two are not combined here.
CacheableIsShared ==
    (/\ done /\ job.op = "options" /\ answer.cacheable
     /\ job.cfg.client_subnet => ~job.cfg.umbrella /\ ~job.cfg.add_mac /\ ~job.cfg.mac_b64 /\ ~job.cfg.mac_hex) =>
        \A s \in Sources, m \in Macs :
            LET other == add_edns0_config(job.existing, s, m, job.cfg)
            IN  (s.v6 = job.source.v6 /\ other.cacheable) => other.options = answer.options

EchoOf(options) == [i \in DOMAIN options |-> IF options[i].code = CLIENT_SUBNET
                                              THEN [options[i] EXCEPT !.data[3] = 2] ELSE options[i]]
SamePrefix(a, c, mask) == \A i \in 1 .. mask :
    LET k == (i - 1) \div Bits + 1
        low == 2 ^ (Bits - 1 - ((i - 1) % Bits))
    IN  (Padded(a)[k] \div low) % 2 = (Padded(c)[k] \div low) % 2
Subnet(cfg, s) == IF s.v6 THEN cfg.add_subnet6 ELSE cfg.add_subnet4

\* The subnet option tells the servers the client's prefix and nothing more:
\* clients of one prefix get one option; and a server that echoes it, with a
\* scope of its own, is believed (calc_subnet_opt, check_source).
SubnetOnly ==
    (/\ done /\ job.op = "options" /\ job.cfg.client_subnet
     /\ job.cfg.strip_ecs \/ ~OwnSubnet(job.existing)) =>
        /\ check_source(add_pseudoheader(Message(T_A, <<>>, <<0, 0, 0>>, Header(FALSE, 0)), 5, FALSE, EchoOf(answer.options)),
                        job.source, job.cfg)
        /\ (Subnet(job.cfg, job.source) # None /\ ~job.cfg.umbrella) =>
              \A s \in Sources :
                 (s.v6 = job.source.v6 /\ SamePrefix(s, job.source, Subnet(job.cfg, s).mask)) =>
                    add_edns0_config(job.existing, s, job.mac, job.cfg).options = answer.options

\* What the EDNS0 options of a query tell of its client: the subnet option no
\* more than the prefix, and nothing at all when the answer may be cached
\* for others (add_edns0_config, calc_subnet_opt, check_source).
OptionsTellNoMore == SubnetOnly /\ CacheableIsShared

\* EDNS0 ends at the daemon in both directions: a client sees no more of it
\* than it spoke, and the servers learn no more of a client than configured
\* (process_reply, add_edns0_config).
EdnsEndsHere == EdnsForClient /\ OptionsTellNoMore

\* Trust is backed by the zones' own records, a signature counts in its
\* period only, and a validator that is given the keys it asks for settles
\* every question (dnssec_validate_by_ds, dnssec_validate_ds,
\* dnssec_validate_reply, zone_status, check_signature_time).
TrustBacked == Zn!TrustBacked /\ Zn!PeriodsAgree /\ Zn!ChaseSettles

\* The zone transfer and the single answers tell the same zone (answer_auth,
\* build_auth_section).
TransferAgrees == Zn!TransferAgrees

=============================================================================
