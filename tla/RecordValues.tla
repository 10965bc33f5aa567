----------------------------- MODULE RecordValues -----------------------------
(***************************************************************************)
(* The value parsers of option.rs for DNS records, authoritative zones,    *)
(* upstream servers, filters and limits.  A parser maps the tokens of a    *)
(* value to the entry it stores, or to None where the source returns       *)
(* Err(ConfigError).                                                       *)
(*                                                                         *)
(* The words configuration values are made of.  A value is a sequence of   *)
(* tokens (the source's split on ','); what the source learns from a       *)
(* token's characters is given by the constants below, so that no token is *)
(* ever put together character by character:                               *)
(*   Num    the tokens that parse as an integer, with that integer;        *)
(*   Addr4, Addr6  the tokens that parse as an IPv4 / IPv6 address;        *)
(*   Canon  the tokens that are valid domain names, with their canonical   *)
(*          form (canonicalise_opt: lower case, no trailing dot);          *)
(*   Cut    <<token, separator>> -> <<left, right>>, for the tokens that   *)
(*          contain the separator ("tag:x" cut at ":" is <<"tag", "x">>);  *)
(*   Secs   the tokens that parse as a time, with its number of seconds;   *)
(*   Hex    the tokens of an even number of hexadecimal digits;            *)
(*   IfIndex  the interface names the kernel knows, with their index.      *)
(***************************************************************************)
EXTENDS Integers, Sequences, FiniteSets, SequencesExt

CONSTANTS None, Num, Addr4, Addr6, Canon, Cut, Secs, Hex, IfIndex

Address(t) == t \in Addr4 \/ t \in Addr6

\* str::parse::<uN> / <iN>: the token is an integer within the type's range.
ParseIn(t, lo, hi) == IF t \in DOMAIN Num /\ Num[t] \in lo..hi THEN Num[t] ELSE None
U8(t)  == ParseIn(t, 0, 255)
U16(t) == ParseIn(t, 0, 65535)
I32Max == 2147483647
U32(t) == ParseIn(t, 0, I32Max)
I32(t) == ParseIn(t, -I32Max, I32Max)

HasCut(t, sep) == <<t, sep>> \in DOMAIN Cut
Left(t, sep)  == IF HasCut(t, sep) THEN Cut[<<t, sep>>][1] ELSE t
Right(t, sep) == IF HasCut(t, sep) THEN Cut[<<t, sep>>][2] ELSE None

\* strip_prefix("tag:") and its kin: what follows one of the prefixes, or None.
StripAny(t, ps) == IF HasCut(t, ":") /\ Cut[<<t, ":">>][1] \in ps THEN Cut[<<t, ":">>][2] ELSE None
StripPrefix(t, p) == StripAny(t, {p})

parse_domain_token(t) == IF t \in DOMAIN Canon /\ Canon[t] # "" THEN Canon[t] ELSE None

\* parse_mysockaddr: "ip" or "ip#port"; the port is a u16 and defaults to 0.
parse_mysockaddr(t) ==
    LET ip == Left(t, "#")
        port == IF HasCut(t, "#") THEN U16(Right(t, "#")) ELSE 0
    IN IF Address(ip) /\ port # None THEN [ip |-> ip, port |-> port] ELSE None

\* Every element of a sequence of parsed entries is an entry, none an error.
AllParsed(s) == \A i \in DOMAIN s : s[i] # None
Each(Op(_), v) == [i \in DOMAIN v |-> Op(v[i])]
\* Parse each token with Op; one failure, or an empty token, fails the value.
EachParsed(Op(_), v) ==
    IF "" \notin Range(v) /\ AllParsed(Each(Op, v)) THEN Each(Op, v) ELSE None
Part(v, i, default) == IF i <= Len(v) THEN v[i] ELSE default

----------------------------------------------------------------------------
\* A record with every field parsed, or None if one of them is an error.
Checked(r) == IF \E f \in DOMAIN r : r[f] = None THEN None ELSE r
Sized(v, lo, hi, r) == IF Len(v) \in lo..hi THEN Checked(r) ELSE None

parse_mx_host(v) ==
    Sized(v, 1, 3, [name |-> parse_domain_token(v[1]), isSrv |-> FALSE, port |-> 0, weight |-> 0,
                    target |-> IF Len(v) >= 2 THEN parse_domain_token(v[2]) ELSE "",
                    priority |-> IF Len(v) = 3 THEN U32(v[3]) ELSE 1])

parse_srv_host(v) ==
    Sized(v, 3, 5, [name |-> parse_domain_token(v[1]), isSrv |-> TRUE,
                    target |-> parse_domain_token(v[2]), port |-> U16(v[3]),
                    priority |-> IF Len(v) >= 4 THEN U32(v[4]) ELSE 0,
                    weight |-> IF Len(v) = 5 THEN U32(v[5]) ELSE 0])

\* The text is stored as length-prefixed chunks: one per part, or one empty chunk.
encode_txt_record_chunks(v) == IF v = <<>> THEN <<"">> ELSE v
parse_txt_record(v) ==
    Sized(v, 1, Len(v), [name |-> parse_domain_token(v[1]), class |-> 1,
                         txt |-> encode_txt_record_chunks(Tail(v))])

parse_ptr_record(v) ==
    Sized(v, 2, 2, [name |-> parse_domain_token(v[1]), ptr |-> parse_domain_token(v[2])])

\* Names, at most one address of each family and at most one TTL, in any order;
\* a token is an address before it is a number, and a number before it is a name.
IsTtl(t) == ~Address(t) /\ I32(t) # None
parse_host_record(v) ==
    LET is4(t) == t \in Addr4
        is6(t) == t \in Addr6
        isName(t) == ~Address(t) /\ ~IsTtl(t)
        \* The duplicate test is `ttl != -1`: a first TTL of -1 does not count.
        ttls == SelectSeq(v, IsTtl)
        v4 == SelectSeq(v, is4)
        v6 == SelectSeq(v, is6)
        names == EachParsed(parse_domain_token, SelectSeq(v, isName))
        ok == /\ Len(v) >= 2 /\ "" \notin Range(v)
              /\ Len(v4) <= 1 /\ Len(v6) <= 1 /\ Len(v4) + Len(v6) >= 1
              /\ \A i \in 1..(Len(ttls) - 1) : Num[ttls[i]] = -1
              /\ names # None /\ names # <<>>
    IN IF ~ok THEN None
       ELSE [names |-> names, addr4 |-> Part(v4, 1, None), addr6 |-> Part(v6, 1, None),
             ttl |-> IF ttls = <<>> THEN -1 ELSE Num[Last(ttls)]]

\* "eth0", "eth0/4" or "eth0/6": the interface and the family it is limited to.
parse_interface_family(t) ==
    IF ~HasCut(t, "/") THEN [intr |-> t, family |-> 0]
    ELSE IF Left(t, "/") # "" /\ Right(t, "/") \in {"4", "6"}
         THEN [intr |-> Left(t, "/"), family |-> Num[Right(t, "/")]] ELSE None

\* interface-name=name,intf[/4|/6] and dynamic-host=name,[ip4],[ip6],intf.
InterfaceName(name, mid, intf, dynamic) ==
    LET oneEach == \A i, j \in DOMAIN mid : i # j => (mid[i] \in Addr4) # (mid[j] \in Addr4)
    IN  IF /\ name # None /\ intf # None
           /\ \A i \in DOMAIN mid : Address(mid[i])
           /\ oneEach
           /\ IF dynamic THEN mid # <<>> /\ intf.family = 0 ELSE mid = <<>>
        THEN [name |-> name, intr |-> intf.intr,
              families |-> IF dynamic THEN {} ELSE IF intf.family = 0 THEN {4, 6} ELSE {intf.family},
              protos |-> Range(mid)]
        ELSE None
parse_interface_name(v, dynamic) ==
    IF Len(v) < 2 \/ "" \in Range(v) THEN None
    ELSE InterfaceName(parse_domain_token(v[1]), SubSeq(v, 2, Len(v) - 1), parse_interface_family(v[Len(v)]), dynamic)

\* cname=alias[,alias...],target[,ttl]; an alias already defined is an error.
AliasRecords(aliases, target, ttl, existing) ==
    IF /\ target # None /\ AllParsed(aliases)
       /\ \A i \in DOMAIN aliases :
             /\ \A k \in DOMAIN existing : existing[k].alias # aliases[i]
             /\ \A j \in 1..(i - 1) : aliases[j] # aliases[i]
    THEN [i \in DOMAIN aliases |-> [alias |-> aliases[i], target |-> target, ttl |-> ttl]]
    ELSE None
parse_cname_records(v, existing) ==
    LET upTo(n, ttl) == AliasRecords(Each(parse_domain_token, SubSeq(v, 1, n - 1)), parse_domain_token(v[n]), ttl, existing)
    IN  IF Len(v) < 2 THEN None
        ELSE IF Len(v) >= 3 /\ I32(v[Len(v)]) # None THEN upTo(Len(v) - 1, Num[v[Len(v)]])
        ELSE upTo(Len(v), -1)

parse_naptr_record(v) ==
    Sized(v, 7, 7, [name |-> parse_domain_token(v[1]), order |-> U32(v[2]), pref |-> U32(v[3]),
                    text |-> SubSeq(v, 4, 6), replace |-> parse_domain_token(v[7])])

RrTypes == [A |-> 1, NS |-> 2, CNAME |-> 5, SOA |-> 6, PTR |-> 12, MX |-> 15, TXT |-> 16,
            AAAA |-> 28, SRV |-> 33, NAPTR |-> 35, DS |-> 43, DNSKEY |-> 48, CAA |-> 257,
            ANY |-> 255]
parse_rr_type(t) ==
    IF U16(t) # None THEN U16(t) ELSE IF t \in DOMAIN RrTypes THEN RrTypes[t] ELSE None

parse_dns_rr(v) ==
    Sized(v, 2, 3, [name |-> parse_domain_token(v[1]), class |-> parse_rr_type(v[2]),
                    txt |-> IF Len(v) = 2 THEN <<>> ELSE IF v[3] \in Hex THEN <<v[3]>> ELSE None])

parse_caa_record(v) ==
    Sized(v, 4, 4, [name |-> parse_domain_token(v[1]), class |-> RrTypes["CAA"],
                    txt |-> IF U8(v[2]) # None /\ v[3] # "" THEN SubSeq(v, 2, 4) ELSE None])

parse_rrlist(v) == EachParsed(parse_rr_type, v)

parse_trust_anchor(v) ==
    Sized(v, 5, 5, [name |-> parse_domain_token(v[1]), keytag |-> I32(v[2]), algo |-> I32(v[3]),
                    digestType |-> I32(v[4]), digest |-> IF v[5] \in Hex THEN v[5] ELSE None])

----------------------------------------------------------------------------
(* Address blocks, filters and authoritative zones.                        *)

\* "ip[/prefix]" with a prefix length in range; `full` is the width without one.
parse_bogus_addr(t) ==
    LET ip == Left(t, "/")
        width == IF ip \in Addr6 THEN 128 ELSE 32
        prefix == IF HasCut(t, "/") THEN ParseIn(Right(t, "/"), 0, width) ELSE width
    IN IF Address(ip) THEN Checked([addr |-> ip, prefix |-> prefix]) ELSE None

parse_rebind_domains(v) == EachParsed(parse_domain_token, v)

\* The prefix length of an auth-zone subnet is not range checked.
parse_auth_zone_addr(t) ==
    LET ip == Left(t, "/")
        width == IF ip \in Addr6 THEN 64 ELSE 24
    IN IF Address(ip)
       THEN Checked([addr |-> ip, prefix |-> IF HasCut(t, "/") THEN I32(Right(t, "/")) ELSE width])
       ELSE None

parse_auth_zone_interface(t) ==
    IF (HasCut(t, "/") /\ Right(t, "/") \notin {"4", "6"}) \/ Left(t, "/") = "" THEN None
    ELSE [name |-> Left(t, "/"),
          families |-> IF HasCut(t, "/") THEN {Num[Right(t, "/")]} ELSE {4, 6}]

\* auth-zone=domain[,subnet|exclude:subnet|interface[/4|/6]...]
AuthField(t) ==
    LET rest == StripPrefix(t, "exclude")
    IN  [token |-> t, excluded |-> rest # None, subnet |-> parse_auth_zone_addr(IF rest = None THEN t ELSE rest)]
AuthFieldOk(x) ==
    /\ x.token # ""
    /\ x.subnet # None \/ (~x.excluded /\ parse_auth_zone_interface(x.token) # None)
AuthZoneOf(domain, fields) ==
    LET subnets(excluded) == Each(LAMBDA x : x.subnet,
                                  SelectSeq(fields, LAMBDA x : x.subnet # None /\ x.excluded = excluded))
    IN  IF domain = None \/ \E x \in Range(fields) : ~AuthFieldOk(x) THEN None
        ELSE [domain |-> domain, subnet |-> subnets(FALSE), exclude |-> subnets(TRUE),
              interfaces |-> Each(LAMBDA x : parse_auth_zone_interface(x.token),
                                  SelectSeq(fields, LAMBDA x : x.subnet = None))]
parse_auth_zone(v) ==
    IF v = <<>> THEN None ELSE AuthZoneOf(parse_domain_token(v[1]), Each(AuthField, Tail(v)))

parse_auth_peers(v) ==
    LET peer(t) == IF Address(t) THEN [name |-> None, addr |-> t] ELSE None IN EachParsed(peer, v)

AuthInterface(x) ==
    IF x = None THEN None
    ELSE [name |-> x.intr, addr |-> CASE x.family = 4 -> "0.0.0.0" [] x.family = 6 -> "::" [] OTHER -> None]
parse_auth_server_interface(t) ==
    IF Address(t) THEN [name |-> None, addr |-> t] ELSE AuthInterface(parse_interface_family(t))
parse_auth_server(v) ==
    Sized(v, 1, Len(v), [authserver |-> parse_domain_token(v[1]),
                         interfaces |-> EachParsed(parse_auth_server_interface, Tail(v))])

parse_auth_sec_servers(v) == EachParsed(parse_domain_token, v)

\* auth-soa=serial[,hostmaster[,refresh[,retry[,expiry]]]]: the fields it sets.
SoaFields == <<"soa_sn", "hostmaster", "soa_refresh", "soa_retry", "soa_expiry">>
parse_auth_soa(v) ==
    LET at(i) == IF i = 2 THEN v[2] ELSE U32(v[i])
    IN IF Len(v) \in 1..5 /\ "" \notin Range(v) /\ \A i \in DOMAIN v : at(i) # None
       THEN [i \in DOMAIN v |-> at(i)] ELSE None

\* dnssec-limits: each part replaces a limit unless it is zero.
LimitMax == 4
parse_dnssec_limits(v, limits) ==
    IF Len(v) \in 1..LimitMax /\ EachParsed(I32, v) # None
    THEN [i \in DOMAIN limits |-> IF i <= Len(v) /\ Num[v[i]] # 0 THEN Num[v[i]] ELSE limits[i]]
    ELSE None

\* add-subnet=[addr/]prefix4[,[addr/]prefix6]; the width follows the address given.
SubnetPart(addr, used, mask) == IF mask = None THEN None ELSE [addr |-> addr, used |-> used, mask |-> mask]
SubnetOfSock(sock, size) ==
    IF sock = None THEN None
    ELSE SubnetPart(sock.ip, TRUE, ParseIn(size, 0, IF sock.ip \in Addr6 THEN 128 ELSE 32))
parse_add_subnet_part(t, ipv6Slot) ==
    IF HasCut(t, "/") THEN SubnetOfSock(parse_mysockaddr(Left(t, "/")), Right(t, "/"))
    ELSE SubnetPart(IF ipv6Slot THEN "::" ELSE "0.0.0.0", FALSE, ParseIn(t, 0, IF ipv6Slot THEN 128 ELSE 32))
IfParsed(parts) == IF AllParsed(parts) THEN parts ELSE None
parse_add_subnet(v) ==
    IF Len(v) \in 1..2 /\ "" \notin Range(v)
    THEN IfParsed([i \in DOMAIN v |-> parse_add_subnet_part(v[i], i = 2)]) ELSE None

\* alias=ip|start-end,new-ip[,mask]
parse_alias(v) ==
    LET range == HasCut(v[1], "-")
        ip(t) == IF t \in Addr4 THEN t ELSE None
    IN Sized(v, 2, 3, [in |-> ip(Left(v[1], "-")), out |-> ip(v[2]),
                       end |-> IF range THEN ip(Right(v[1], "-")) ELSE "0.0.0.0",
                       mask |-> IF Len(v) = 3 THEN ip(v[3]) ELSE "255.255.255.255"])

----------------------------------------------------------------------------
(* Values that begin with '/': their segments, an empty one first.         *)
SlashForm(v) == Len(v) > 1 /\ v[1] = ""
NonEmpty(t) == t # ""

\* ipset and nftset: /domain[/domain...]/set[,set...].  The last '/' is the token
\* "/": the segments before it are the domains, the tokens after it the sets.  In a
\* nftset name '#' separates table and set.
parse_ipset_family(v, hashToSpace) ==
    LET last == SelectLastInSeq(v, LAMBDA t : t = "/")
        domains == SelectSeq(SubSeq(v, 2, last - 1), NonEmpty)
        sets == SelectSeq(SubSeq(v, last + 1, Len(v)), NonEmpty)
        named(t) == IF hashToSpace /\ HasCut(t, "#") THEN <<Left(t, "#"), Right(t, "#")>> ELSE <<t>>
    IN IF v[1] # "" \/ last = 0 \/ domains = <<>> \/ sets = <<>>
          \/ ~AllParsed(Each(parse_domain_token, domains)) THEN None
       ELSE [i \in DOMAIN domains |->
                [domain |-> parse_domain_token(domains[i]), sets |-> Each(named, sets)]]
parse_ipset(v)  == parse_ipset_family(v, FALSE)
parse_nftset(v) == parse_ipset_family(v, TRUE)

----------------------------------------------------------------------------
(* Upstream servers and conditional domains.                               *)
NoAddr == [ip |-> "0.0.0.0", port |-> 0]
new_server(flags, domain, addr) == [flags |-> flags, domain |-> domain, addr |-> addr]

\* "ip[#port]", the port a u16 and 53 by default; "@source" is ignored.
parse_addr_port(t) ==
    LET host == Left(t, "#")
        ip == Left(host, "@")
        port == IF HasCut(t, "#") THEN U16(Left(Right(t, "#"), "@")) ELSE 53
    IN IF Address(ip) /\ port # None THEN [ip |-> ip, port |-> port] ELSE None
FamilyFlag(ip) == IF ip \in Addr6 THEN "ADDR6" ELSE "ADDR4"

\* One entry per domain, or one without a domain.
PerDomain(domains, flags, addr) ==
    IF domains = <<>> THEN <<new_server(flags, "", addr)>>
    ELSE [i \in DOMAIN domains |-> new_server(flags, domains[i], addr)]

\* server=, local= and address=: [/domain/.../]address.  "#" as a domain means every
\* domain; no address means "answer locally"; address=/d/# means the null address.
ServerDomains(v) ==
    IF SlashForm(v)
    THEN Each(LAMBDA t : IF t = "#" THEN "" ELSE t, SelectSeq(SubSeq(v, 1, Len(v) - 1), NonEmpty)) ELSE <<>>
ServersAt(domains, addr, literal) ==
    IF addr = None THEN None ELSE PerDomain(domains, {FamilyFlag(addr.ip)} \union literal, addr)
ServerEntries(key, domains, arg) ==
    IF arg = "" THEN PerDomain(domains, {"LITERAL_ADDRESS"}, NoAddr)
    ELSE IF key = "address" /\ arg = "#" THEN PerDomain(domains, {"ALL_ZEROS", "LITERAL_ADDRESS"}, NoAddr)
    ELSE ServersAt(domains, parse_addr_port(arg), IF key = "address" THEN {"LITERAL_ADDRESS"} ELSE {})
build_server_or_address_entries(key, v) == ServerEntries(key, ServerDomains(v), v[Len(v)])

\* "ip/prefix" with the prefix in 1..width; without one the width itself.
Subnet(t, whole) ==
    LET ip == Left(t, "/")
        width == IF ip \in Addr6 THEN 128 ELSE 32
        size == IF HasCut(t, "/") THEN ParseIn(Right(t, "/"), 1, width) ELSE whole[width]
    IN IF Address(ip) THEN Checked([ip |-> ip, size |-> size]) ELSE None

\* rev-server=net[/prefix][,server]: a server for each reverse zone of the block (the
\* zones themselves are domain_rev of Config); no server means "answer locally".
ZoneServers(zones, addr) == IF addr = None THEN None ELSE <<new_server({FamilyFlag(addr.ip)}, zones, addr)>>
push_domain_servers(zones, v) ==
    IF Len(v) = 1 THEN <<new_server({"LITERAL_ADDRESS"}, zones, NoAddr)>> ELSE ZoneServers(zones, parse_addr_port(v[2]))
RevServers(net, v) == IF net = None THEN None ELSE push_domain_servers(<<net.ip, net.size>>, v)
parse_rev_server(v) == RevServers(Subnet(v[1], [w \in {32, 128} |-> w]), v)

\* The address block of domain= and synth-domain=: a subnet, or a range of one or two
\* addresses of the same family.
CondBlock(v) ==
    LET same(a, b) == (a \in Addr4 /\ b \in Addr4) \/ (a \in Addr6 /\ b \in Addr6)
        end == IF Part(v, 2, "") = "" THEN v[1] ELSE v[2]
    IN IF HasCut(v[1], "/") THEN Subnet(v[1], [w \in {32, 128} |-> None])
       ELSE IF Address(v[1]) /\ same(v[1], end) THEN [ip |-> v[1], end |-> end] ELSE None

\* domain=name, domain=#, domain=name,subnet[,local] or domain=name,start[,end]|interface.
CondDomain(domain, block) ==
    IF block = None THEN None ELSE [domain |-> domain, block |-> <<block>>, intf |-> None]
parse_domain(v) ==
    IF v[1] = "" THEN None
    ELSE IF Len(v) = 1 THEN [domain |-> v[1], block |-> <<>>, intf |-> None]
    ELSE IF ~HasCut(v[2], "/") /\ ~Address(v[2]) THEN [domain |-> v[1], block |-> <<>>, intf |-> v[2]]
    ELSE IF HasCut(v[2], "/") /\ Len(v) > 2 /\ SubSeq(v, 3, Len(v)) # <<"local">> THEN None
    ELSE CondDomain(v[1], CondBlock(Tail(v)))

\* synth-domain=name,block[,prefix[*]]; a '*' makes the names an index from the start,
\* which an IPv6 block wider than 64 bits cannot be.
SynthDomain(domain, first, block, prefix) ==
    LET cidr == HasCut(first, "/")
        indexed == prefix # None /\ HasCut(prefix, "*")
        wide == Left(first, "/") \in Addr6 /\ (~cidr \/ block.size < 64)
    IN  IF block = None THEN None
        ELSE IF indexed /\ wide THEN None
        ELSE [domain |-> domain, block |-> block, indexed |-> indexed,
              prefix |-> IF indexed THEN Left(prefix, "*") ELSE prefix]
parse_synth_domain(v) ==
    IF v[1] = "" \/ Len(v) = 1 THEN None
    ELSE SynthDomain(v[1], v[2], CondBlock(Tail(v)), IF HasCut(v[2], "/") THEN Part(v, 3, None) ELSE Part(v, 4, None))

=============================================================================
