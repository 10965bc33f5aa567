------------------------------ MODULE AuthZone ------------------------------
(***************************************************************************)
(* The authoritative zones of auth.rs: which zone a name or an address     *)
(* belongs to, what one question is answered, and what a zone transfer     *)
(* lists.  A name is the sequence of its labels, the host's first; a label *)
(* is a number (an octet or nibble label is its value, the others are      *)
(* above 255).  An address is its sequence of octets, four or sixteen.     *)
(*                                                                         *)
(* A configuration zc is a record: zones (a sequence of [domain, subnet,   *)
(* exclude]), the record lists mx, rr, txt, naptr, int_names and cnames,   *)
(* cache (the hosts-file and DHCP entries [name, src, addr]), dhcp_fqdn,   *)
(* peers, secondaries and auth_interface.  A record of an answer is        *)
(* [owner, type, data]; time to live and wire form are left out.           *)
(***************************************************************************)
EXTENDS Integers, Sequences, FiniteSets, SequencesExt

CONSTANTS None,
          MaxAlias  \* how many aliases a walk follows before it counts as endless

ARPA == 901
IN_ADDR == <<902, ARPA>>
IP6 == <<903, ARPA>>

Rec(owner, type, data) == [owner |-> owner, type |-> type, data |-> data]

IsV6(addr) == Len(addr) = 16

AddrType(addr) == IF IsV6(addr) THEN "AAAA" ELSE "A"

(***************************************************************************)
(* Names and zones                                                         *)
(***************************************************************************)
\* The number of labels left of the zone's name: 0 at the apex.
in_zone(name, domain) ==
    IF IsSuffix(domain, name) THEN Len(name) - Len(domain) ELSE None

issubdomain_rc(name, domain) ==
    IF name = domain THEN 2 ELSE IF IsSuffix(domain, name) THEN 1 ELSE 0

append_domain_if_bare(name, domain) == IF Len(name) = 1 THEN name \o domain ELSE name

SamePrefix(a, b, prefix) ==
    \A i \in 1..Len(a) :
        LET left == prefix - 8 * (i - 1)
            unit == IF left >= 8 THEN 1 ELSE 2^(8 - left)
        IN  left <= 0 \/ a[i] \div unit = b[i] \div unit

\* Position of the first entry of list that holds addr, or None.
find_addrlist(list, addr) ==
    LET hits == {i \in 1..Len(list) : /\ Len(list[i].net) = Len(addr)
                                      /\ SamePrefix(addr, list[i].net, list[i].prefix)}
    IN  IF hits = {} THEN None ELSE CHOOSE i \in hits : \A j \in hits : i <= j

find_subnet(zone, addr) == find_addrlist(zone.subnet, addr) # None

find_exclude(zone, addr) == find_addrlist(zone.exclude, addr) # None

filter_zone(zone, addr) ==
    /\ ~find_exclude(zone, addr)
    /\ zone.subnet = <<>> \/ find_subnet(zone, addr)

Nibble(addr, k) == IF k % 2 = 0 THEN addr[(k \div 2) + 1] \div 16 ELSE addr[(k \div 2) + 1] % 16

\* The apex of the reverse zone that a subnet entry stands for.
reverse_zone_name(entry) ==
    IF IsV6(entry.net)
    THEN LET n == (entry.prefix + 3) \div 4
         IN  [k \in 1..n |-> Nibble(entry.net, n - k)] \o IP6
    ELSE LET n == IF entry.prefix >= 24 THEN 3 ELSE IF entry.prefix >= 16 THEN 2 ELSE 1
         IN  [k \in 1..n |-> entry.net[n - k + 1]] \o IN_ADDR

\* rfc1035.rs: the address a reverse name stands for.
in_arpa_name_2_addr(name) ==
    LET rest == SubSeq(name, 1, Len(name) - 2)
        fit(n, top) == Len(rest) = n /\ \A i \in 1..n : rest[i] <= top
    IN  CASE IsSuffix(IN_ADDR, name) /\ fit(4, 255) -> Reverse(rest)
          [] IsSuffix(IP6, name) /\ fit(32, 15) ->
                 [i \in 1..16 |-> 16 * rest[34 - 2 * i] + rest[33 - 2 * i]]
          [] OTHER -> None

(***************************************************************************)
(* One question                                                            *)
(*                                                                         *)
(* A question is [op, class, name, type, local, peer, limit]: limit is the *)
(* number of records that fit the reply.  The walk below carries the       *)
(* handler's local variables in a record; "again" asks for another round   *)
(* with the name an alias led to.                                          *)
(***************************************************************************)
Start(q, zc) ==
    [name |-> q.name, found |-> FALSE, nxdomain |-> TRUE, auth |-> ~q.local,
     soa |-> FALSE, ns |-> FALSE, axfr |-> FALSE, out |-> FALSE, zone |-> None,
     subnet |-> None, ans |-> <<>>, mx |-> zc.mx, again |-> FALSE, stop |-> FALSE,
     dropped |-> FALSE]

FirstZone(zc, Holds(_)) ==
    LET hits == {i \in 1..Len(zc.zones) : Holds(zc.zones[i])}
    IN  IF hits = {} THEN None ELSE zc.zones[CHOOSE i \in hits : \A j \in hits : i <= j]

\* The names an address has: of the interface that carries it, then of the
\* hosts-file and DHCP entries.  zone is None for a local question.
PtrNames(q, zc, addr, zone) ==
    LET inside(name) == q.local \/ in_zone(name, zone.domain) # None
        carries(n) == \E i \in 1..Len(n.addrs) : n.addrs[i].addr = addr
        intr == {i \in 1..Len(zc.int_names) : carries(zc.int_names[i])}
        first == zc.int_names[CHOOSE i \in intr : \A j \in intr : i <= j].name
        bare(e) == IF zone = None THEN <<e.name[1]>> ELSE append_domain_if_bare(<<e.name[1]>>, zone.domain)
        short(e) == e.src = "dhcp" /\ ~zc.dhcp_fqdn
        named == SelectSeq(zc.cache, LAMBDA e : e.addr = addr /\ (short(e) \/ inside(e.name)))
    IN  (IF intr # {} /\ inside(first) THEN <<first>> ELSE <<>>)
            \o [i \in 1..Len(named) |-> IF short(named[i]) THEN bare(named[i]) ELSE named[i].name]

\* PTR, SOA and NS for a name that stands for an address.
ReverseBranch(q, zc, w, addr) ==
    LET zone == IF q.local THEN None ELSE FirstZone(zc, LAMBDA z : find_subnet(z, addr))
        sub == IF zone = None THEN None ELSE zone.subnet[find_addrlist(zone.subnet, addr)]
        names == PtrNames(q, zc, addr, zone)
    IN  CASE ~q.local /\ zone = None -> [w EXCEPT !.out = TRUE, !.auth = FALSE, !.stop = TRUE]
          [] q.type = "PTR" ->
                 [w EXCEPT !.zone = zone, !.subnet = sub, !.found = (names # <<>>), !.stop = TRUE,
                           !.nxdomain = (names = <<>>),
                           !.ans = [i \in 1..Len(names) |-> Rec(q.name, "PTR", names[i])]]
          [] OTHER ->
                 [w EXCEPT !.zone = zone, !.subnet = sub, !.found = ~q.local,
                           !.soa = (~q.local /\ q.type = "SOA"), !.ns = (~q.local /\ q.type = "NS")]

\* The configured records (MX and SRV, arbitrary types, TXT, NAPTR) at or
\* above the name; the first service record met goes to the end of its list.
Typed(mx, zc) == SelectSeq(mx, LAMBDA r : r.type = "MX") \o SelectSeq(mx, LAMBDA r : r.type = "SRV")
                     \o zc.rr \o SelectSeq(zc.txt, LAMBDA r : r.class = 1) \o zc.naptr

Rotated(mx, name) ==
    LET hits == {i \in 1..Len(mx) : mx[i].type = "SRV" /\ issubdomain_rc(name, mx[i].name) # 0}
        first == CHOOSE i \in hits : \A j \in hits : i <= j
    IN  IF hits = {} THEN mx ELSE Append(RemoveAt(mx, first), mx[first])

RecordRound(q, zc, w) ==
    LET all == Typed(w.mx, zc)
        own == SelectSeq(all, LAMBDA r : r.name = w.name /\ r.type = q.type)
    IN  [w EXCEPT !.mx = Rotated(w.mx, w.name),
                  !.nxdomain = @ /\ \A i \in 1..Len(all) : issubdomain_rc(w.name, all[i].name) = 0,
                  !.ans = @ \o [i \in 1..Len(own) |-> Rec(w.name, q.type, own[i].data)]]

Admitted(q, zone, addr) == q.local \/ filter_zone(zone, addr)

InterfaceRound(q, zc, w) ==
    LET at == SelectSeq(zc.int_names, LAMBDA n : n.name = w.name)
        addrs == FlattenSeq([i \in 1..Len(at) |-> at[i].addrs])
        told == SelectSeq(addrs, LAMBDA a : /\ AddrType(a.addr) = q.type
                                            /\ ~a.revonly
                                            /\ Admitted(q, w.zone, a.addr))
    IN  [w EXCEPT !.nxdomain = @ /\ \A i \in 1..Len(zc.int_names) :
                                        issubdomain_rc(w.name, zc.int_names[i].name) = 0,
                  !.ans = @ \o [i \in 1..Len(told) |-> Rec(w.name, q.type, told[i].addr)]]

\* Who may transfer the zone: the listed peers, or anyone when only
\* secondary servers are configured.
MayTransfer(q, zc) == IF zc.peers = {} THEN zc.secondaries # <<>> ELSE q.peer \in zc.peers

ApexRound(q, zc, w) ==
    CASE q.type = "SOA" -> [w EXCEPT !.nxdomain = FALSE, !.auth = TRUE, !.soa = TRUE]
      [] q.type = "NS" -> [w EXCEPT !.nxdomain = FALSE, !.auth = TRUE, !.ns = TRUE]
      [] q.type = "AXFR" /\ ~MayTransfer(q, zc) -> [w EXCEPT !.dropped = TRUE]
      [] q.type = "AXFR" /\ MayTransfer(q, zc) ->
             [w EXCEPT !.nxdomain = FALSE, !.auth = TRUE, !.soa = TRUE, !.ns = TRUE, !.axfr = TRUE]
      [] OTHER -> [w EXCEPT !.nxdomain = FALSE]

\* Addresses of cache entries: a DHCP host by its bare name (the owner of the
\* answer is then that bare name), hosts-file and qualified DHCP names whole.
CacheRound(q, zc, w, cut) ==
    LET bare == cut = 1 /\ ~zc.dhcp_fqdn
        short == SelectSeq(zc.cache, LAMBDA e : bare /\ e.src = "dhcp" /\ e.name = <<w.name[1]>>)
        full == SelectSeq(zc.cache, LAMBDA e : /\ e.name = w.name
                                               /\ e.src = "hosts" \/ (e.src = "dhcp" /\ zc.dhcp_fqdn))
        hits == short \o full
        told == SelectSeq(hits, LAMBDA e : AddrType(e.addr) = q.type /\ Admitted(q, w.zone, e.addr))
    IN  [w EXCEPT !.nxdomain = @ /\ hits = <<>>,
                  !.ans = @ \o [i \in 1..Len(told) |-> Rec(told[i].name, q.type, told[i].addr)]]

\* The alias a name is followed by when nothing else is known of it: the
\* alias of that very name, else the first wildcard above it.
AliasFor(zc, name) ==
    LET exact == {i \in 1..Len(zc.cnames) : ~zc.cnames[i].wild /\ zc.cnames[i].alias = name}
        wild == {i \in 1..Len(zc.cnames) :
                    zc.cnames[i].wild /\ issubdomain_rc(name, zc.cnames[i].alias) = 1}
        hits == IF exact # {} THEN exact ELSE wild
    IN  IF hits = {} THEN None ELSE zc.cnames[CHOOSE i \in hits : \A j \in hits : i <= j]

\* cache.rs: a live forward entry of any source carries the name.
cache_find_non_terminal(name, zc) == \E i \in 1..Len(zc.cache) : zc.cache[i].name = name

FollowAlias(w, target) ==
    [w EXCEPT !.found = TRUE, !.name = target, !.again = TRUE, !.ans = Append(@, Rec(w.name, "CNAME", target))]
AliasedBy(zc, w, alias) ==
    CASE ~w.nxdomain -> w
      [] w.nxdomain /\ alias # None -> FollowAlias(w, append_domain_if_bare(alias.target, w.zone.domain))
      [] OTHER -> [w EXCEPT !.nxdomain = ~cache_find_non_terminal(w.name, zc)]
AliasRound(zc, w) == AliasedBy(zc, w, AliasFor(zc, w.name))

\* One round of the handler's loop.
HostRound(q, zc, w, cut) == IF w.dropped THEN w ELSE AliasRound(zc, CacheRound(q, zc, w, cut))
ZoneRound(q, zc, w, cut) ==
    HostRound(q, zc, IF cut = 0 THEN ApexRound(q, zc, w) ELSE w, cut)
RoundIn(q, zc, w, zone, cut) ==
    ZoneRound(q, zc, InterfaceRound(q, zc, RecordRound(q, zc, [w EXCEPT !.zone = zone, !.again = FALSE])), cut)
RoundAt(q, zc, w, zone) ==
    IF zone = None THEN [w EXCEPT !.out = TRUE, !.auth = FALSE, !.again = FALSE]
    ELSE RoundIn(q, zc, w, zone, IF w.found THEN 0 ELSE in_zone(w.name, zone.domain))
Round(q, zc, w) ==
    RoundAt(q, zc, w, IF w.found THEN w.zone ELSE FirstZone(zc, LAMBDA z : in_zone(w.name, z.domain) # None))

\* A lease's bare name, and a name of the zone.
ShortName(zc, e) == e.src = "dhcp" /\ ~zc.dhcp_fqdn /\ Len(e.name) = 1
FullName(zc, zone, e) ==
    (e.src = "hosts" \/ (e.src = "dhcp" /\ zc.dhcp_fqdn)) /\ in_zone(e.name, zone.domain) # None

\* Fault: the transfer skips the zone's subnet filter for cached names.
TransferAnyHost(q, zc, zone) == SelectSeq(zc.cache, LAMBDA e : ShortName(zc, e) \/ FullName(zc, zone, e))

\* The cache entries a transfer lists.
TransferHosts(q, zc, zone) ==
    SelectSeq(zc.cache, LAMBDA e : (ShortName(zc, e) \/ FullName(zc, zone, e)) /\ Admitted(q, zone, e.addr))

\* What the zone transfer lists between its two SOA records.
Transfer(q, zc, mx, zone) ==
    LET inside(name) == in_zone(name, zone.domain) # None
        typed == SelectSeq(mx \o zc.rr \o SelectSeq(zc.txt, LAMBDA r : r.class = 1) \o zc.naptr,
                           LAMBDA r : inside(r.name))
        at == SelectSeq(zc.int_names, LAMBDA n : inside(n.name))
        family(n, v6) == SelectSeq(n.addrs, LAMBDA a : IsV6(a.addr) = v6 /\ Admitted(q, zone, a.addr))
        ofIntr(n) == LET addrs == family(n, FALSE) \o family(n, TRUE)
                     IN  [i \in 1..Len(addrs) |-> Rec(n.name, AddrType(addrs[i].addr), addrs[i].addr)]
        aliases == SelectSeq(zc.cnames, LAMBDA c : inside(c.alias))
        hosts == TransferHosts(q, zc, zone)
        owner(e) == IF ShortName(zc, e) THEN append_domain_if_bare(e.name, zone.domain) ELSE e.name
    IN  [i \in 1..Len(typed) |-> Rec(typed[i].name, typed[i].type, typed[i].data)]
            \o FlattenSeq([i \in 1..Len(at) |-> ofIntr(at[i])])
            \o [i \in 1..Len(aliases) |->
                    Rec(IF aliases[i].wild THEN <<0>> \o aliases[i].alias ELSE aliases[i].alias,
                        "CNAME", append_domain_if_bare(aliases[i].target, zone.domain))]
            \o [i \in 1..Len(hosts) |-> Rec(owner(hosts[i]), AddrType(hosts[i].addr), hosts[i].addr)]

\* The SOA and NS records that go with an answer, and the transfer itself.
NsRecords(zc, w, authname) ==
    (IF zc.auth_interface THEN <<Rec(authname, "NS", <<0>>)>> ELSE <<>>)
        \o IF w.subnet # None THEN <<>>
           ELSE [i \in 1..Len(zc.secondaries) |-> Rec(authname, "NS", zc.secondaries[i])]
AuthSection(q, zc, w, soa, servers, withSoa) ==
    LET withNs == IF w.ns THEN withSoa \o servers ELSE withSoa
    IN  [ans |-> IF w.axfr THEN withNs \o Transfer(q, zc, w.mx, w.zone) \o soa ELSE withNs,
         authority |-> (IF w.ans = <<>> /\ ~w.ns /\ ~w.soa THEN soa ELSE <<>>)
                           \o IF withSoa # <<>> /\ ~w.ns THEN servers ELSE <<>>]
AuthSectionAt(q, zc, w, authname) ==
    AuthSection(q, zc, w, <<Rec(authname, "SOA", None)>>, NsRecords(zc, w, authname),
                IF w.soa THEN w.ans \o <<Rec(authname, "SOA", None)>> ELSE w.ans)
build_auth_section(q, zc, w) ==
    AuthSectionAt(q, zc, w, IF w.subnet = None THEN w.zone.domain ELSE reverse_zone_name(w.subnet))

\* The reply, None when nothing is sent, and the record list left behind.
ReplyWith(q, w, notimp, both, cutOff) ==
    LET refused == ~q.local /\ w.out
        empty == cutOff \/ refused \/ notimp
    IN  [rcode |-> CASE refused -> 5
                     [] notimp /\ ~w.out -> 4
                     [] OTHER -> IF (w.auth \/ q.local) /\ w.nxdomain THEN 3 ELSE 0,
         aa |-> w.auth, tc |-> cutOff,
         ans |-> IF empty THEN <<>> ELSE both.ans,
         authority |-> IF empty THEN <<>> ELSE both.authority]
ReplyFrom(q, w, notimp, both) == ReplyWith(q, w, notimp, both, Len(both.ans) + Len(both.authority) > q.limit)
Finish(q, zc, w, notimp) ==
    ReplyFrom(q, w, notimp, IF w.auth /\ w.zone # None THEN build_auth_section(q, zc, w)
                            ELSE [ans |-> w.ans, authority |-> <<>>])

\* Rounds until no alias asks for another.
AliasWalk(q, zc, w) ==
    LET walk[k \in 0..MaxAlias] ==
            IF k = 0 THEN Round(q, zc, w)
            ELSE LET last == walk[k - 1] IN IF last.again THEN Round(q, zc, last) ELSE last
    IN  walk[MaxAlias]
WalkFrom(q, zc, w) == IF w.stop THEN w ELSE AliasWalk(q, zc, w)
Reversed(q, zc, addr) ==
    WalkFrom(q, zc, IF q.type \in {"PTR", "SOA", "NS"} /\ addr # None
                    THEN ReverseBranch(q, zc, Start(q, zc), addr) ELSE Start(q, zc))
EndOfWalk(q, zc) ==
    CASE q.op # "query" -> Start(q, zc)
      [] q.op = "query" /\ q.class # 1 -> [Start(q, zc) EXCEPT !.auth = FALSE, !.out = TRUE]
      [] q.op = "query" /\ q.class = 1 -> Reversed(q, zc, in_arpa_name_2_addr(q.name))
Answer(q, zc, end) ==
    [mx |-> end.mx, endless |-> end.again,
     reply |-> IF end.dropped THEN None ELSE Finish(q, zc, end, q.op # "query")]

\* answer_auth: the reply and the order of the service records afterwards.
answer_auth(q, zc) == Answer(q, zc, EndOfWalk(q, zc))

=============================================================================
