------------------------------ MODULE MCNames ------------------------------
(***************************************************************************)
(* Names, name patterns, synthetic names, the server array and the choice  *)
(* of listening sockets, checked against reference definitions over every  *)
(* small input.  A behaviour picks one input and computes the answer of    *)
(* the code for it.                                                        *)
(***************************************************************************)
EXTENDS DomainMatch, Listen, TLC

VARIABLES job, answer, done
vars == <<job, answer, done>>

a == 97
b == 98
Upper == 65

Words(S, n) == UNION {[1 .. k -> S] : k \in 0 .. n}

(* --- globs *)
GlobJobs == [op : {"glob"}, value : Words({a, b}, 4), pattern : Words({a, Upper, Star}, 4)]

(* --- subdomains *)
SubJobs == [op : {"sub"}, upper : Words({a, Upper, Dot}, 3) \ {<<>>}, name : Words({a, b, Dot}, 4)]

(* --- synthetic names: one domain, and two domains of different names *)
Ranges4 == {[start |-> x, end |-> y] : x \in {0, 3, 5}, y \in {5, 7, 8}}
PrefixStrings == {<<>>, <<b>>, <<Star>>, <<b, Star>>, <<49, Star>>}
Domains4(d) == {parse_synth_domain(CondDomain(d, FALSE, r, 0), p) :
                   r \in Ranges4 \cup {V4Subnet(4, 1)}, p \in PrefixStrings}
Domains6(d) == {parse_synth_domain(CondDomain(d, TRUE, V6Subnet(x, n), n), p) :
                   x \in {[hi |-> 1, lo |-> 2]}, n \in {1, 2, 3, 4}, p \in PrefixStrings} \ {None}
Sources(S(_)) == {<<c>> : c \in S(<<a>>)} \cup {<<c, d>> : c \in S(<<a>>), d \in S(<<b>>)}
SynthJobs == [op : {"synth4"}, addr : V4, domains : Sources(Domains4)]
Synth6Jobs == [op : {"synth6"}, addr : V6, domains : Sources(Domains6)]

(* --- the server array: literal answers, and servers with every flag *)
Server(d, f, k) == [domain |-> d, flags |-> f, family |-> IF "ADDR6" \in f THEN "IPV6" ELSE "IPV4",
                    addr |-> k]
Zones == {<<>>, <<a>>, <<b>>, <<a, a>>, <<b, Dot, a>>, <<a, Dot, b>>, <<a, b, Dot, a>>}
LiteralFlags == {{"LITERAL"}, {"LITERAL", "ADDR4"}, {"LITERAL", "ADDR6"}, {"LITERAL", "ALL_ZEROS"}}
Literals == {Server(d, f, "x") : d \in Zones, f \in LiteralFlags}
Queries == {<<a>>, <<b>>, <<a, a>>, <<b, Dot, a>>, <<a, b, Dot, a>>, <<a, Dot, b, Dot, a>>,
            <<b, a>>, <<b, b, Dot, a>>, <<a, Dot, a, b, Dot, a>>, <<Upper, Dot, b>>}
LiteralJobs ==
    {[op |-> "lookup", servers |-> <<>>, locals |-> l, name |-> q, want |-> w] :
        l \in {<<x>> : x \in Literals} \cup {<<x, y>> : x \in Literals, y \in Literals},
        q \in Queries, w \in {{"IPV4"}, {"IPV6"}, {}}}
ServerFlags == {{}, {"WILDCARD"}, {"USE_RESOLV"}}
Upstreams == {Server(d, f, "x") : d \in Zones, f \in ServerFlags} \cup {Server(<<>>, {"NODOTS"}, "x")}
Mixed(l) == \E i, k \in DOMAIN l : l[i].domain = l[k].domain /\ l[i].flags # l[k].flags
ServerJobs ==
    {[op |-> "lookup", servers |-> l, locals |-> <<>>, name |-> q, want |-> w] :
        l \in {s \in {<<x, y>> : x \in Upstreams, y \in Upstreams} : ~Mixed(s)},
        q \in Queries, w \in {{"SERVER"}, {"DS", "DOMAINSRV"}}}

(* --- where the daemon listens: two interfaces, an alias and loopback *)
Kernel(dev, label, index, addr, lo, ll, dad) ==
    [dev |-> dev, label |-> label, index |-> index, addr |-> addr,
     loopback |-> lo, link_local |-> ll, tentative |-> dad]
Eth0 == <<"eth", "0">>
Eth1 == <<"eth", "1">>
Lo == <<"lo">>
Pool == {Kernel(Eth0, Eth0, 2, <<4, "a">>, FALSE, FALSE, FALSE),
         Kernel(Eth0, <<"eth", "0", ":1">>, 2, <<4, "b">>, FALSE, FALSE, FALSE),
         Kernel(Eth0, <<>>, 2, <<6, "l">>, FALSE, TRUE, FALSE),
         Kernel(Eth1, <<>>, 3, <<4, "a">>, FALSE, FALSE, FALSE),
         Kernel(Eth1, <<>>, 3, <<6, "l">>, FALSE, TRUE, TRUE),
         Kernel(Lo, Lo, 1, <<4, "o">>, TRUE, FALSE, FALSE)}
AuthEntry(name, v4, v6, addr) == [name |-> name, v4 |-> v4, v6 |-> v6, addr |-> addr]
Daemons ==
    [if_names : {{}, {<<>>}, {Eth0}, {<<"eth", "*">>}, {<<>>, Eth1}}, if_except : {{}, {Eth1}, {<<"*">>}},
     if_addrs : {{}, {<<4, "a">>}, {<<4, "x">>}},
     auth_interfaces : {{}, {AuthEntry(Eth1, TRUE, FALSE, None)}, {AuthEntry(<<>>, FALSE, FALSE, <<4, "b">>)}},
     dhcp_except : {{}, {[pattern |-> Eth0, v4 |-> TRUE, v6 |-> FALSE]}}, tftp_interfaces : {{Lo}}]
Modes == {[nowild |-> FALSE, clever |-> FALSE], [nowild |-> TRUE, clever |-> FALSE],
          [nowild |-> FALSE, clever |-> TRUE], [nowild |-> TRUE, clever |-> TRUE]}
ListenJobs == [op : {"listen"}, kernel : {<<x, y>> : x \in Pool, y \in Pool}, netlink : BOOLEAN,
               daemon : Daemons, mode : Modes]
\* <<4, "x">> is carried by no interface.
Fails == [x \in {<<4, "a">>, <<4, "b">>, <<4, "o">>, <<4, "any">>, <<6, "l">>, <<6, "any">>} |-> "none"] @@
         [x \in {<<4, "x">>} |-> "bind_absent"]
Bind(m) == bind_dns_listeners(job.kernel, job.netlink, job.daemon, m.nowild, m.clever, Fails)

Init == /\ job \in GlobJobs \cup SubJobs \cup SynthJobs \cup Synth6Jobs
                   \cup LiteralJobs \cup ServerJobs \cup ListenJobs
        /\ answer = None
        /\ done = FALSE

Match == /\ job.op = "glob"
         /\ answer' = glob_match(job.value, job.pattern)
Relate == /\ job.op = "sub"
          /\ answer' = hostname_issubdomain(job.upper, job.name)
Name4 == /\ job.op = "synth4"
         /\ answer' = rev_synth_ipv4(job.addr, job.domains)
Name6 == /\ job.op = "synth6"
         /\ answer' = rev_synth_ipv6(job.addr, job.domains)
Search == /\ job.op = "lookup"
          /\ answer' = lookup(build(job.servers, job.locals), job.name, job.want)
BindAll == /\ job.op = "listen"
           /\ answer' = [dns  |-> Bind(job.mode),
                         tftp |-> bind_tftp_listeners(job.kernel, job.netlink, job.daemon, job.mode.nowild,
                                                      job.mode.clever, Fails)]

Next == /\ ~done
        /\ done' = TRUE
        /\ Match \/ Relate \/ Name4 \/ Name6 \/ Search \/ BindAll
        /\ UNCHANGED job
Spec == Init /\ [][Next]_vars

----------------------------------------------------------------------------
(* Reference definitions *)

RECURSIVE Globs(_, _)
Globs(v, p) ==
    CASE p = <<>> -> v = <<>>
      [] p # <<>> /\ Head(p) = Star ->
            \E k \in 0 .. Len(v) : Globs(SubSeq(v, k + 1, Len(v)), Tail(p))
      [] OTHER -> v # <<>> /\ Head(v) = Head(p) /\ Globs(Tail(v), Tail(p))

(* the entries that serve the suffix of the name after `start', and what the
   query gets from them *)
Serving(arr, name, start) ==
    {i \in DOMAIN arr.entries :
        "NODOTS" \notin arr.entries[i].flags
        /\ Fold(arr.entries[i].domain) = Fold(SubSeq(name, start + 1, Len(name)))}
OfferOf(arr, group, whole, want) ==
    IF group # {} /\ (whole \/ \E i \in group : "WILDCARD" \in arr.entries[i].flags)
    THEN filter_servers(arr, CHOOSE i \in group : TRUE, want)
    ELSE None
Offer(arr, name, start, want) ==
    OfferOf(arr, Serving(arr, name, start), start = 0 \/ start = Len(name) \/ name[start] = Dot, want)

UsesResolv(arr, range) == range # None /\ "USE_RESOLV" \in arr.entries[range[1]].flags
(* the first offer, and what the root has for a query the first one sends to
   the servers of resolv.conf *)
Direct(arr, first, root) ==
    IF ~UsesResolv(arr, first) THEN first ELSE IF UsesResolv(arr, root) THEN None ELSE root
OrDotless(direct, dotless) == IF dotless = None THEN direct ELSE dotless
WithDotless(arr, name, narrowed, direct, dotless) ==
    IF /\ dotless # {} /\ name # <<>> /\ Dot \notin Range(name)
       /\ direct = None \/ arr.entries[direct[1]].domain = <<>>
    THEN OrDotless(direct, filter_servers(arr, CHOOSE i \in dotless : TRUE, narrowed))
    ELSE direct
MatchNarrowed(arr, name, offered, best, narrowed) ==
    WithDotless(arr, name, narrowed,
                Direct(arr, IF best = None THEN None ELSE offered[best],
                       IF best = None \/ best = Len(name) THEN None ELSE Offer(arr, name, Len(name), narrowed)),
                {i \in DOMAIN arr.entries : "NODOTS" \in arr.entries[i].flags})
MatchBest(arr, name, want, offered, best) ==
    MatchNarrowed(arr, name, offered, best,
                  IF best # None /\ UsesResolv(arr, offered[best]) THEN want \cup {"SERVER"} ELSE want)
BestOf(offers) == IF offers = {} THEN None ELSE Min(offers)
MatchOffers(arr, name, want, offered) ==
    MatchBest(arr, name, want, offered, BestOf({s \in DOMAIN offered : offered[s] # None}))
MatchName(arr, name, want) ==
    MatchOffers(arr, name, want, [s \in 0 .. Len(name) |-> Offer(arr, name, s, want)])
LongestMatch(arr, asked, want) == MatchName(arr, IF "DS" \in want THEN ParentOf(asked) ELSE asked, want)

\* Whether a query for the address arriving on its own interface is served.
Serves(bound, nowild, k) ==
    \E s \in bound.socks :
        /\ s.addr \in {k.addr, <<IF IsV6(k.addr) THEN 6 ELSE 4, "any">>}
        /\ s.scope \in {0, k.index}
        /\ s \in bound.checked =>
              Pktinfo(s, nowild) /\ accepts(bound.filter, job.kernel, job.netlink, k.index, k.addr)

----------------------------------------------------------------------------
(* Properties *)

(* The matchers that are written for speed agree with the plain ones: the
   linear-time glob matcher, which keeps one restart point and uses 0 for
   "none", accepts exactly the values the pattern describes (pattern.rs,
   glob_match), and "is this name at or below that domain" is the same when
   it walks both names from the right (hostname_issubdomain) and when it
   slices (domain_matches). *)
MatchersAgree ==
    /\ (done /\ job.op = "glob") => (answer <=> Globs(Fold(job.value), Fold(job.pattern)))
    /\ (done /\ job.op = "sub") => (answer # None <=> domain_matches(job.name, job.upper))

(* A PTR answer made up for an address of a synthetic domain is a name whose
   own A or AAAA answer is that address (rev_synth_ipv4/6, synthesize_ipv4/6),
   whatever other domain is configured; for IPv6 when the address has the
   upper half of the configured domains, which the code does not test. *)
SynthInverse ==
    /\ (done /\ job.op = "synth4" /\ answer # None) =>
           synthesize_ipv4(answer, job.domains) = job.addr
    /\ (done /\ job.op = "synth6" /\ answer # None
           /\ \A i \in DOMAIN job.domains : SameNet6(job.addr, job.domains[i].start, Bits)) =>
           synthesize_ipv6(answer, job.domains) = job.addr

(* The binary search, which keeps its lower bound from one suffix to the next
   and jumps over suffixes no entry can have, finds what trying every suffix
   from the longest on would find (ServerArray::lookup). *)
LookupIsLongest ==
    (done /\ job.op = "lookup") =>
        answer = LongestMatch(build(job.servers, job.locals), job.name, job.want)

\* The binding modes are three ways to serve the same queries: a query to an
\* address that is not an alias and is past duplicate address detection,
\* arriving on the interface that carries it, is answered under
\* --bind-interfaces or --bind-dynamic exactly when the wildcard sockets
\* with their arrival filter would answer it (bind_dns_listeners).  The IPv4
\* sockets of --bind-interfaces are not filtered, so there the address must
\* be on one interface only.
ModesAgree ==
    (done /\ job.op = "listen" /\ ~answer.dns.failed) =>
        LET wild == Bind([nowild |-> FALSE, clever |-> FALSE])
        IN  \A k \in ToSet(job.kernel) :
               (/\ k.label \in {<<>>, k.dev} /\ ~k.tentative
                /\ job.mode.nowild => \A x \in ToSet(job.kernel) : x.addr = k.addr => x = k) =>
                   (Serves(answer.dns, job.mode.nowild, k) <=> Serves(wild, FALSE, k))

=============================================================================
