------------------------------- MODULE Dhcp6 -------------------------------
(***************************************************************************)
(* The DHCPv6 server: the chain of address ranges built from the live      *)
(* interface addresses, address selection and allocation, one handler per  *)
(* message type, and the in-memory lease table behind them.                *)
(*                                                                         *)
(* A client identifier is a sequence of byte values.  The table is keyed   *)
(* by the first KeyLen bytes of the client identifier, not by the identity *)
(* association (IA) a lease belongs to.  An address is a number of Bits    *)
(* bits whose low Half bits are the host part.                             *)
(***************************************************************************)
EXTENDS Integers, Sequences, FiniteSets, SequencesExt

CONSTANTS Bits, Half,  \* width of an address and of its host part (128 and 64)
          Clids,       \* client identifiers
          Iaids,       \* identity associations a client may use
          Asked,       \* addresses a client may name
          Width,       \* width of a lifetime
          KeyLen,      \* bytes of a client identifier in a table key (16)
          MaxLeases,   \* LeaseDb::max_leases (1000)
          None

VARIABLES runtime,  \* the contexts, reservations and flags the loop was given
          leases,   \* the lease table: key -> lease
          reply     \* the reply about to be sent, None between datagrams

dhcp6Vars == <<runtime, leases, reply>>

Infinite == 2^Width - 1

----------------------------------------------------------------------------
(* Addresses and contexts.                                                 *)

addr6part(a) == a % 2^Half
addr6_with_host(base, host) == (base \div 2^Half) * 2^Half + host
is_same_net6(x, y, prefix) == x \div 2^(Bits - prefix) = y \div 2^(Bits - prefix)

Flagged(c, flags) == c.flags \intersect flags # {}

address6_available(contexts, a) ==
    \E c \in ToSet(contexts) :
        /\ ~Flagged(c, {"STATIC", "RA_STATELESS"})
        /\ is_same_net6(c.start6, a, c.prefix)
        /\ addr6part(c.start6) <= addr6part(a) /\ addr6part(a) <= addr6part(c.end6)

address6_valid(contexts, a) == \E c \in ToSet(contexts) : is_same_net6(c.start6, a, c.prefix)

\* A static host's addresses (CONFIG_ADDR6), compared in full.
config_find_by_address6(configs, a) == \E h \in configs : "ADDR6" \in h.flags /\ a \in h.addr6

\* The 64-bit SDBM hash of the client, seeded with the IAID.
sdbm_hash64(clid, iaid) ==
    FoldLeft(LAMBDA j, b : (b + j * 2^6 + j * 2^16 - j) % 2^Half, iaid % 2^Half, clid)

hash_to_addr6(hash, epoch, start, end) ==
    LET range == (end - start + 1) % 2^Half
    IN  IF range = 0 THEN (start + hash + epoch) % 2^Half
        ELSE (start + (((hash + epoch) % 2^Half) % range)) % 2^Half

\* The host parts of a range in the order they are tried: from the hashed
\* start, wrapping at the end, once round.
ScanOrder(first, start, end) ==
    [k \in 1 .. end - start + 1 |-> start + (((first - start) + k - 1) % (end - start + 1))]

\* Loopback, link-local and multicast addresses never match a context.
Usable(live) == live.class \in {"Global", "Ula"}

InContext(live, c) ==
    /\ live.prefix <= c.prefix
    /\ is_same_net6(live.addr, c.start6, c.prefix)
    /\ is_same_net6(live.addr, c.end6, c.prefix)

\* dhcp_construct_contexts: note the interface a plain range is on.
dhcp_construct_contexts(contexts, live) ==
    LET On(c) == SelectSeq(live, LAMBDA l : Usable(l) /\ InContext(l, c))
    IN  [k \in DOMAIN contexts |->
            LET c == contexts[k]
            IN  IF Flagged(c, {"TEMPLATE", "CONSTRUCTED"}) \/ On(c) = <<>> THEN c
                ELSE [c EXCEPT !.if_index = Last(On(c)).if_index, !.local6 = Last(On(c)).addr]]

\* complete_context6: the ranges one live address serves, the longest
\* preferred lifetime first; the kernel's lifetimes only count for ranges
\* constructed from an interface.
Matched(c, live) ==
    LET constructed == "CONSTRUCTED" \in c.flags
        preferred == IF "DEPRECATE" \in c.flags \/ (constructed /\ live.deprecated) THEN 0
                     ELSE IF constructed THEN live.preferred ELSE Infinite
    IN  [c EXCEPT !.local6 = live.addr, !.if_index = live.if_index, !.preferred = preferred,
                  !.valid = IF constructed THEN live.valid ELSE Infinite]

InsertByPreferred(chain, c) ==
    LET before == SelectSeq(chain, LAMBDA d : d.preferred > c.preferred)
        after  == SelectSeq(chain, LAMBDA d : d.preferred <= c.preferred)
    IN  before \o <<c>> \o after

complete_context6(live, contexts) ==
    IF ~Usable(live) THEN <<>>
    ELSE LET mine == SelectSeq(contexts, LAMBDA c : /\ "DHCP" \in c.flags
                                                     /\ ~Flagged(c, {"TEMPLATE", "OLD"})
                                                     /\ InContext(live, c))
         IN  FoldLeft(LAMBDA chain, c : InsertByPreferred(chain, Matched(c, live)), <<>>, mine)

\* The server's identity: configured, or made from the first usable MAC;
\* with the time when there is a lease file.
make_duid(daemon, mac, now) ==
    IF daemon.duid_config # None THEN [kind |-> "EN", id |-> daemon.duid_config]
    ELSE IF mac = None \/ mac.hw_type >= 256 THEN None
    ELSE IF daemon.lease_file THEN [kind |-> "LLT", id |-> mac, time |-> now]
    ELSE [kind |-> "LL", id |-> mac]

\* first_dhcp6_mac_source: the first interface by name with an Ethernet-like
\* type and a non-zero address; interfaces come sorted.
first_dhcp6_mac_source(ifaces) ==
    LET good == SelectSeq(ifaces, LAMBDA i : i.name # "lo" /\ i.hw_type < 256 /\ i.mac # None)
    IN  IF good = <<>> THEN None ELSE [hw_type |-> good[1].hw_type, mac |-> good[1].mac]

\* daemon_dhcp6_runtime_with: None when there is nothing to serve or no DUID.
daemon_dhcp6_runtime_with(daemon, live, mac, now) ==
    LET duid == IF daemon.duid # None THEN daemon.duid ELSE make_duid(daemon, mac, now)
        contexts == dhcp_construct_contexts(daemon.dhcp6, live)
    IN  IF daemon.dhcp6 = <<>> \/ duid = None THEN None
        ELSE [duid |-> duid,
              contexts |-> FlattenSeq([k \in DOMAIN live |-> complete_context6(live[k], contexts)]),
              configs |-> daemon.dhcp_conf, authoritative |-> daemon.authoritative]

----------------------------------------------------------------------------
(* The lease table.                                                        *)

lease_key(clid) == IF Len(clid) > KeyLen THEN SubSeq(clid, 1, KeyLen) ELSE clid

Held == {leases[k] : k \in DOMAIN leases}
find_v6_by_addr(a) == {l \in Held : l.addr6 = a}
find_v6_by_client_iaid(clid, iaid) == {l \in Held : l.clid = clid /\ l.iaid = iaid}
find_v6_by_clid_iaid(clid, iaid, a) == {l \in find_v6_by_addr(a) : l.clid = clid /\ l.iaid = iaid}

\* bind_v6: the lease of the address, or a new one unless the table is full,
\* is stamped with the client and filed under the client's key, replacing
\* whatever was there.
bind_v6(table, a, clid, iaid, valid) ==
    LET old  == {k \in DOMAIN table : table[k].addr6 = a}
        kept == [k \in DOMAIN table \ old |-> table[k]]
        key  == lease_key(clid)
    IN  IF old = {} /\ Cardinality(DOMAIN table) >= MaxLeases THEN table
        ELSE [k \in DOMAIN kept \union {key} |->
                 IF k = key THEN [addr6 |-> a, clid |-> clid, iaid |-> iaid, valid |-> valid] ELSE kept[k]]

remove_v6_by_clid_iaid_addr(table, clid, iaid, a) ==
    LET gone == {k \in DOMAIN table : table[k].addr6 = a /\ table[k].clid = clid /\ table[k].iaid = iaid}
    IN  [k \in DOMAIN table \ gone |-> table[k]]

addr_in_use(a) == find_v6_by_addr(a) # {} \/ config_find_by_address6(runtime.configs, a)

Candidates(c, contexts, first) ==
    LET hosts == ScanOrder(first, addr6part(c.start6), addr6part(c.end6))
    IN  SelectSeq([k \in DOMAIN hosts |-> addr6_with_host(c.start6, hosts[k])],
                  LAMBDA a : /\ \A d \in ToSet(contexts) : addr6part(d.local6) # addr6part(a)
                             /\ ~addr_in_use(a))

\* The first free address of the first context that has one.  The loop
\* passes no tags, so a context with a tag filter never matches.
address6_allocate(contexts, clid, iaid) ==
    LET open == SelectSeq(contexts, LAMBDA c : ~Flagged(c, {"DEPRECATE", "STATIC", "RA_STATELESS", "USED"})
                                                /\ ~c.filtered)
        free == [k \in DOMAIN open |->
                    Candidates(open[k], contexts,
                               hash_to_addr6(sdbm_hash64(clid, iaid), open[k].addr_epoch,
                                             addr6part(open[k].start6), addr6part(open[k].end6)))]
        good == {k \in DOMAIN free : free[k] # <<>>}
    IN  IF good = {} THEN None ELSE Head(free[CHOOSE k \in good : \A j \in good : k <= j])

\* Fault: anybody's address will do.
AnyAddress(clid, iaid, a) == TRUE

\* Not leased to a different client or IA.
check_address(clid, iaid, a) == \A l \in find_v6_by_addr(a) : l.clid = clid /\ l.iaid = iaid

context_for_addr(contexts, a) == SelectSeq(contexts, LAMBDA c : is_same_net6(c.start6, a, c.prefix))

calculate_times(lease_time) ==
    IF lease_time = Infinite
    THEN [preferred |-> Infinite, valid |-> Infinite, t1 |-> Infinite, t2 |-> Infinite]
    ELSE [preferred |-> lease_time, valid |-> lease_time, t1 |-> lease_time \div 2,
          t2 |-> ((lease_time * 4) % 2^Width) \div 5]

compute_times_for_addr(contexts, a) ==
    LET mine == context_for_addr(contexts, a)
    IN  calculate_times(IF mine = <<>> THEN 3600 % 2^Width ELSE mine[1].lease_time)

\* Requested, if it is on a dynamic range and nobody else's; else the
\* address this IA already has; else a fresh one.
select_address_for_ia(clid, iaid, requested) ==
    LET contexts == runtime.contexts
        existing == {l \in find_v6_by_client_iaid(clid, iaid) : address6_available(contexts, l.addr6)}
    IN  IF /\ requested # None
           /\ address6_valid(contexts, requested) /\ address6_available(contexts, requested)
           /\ check_address(clid, iaid, requested)
        THEN requested
        ELSE IF existing # {} THEN (CHOOSE l \in existing : TRUE).addr6
        ELSE address6_allocate(contexts, clid, iaid)

----------------------------------------------------------------------------
(* Message handlers.  A datagram is [type, clid, rapid, ia, ta] with ia    *)
(* None or [iaid, addr]; a reply carries the IA's address and lifetimes or *)
(* its status, and the status of the whole message.                        *)

HasAddr(p) == p.ia # None /\ p.ia.addr # None

NoIa == [iaid |-> None, addr |-> None, times |-> None, status |-> "None"]
IaAddr(iaid, a, times) == [iaid |-> iaid, addr |-> a, times |-> times, status |-> "None"]
IaStatus(iaid, status) == [iaid |-> iaid, addr |-> None, times |-> None, status |-> status]

Reply(type, clid, rapid, ia, status) ==
    [type |-> type, clid |-> clid, rapid |-> rapid, ia |-> ia, status |-> status]

\* persist_lease: a lease for the address, and the lifetimes for the reply;
\* whether the table took the lease is not looked at.
persist_lease(clid, iaid, a) ==
    leases' = bind_v6(leases, a, clid, iaid, compute_times_for_addr(runtime.contexts, a).valid)

Times(a) == compute_times_for_addr(runtime.contexts, a)
Zero == [preferred |-> 0, valid |-> 0, t1 |-> 0, t2 |-> 0]

no_ia_reply(type, clid) == Reply(type, clid, FALSE, NoIa, "NoAddrsAvail")

\* The answer to a Solicit, and to a Request that names no address.
build_solicit_style_reply(clid, iaid, a, persist, type, rapid) ==
    IF a = None
    THEN /\ reply' = Reply(type, clid, rapid, IaStatus(iaid, "NoAddrsAvail"), "NoAddrsAvail")
         /\ UNCHANGED leases
    ELSE /\ reply' = Reply(type, clid, rapid, IaAddr(iaid, a, Times(a)), "Success")
         /\ IF persist THEN persist_lease(clid, iaid, a) ELSE UNCHANGED leases

dispatch_solicit(p) ==
    LET type == IF p.rapid THEN "Reply" ELSE "Advertise"
    IN  /\ p.type = "Solicit"
        /\ \/ p.ia = None /\ reply' = no_ia_reply(type, p.clid) /\ UNCHANGED leases
           \/ /\ p.ia # None
              /\ build_solicit_style_reply(p.clid, p.ia.iaid,
                     select_address_for_ia(p.clid, p.ia.iaid, p.ia.addr), p.rapid, type, p.rapid)

RequestStatus(p) ==
    LET dynamic == address6_available(runtime.contexts, p.ia.addr)
    IN  CASE ~dynamic /\ ~address6_valid(runtime.contexts, p.ia.addr) -> "NotOnLink"
          [] ~dynamic /\ ~config_find_by_address6(runtime.configs, p.ia.addr) -> "NoAddrsAvail"
          [] ~check_address(p.clid, p.ia.iaid, p.ia.addr) -> "UnspecFail"
          [] OTHER -> "Success"

RequestGranted(p) ==
    /\ p.type = "Request" /\ HasAddr(p)
    /\ RequestStatus(p) = "Success"
    /\ reply' = Reply("Reply", p.clid, FALSE, IaAddr(p.ia.iaid, p.ia.addr, Times(p.ia.addr)), "Success")
    /\ persist_lease(p.clid, p.ia.iaid, p.ia.addr)

dispatch_request(p) ==
    \/ /\ p.type = "Request" /\ p.ia = None
       /\ reply' = no_ia_reply("Reply", p.clid)
       /\ UNCHANGED leases
    \/ /\ p.type = "Request" /\ p.ia # None /\ p.ia.addr = None
       /\ build_solicit_style_reply(p.clid, p.ia.iaid, select_address_for_ia(p.clid, p.ia.iaid, None),
                                    TRUE, "Reply", FALSE)
    \/ RequestGranted(p)
    \/ /\ p.type = "Request" /\ HasAddr(p)
       /\ RequestStatus(p) # "Success"
       /\ reply' = Reply("Reply", p.clid, FALSE, IaStatus(p.ia.iaid, RequestStatus(p)), "NoAddrsAvail")
       /\ UNCHANGED leases

OnSomeLink(a) == address6_available(runtime.contexts, a) \/ address6_valid(runtime.contexts, a)

\* Renew extends a lease of this IA; an authoritative Rebind also creates
\* one the server does not remember.
dispatch_renew_rebind(p) ==
    /\ p.type \in {"Renew", "Rebind"}
    /\ HasAddr(p)
    /\ LET known  == find_v6_by_clid_iaid(p.clid, p.ia.iaid, p.ia.addr) # {}
           create == p.type = "Rebind" /\ runtime.authoritative /\ OnSomeLink(p.ia.addr)
       IN  \/ /\ IF known THEN OnSomeLink(p.ia.addr) ELSE create
              /\ reply' = Reply("Reply", p.clid, FALSE, IaAddr(p.ia.iaid, p.ia.addr, Times(p.ia.addr)), "Success")
              /\ persist_lease(p.clid, p.ia.iaid, p.ia.addr)
           \/ /\ known /\ ~OnSomeLink(p.ia.addr)
              /\ reply' = Reply("Reply", p.clid, FALSE, IaAddr(p.ia.iaid, p.ia.addr, Zero), "Success")
              /\ UNCHANGED leases
           \/ /\ ~known /\ ~create
              /\ reply' = Reply("Reply", p.clid, FALSE, IaStatus(p.ia.iaid, "NoBinding"),
                                IF p.type = "Rebind" THEN "NoAddrsAvail" ELSE "None")
              /\ UNCHANGED leases

dispatch_confirm(p) ==
    /\ p.type = "Confirm"
    /\ HasAddr(p)
    /\ reply' = Reply("Reply", p.clid, FALSE, NoIa,
                      IF address6_valid(runtime.contexts, p.ia.addr) THEN "Success" ELSE "NotOnLink")
    /\ UNCHANGED leases

dispatch_release_or_decline(p) ==
    /\ p.type \in {"Release", "Decline"}
    /\ leases' = IF p.ia = None THEN leases
                 ELSE remove_v6_by_clid_iaid_addr(leases, p.clid, p.ia.iaid, p.ia.addr)
    /\ reply' = Reply("Reply", p.clid, FALSE,
                      IF HasAddr(p) /\ leases' = leases
                      THEN IaStatus(p.ia.iaid, "NoBinding") ELSE NoIa, "Success")

dispatch_inforeq(p) ==
    /\ p.type = "InfoReq"
    /\ p.ia = None /\ ~p.ta
    /\ reply' = Reply("Reply", p.clid, FALSE, NoIa, "None")
    /\ UNCHANGED leases

\* Handlers that return without a reply, and messages that are not for a
\* server; relay messages are not unwrapped by the loop.
Ignored(p) ==
    \/ p.type \in {"RelayForw", "RelayRepl", "Advertise", "Reply", "Reconfigure", "Malformed"}
    \/ p.type \in {"Renew", "Rebind", "Confirm"} /\ ~HasAddr(p)
    \/ p.type = "InfoReq" /\ (p.ia # None \/ p.ta)

dispatch_dhcp6(p) ==
    /\ reply = None
    /\ \/ dispatch_solicit(p)
       \/ dispatch_request(p)
       \/ dispatch_renew_rebind(p)
       \/ dispatch_confirm(p)
       \/ dispatch_release_or_decline(p)
       \/ dispatch_inforeq(p)
       \/ Ignored(p) /\ reply' = None /\ UNCHANGED leases
    /\ UNCHANGED runtime

\* run_dhcp6_loop: one datagram at a time, the reply sent before the next.
SendReply == reply # None /\ reply' = None /\ UNCHANGED <<runtime, leases>>

IaTypes == {"Solicit", "Request", "Renew", "Rebind", "Confirm", "Release", "Decline", "InfoReq"}
Ias == {None} \union [iaid : Iaids, addr : {None} \union Asked]
Datagrams ==
    [type : IaTypes \union {"RelayForw"}, clid : Clids, rapid : {FALSE}, ta : {FALSE}, ia : Ias] \union
    [type : {"Solicit"}, clid : Clids, rapid : {TRUE}, ta : {FALSE}, ia : Ias] \union
    [type : {"InfoReq"}, clid : Clids, rapid : {FALSE}, ta : {TRUE}, ia : {None}]

\* The server is told nothing of who sent a datagram or how often: any
\* client may send any message at any time, again and late.
Dhcp6Next == SendReply \/ \E p \in Datagrams : dispatch_dhcp6(p)

----------------------------------------------------------------------------

\* The binding of an IA is lost only by a message of its own client, by an
\* authoritative Rebind of somebody else, or to a client whose identifier
\* has the same first KeyLen bytes: no Solicit, Request or Renew of another
\* client can take an address away (check_address, bind_v6).
LostByOwner ==
    [][reply' # None => \A l \in Held :
          \/ \E m \in {leases'[k] : k \in DOMAIN leases'} :
                m.addr6 = l.addr6 /\ m.clid = l.clid /\ m.iaid = l.iaid
          \/ lease_key(reply'.clid) = lease_key(l.clid)
          \/ runtime.authoritative /\ reply'.ia.addr = l.addr6]_dhcp6Vars

\* An address handed out in a Reply with a lifetime is recorded as this
\* IA's, so nobody else is offered it, unless the table is full and the
\* lease was dropped (persist_lease ignores what bind_v6 returns).
GrantBacked ==
    (reply # None /\ reply.type = "Reply" /\ reply.ia.addr # None /\ reply.ia.times # Zero) =>
        \/ find_v6_by_clid_iaid(reply.clid, reply.ia.iaid, reply.ia.addr) # {}
        \/ Cardinality(DOMAIN leases) >= MaxLeases

\* Both: what a client was told it has is recorded as its own, and stays so
\* until its client, an authoritative Rebind or a namesake takes it
\* (persist_lease, bind_v6, check_address).
BindingsKept == []GrantBacked /\ LostByOwner

=============================================================================
