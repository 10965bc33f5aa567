-------------------------------- MODULE Radv --------------------------------
(***************************************************************************)
(* Router advertisement: the task that multicasts unsolicited              *)
(* advertisements (RAs) when a context's timer is due and answers router   *)
(* solicitations.  Building an RA is not free of effects: it marks and     *)
(* reschedules contexts and drops those that have aged out.                *)
(*                                                                         *)
(* The contexts come from the DHCPv6 ranges.                               *)
(*                                                                         *)
(* `ra` is what the task was given: [ra_interfaces, dhcp_except, allowed,  *)
(* bridges, opt_ra, is_dns_server]; `live` the kernel's addresses at the   *)
(* moment, [name, if_index, addr, class, prefix, valid, preferred,         *)
(* deprecated, tentative].                                                 *)
(***************************************************************************)
EXTENDS Dhcp6

CONSTANTS ShortPeriod, ShortDelays, \* 60 seconds, 5..19 seconds
          DefaultInterval,          \* 600 seconds
          StartDelays,              \* 0..5 seconds
          IdleDelay,                \* 600 seconds
          Forever,                  \* u32::MAX
          MaxNow, NoIface

VARIABLES ra, live, ctx, now, deadline, lastRa,
          gap   \* a due context found no interface, or the addresses changed
                \* after a context gave up its timer

radvVars == <<ra, live, ctx, now, deadline, lastRa, gap>>

Has(c, flag) == flag \in c.flags

\* zero_host_part: clear the bits below the prefix, in the host part only.
zero_host_part(a, prefix) ==
    LET size == IF prefix <= Half THEN 2^Half ELSE 2^(Bits - prefix)
    IN  (a \div size) * size

----------------------------------------------------------------------------
(* Per-interface parameters.                                               *)

find_iface_param(name) == SelectSeq(ra.ra_interfaces, LAMBDA p : name \in p.names)

Clamp(lo, hi, v) == IF v < lo THEN lo ELSE IF v > hi THEN hi ELSE v

calc_interval(name) ==
    LET mine == find_iface_param(name)
    IN  IF mine = <<>> \/ Head(mine).interval = 0 THEN DefaultInterval
        ELSE Clamp(4, 1800, Head(mine).interval)

calc_lifetime(name) ==
    LET mine == find_iface_param(name)
        interval == calc_interval(name)
    IN  IF mine = <<>> \/ Head(mine).lifetime = -1 THEN 3 * interval
        ELSE LET lifetime == Head(mine).lifetime
             IN  IF lifetime < interval /\ lifetime # 0 THEN interval
                 ELSE IF lifetime > 9000 THEN 9000 ELSE lifetime

calc_prio(name) == IF find_iface_param(name) = <<>> THEN 0 ELSE Head(find_iface_param(name)).prio

blocked_by_dhcp_except(name) == name \in ra.dhcp_except

MayAdvertise(name) == name \in ra.allowed /\ ~blocked_by_dhcp_except(name)

\* new_timeout: frequent at first, then between three quarters of the
\* interval and the whole of it; the set of delays it may draw.
new_timeout(elapsed, interval) ==
    IF elapsed < ShortPeriod THEN ShortDelays
    ELSE LET base == (interval * 3) \div 4
             range == interval \div 4
         IN  base .. base + (IF range > 0 THEN range - 1 ELSE 0)

NewTimes(c, name) ==
    {now + d : d \in new_timeout(IF now < c.short_start THEN 0 ELSE now - c.short_start, calc_interval(name))}

----------------------------------------------------------------------------
(* Building an RA.                                                         *)

OnNet(l, c) == /\ l.prefix <= c.prefix
               /\ is_same_net6(l.addr, c.start6, c.prefix)
               /\ is_same_net6(l.addr, c.end6, c.prefix)

RaParam(name) ==
    [managed |-> FALSE, other |-> FALSE, first |-> TRUE, adv_router |-> FALSE, found_context |-> FALSE,
     link_local |-> 0, glob_pref |-> 0, link_pref |-> 0, ula_pref |-> 0, adv_interval |-> calc_interval(name)]

\* What one context adds to one address's prefix option.
Option0 == [prefix_len |-> 0, slaac |-> FALSE, deprecate |-> FALSE, constructed |-> FALSE,
            router |-> FALSE, off_link |-> FALSE, time |-> Forever]

Advertises(c) == Has(c, "RA") \/ ra.opt_ra

\* Fault: every context of the interface gives up its timer.
ResetAll(c, p, valid) ==
    IF ~Advertises(c) THEN [c EXCEPT !.saved_valid = valid]
    ELSE [c EXCEPT !.saved_valid = valid, !.ra_time = 0, !.flags = @ \union {"RA_DONE"}]

\* A context met for the first time in this RA gives up its own timer unless
\* it is the first of the interface.
MarkContext(c, p, valid) ==
    IF ~Advertises(c) THEN [c EXCEPT !.saved_valid = valid]
    ELSE [c EXCEPT !.saved_valid = valid,
                   !.ra_time = IF ~Has(c, "RA_DONE") /\ ~p.first THEN 0 ELSE @,
                   !.flags = @ \union {"RA_DONE"}]

ParamWith(p, c) ==
    LET stateful == IF Has(c, "RA") THEN Has(c, "DHCP") /\ ~Has(c, "RA_STATELESS") ELSE TRUE
        config   == IF Has(c, "RA") THEN Has(c, "DHCP") ELSE TRUE
    IN  [p EXCEPT !.managed = @ \/ stateful, !.other = @ \/ config, !.adv_router = @ \/ Has(c, "RA_ROUTER"),
                  !.first = FALSE, !.found_context = TRUE]

OptionWith(o, c, p) ==
    LET fresh == ~Has(c, "RA_DONE")
        floor == 3 * p.adv_interval
    IN  [prefix_len  |-> IF fresh \/ Has(c, "RA_ROUTER") THEN c.prefix ELSE o.prefix_len,
         slaac       |-> o.slaac \/ Has(c, "RA"),
         deprecate   |-> o.deprecate \/ Has(c, "DEPRECATE"),
         constructed |-> o.constructed \/ Has(c, "CONSTRUCTED"),
         router      |-> o.router \/ Has(c, "RA_ROUTER"),
         off_link    |-> IF fresh THEN Has(c, "RA_OFF_LINK") ELSE o.off_link,
         time        |-> IF Has(c, "SETLEASE") /\ o.time > c.lease_time
                         THEN (IF c.lease_time < floor THEN floor ELSE c.lease_time) ELSE o.time]

Least(a, b) == IF a < b THEN a ELSE b

\* One more context against one address, on [p, o, cs].
WalkOne(w, c, l) ==
    LET on == ~Has(c, "TEMPLATE") /\ ~Has(c, "OLD") /\ OnNet(l, c)
    IN  [p  |-> IF on /\ Advertises(c) THEN ParamWith(w.p, c) ELSE w.p,
         o  |-> IF on /\ Advertises(c) THEN OptionWith(w.o, c, w.p) ELSE w.o,
         cs |-> Append(w.cs, IF on THEN MarkContext(c, w.p, l.valid) ELSE c)]

\* The contexts in list order against one address.
WalkContexts(cs, l, p) ==
    FoldLeft(LAMBDA w, c : WalkOne(w, c, l), [p |-> p, o |-> Option0, cs |-> <<>>], cs)

ValidTime(o, l) == IF ~o.constructed THEN o.time ELSE Least(l.valid, o.time)
PreferredTime(o, l) ==
    LET limit == IF o.deprecate THEN 0 ELSE o.time
    IN  IF ~o.constructed THEN limit ELSE Least(IF l.deprecated THEN 0 ELSE l.preferred, limit)

Preferring(p, l, pref) ==
    IF l.class = "ula" THEN [p EXCEPT !.ula_pref = IF pref > @ THEN pref ELSE @]
    ELSE [p EXCEPT !.glob_pref = IF pref > @ THEN pref ELSE @]

PrefixOption(o, l) ==
    [prefix |-> IF o.router THEN l.addr ELSE zero_host_part(l.addr, o.prefix_len),
     prefix_len |-> o.prefix_len, on_link |-> ~o.off_link, autonomous |-> o.slaac,
     router |-> o.router, valid_lt |-> ValidTime(o, l), preferred_lt |-> PreferredTime(o, l)]

WithPrefix(prefixes, l, w) ==
    [p |-> Preferring(w.p, l, PreferredTime(w.o, l)), cs |-> w.cs,
     prefixes |-> IF w.o.prefix_len = 0 THEN prefixes ELSE Append(prefixes, PrefixOption(w.o, l))]

\* add_prefix_for_addr on the accumulator [p, cs, prefixes].
add_prefix_for_addr(acc, l, if_index) ==
    IF l.if_index # if_index \/ l.class \in {"loopback", "multicast"} THEN acc
    ELSE IF l.class = "link_local"
    THEN IF l.preferred > acc.p.link_pref
         THEN [acc EXCEPT !.p.link_pref = l.preferred, !.p.link_local = l.addr] ELSE acc
    ELSE WithPrefix(acc.prefixes, l, WalkContexts(acc.cs, l, acc.p))

\* Contexts whose address has gone are advertised, deprecated, until what is
\* left of their valid lifetime has passed; then they are dropped.
Age(c) == IF now < c.lost THEN 0 ELSE now - c.lost
Draining(c, if_index) == c.if_index = if_index /\ Has(c, "OLD")
AgedOut(c, if_index) == Draining(c, if_index) /\ Age(c) > c.saved_valid

OldPrefix(c) ==
    [prefix |-> zero_host_part(c.start6, c.prefix), prefix_len |-> c.prefix,
     on_link |-> ~Has(c, "RA_OFF_LINK"), autonomous |-> Has(c, "RA"), router |-> FALSE,
     valid_lt |-> c.saved_valid - Age(c), preferred_lt |-> 0]

AsksOther(c) == IF Has(c, "RA") THEN Has(c, "DHCP") ELSE ra.opt_ra
Manages(c) == IF Has(c, "RA") THEN Has(c, "DHCP") /\ ~Has(c, "RA_STATELESS") ELSE ra.opt_ra

\* The RA for what the addresses gave, p and prefixes, and the draining
\* contexts, old.
RaPacket(name, p, prefixes, old) ==
    LET prefs == {p.glob_pref, p.ula_pref, p.link_pref} \ {0}
    IN  [managed |-> p.managed \/ \E c \in ToSet(old) : Manages(c),
         other |-> p.other \/ \E c \in ToSet(old) : AsksOther(c),
         prio |-> calc_prio(name),
         router_lt |-> IF p.found_context THEN calc_lifetime(name) ELSE 0,
         prefixes |-> prefixes \o [k \in DOMAIN old |-> OldPrefix(old[k])],
         adv_interval |-> IF p.adv_router THEN calc_interval(name) ELSE NoIface,
         dns |-> IF ra.is_dns_server THEN p.link_local ELSE NoIface,
         dns_lt |-> IF ra.is_dns_server THEN CHOOSE m \in prefs : \A n \in prefs : m <= n ELSE 0]

Finished(name, acc, kept, old) ==
    IF acc.p.link_pref = 0 THEN [packet |-> NoIface, cs |-> acc.cs]
    ELSE IF old = <<>> /\ ~acc.p.found_context THEN [packet |-> NoIface, cs |-> kept]
    ELSE [packet |-> RaPacket(name, acc.p, acc.prefixes, old), cs |-> kept]

Aged(name, if_index, acc, kept) ==
    Finished(name, acc, kept, SelectSeq(kept, LAMBDA c : Draining(c, if_index)))

Scanned(name, if_index, acc) ==
    Aged(name, if_index, acc, SelectSeq(acc.cs, LAMBDA c : ~AgedOut(c, if_index)))

\* build_ra_for_interface: the RA, or none, and the contexts it leaves.
build_ra_for_interface(cs0, name, if_index) ==
    LET cleared == [k \in DOMAIN cs0 |-> [cs0[k] EXCEPT !.flags = @ \ {"RA_DONE"}]]
    IN  Scanned(name, if_index,
                FoldLeft(LAMBDA acc, l : add_prefix_for_addr(acc, l, if_index),
                         [p |-> RaParam(name), cs |-> cleared, prefixes |-> <<>>], live))

----------------------------------------------------------------------------
(* The task.                                                               *)

nametoindex(name) ==
    LET mine == SelectSeq(live, LAMBDA l : l.name = name) IN IF mine = <<>> THEN 0 ELSE Head(mine).if_index
indextoname(i) ==
    LET mine == SelectSeq(live, LAMBDA l : l.if_index = i) IN IF mine = <<>> THEN NoIface ELSE Head(mine).name

\* bridge_alias_targets: the interfaces that share a bridge's RAs.
bridge_alias_targets(b) == SelectSeq(live, LAMBDA l : l.name \in b.aliases)

SentBy(sent, outs, t, b) ==
    [cs |-> b.cs,
     sent |-> IF b.packet = NoIface THEN sent
              ELSE sent \union {[on |-> o, to |-> NoIface, of |-> t.if_index, ra |-> b.packet] : o \in outs}]

\* send_ra_with_aliases on [cs, sent].  The RA is built afresh for every
\* alias, which at the same instant gives the same RA and leaves the contexts
\* as the first build left them.
send_ra_with_aliases(acc, t) ==
    LET mine == {b \in ToSet(ra.bridges) : nametoindex(b.iface) = t.if_index}
        outs == {t.if_index} \union UNION {{l.if_index : l \in ToSet(bridge_alias_targets(m))} : m \in mine}
    IN  SentBy(acc.sent, outs, t, build_ra_for_interface(acc.cs, t.name, t.if_index))

\* iface_search: the live addresses that may carry a context's RA.
Carriers(c) == SelectSeq(live, LAMBDA l : MayAdvertise(l.name) /\ OnNet(l, c))

Overdue(cs) == {k \in DOMAIN cs : cs[k].ra_time # 0 /\ cs[k].ra_time <= now}
FirstOverdue(cs) == CHOOSE k \in Overdue(cs) : \A j \in Overdue(cs) : k <= j
Pending(cs) == {cs[k].ra_time : k \in DOMAIN cs} \ {0}

Target(name, i) == IF MayAdvertise(name) THEN <<[name |-> name, if_index |-> i]>> ELSE <<>>

\* One overdue context of periodic_ra: the possible [cs, targets, gap].
Serve(w) ==
    LET k == FirstOverdue(w.cs)
        c == w.cs[k]
        stale == indextoname(c.if_index)
        carriers == Carriers(c)
    IN  IF Has(c, "OLD") /\ c.if_index # 0
        THEN IF stale = NoIface THEN {[w EXCEPT !.cs[k].ra_time = 0, !.gap = TRUE]}
             ELSE {[w EXCEPT !.cs[k].ra_time = t, !.targets = @ \o Target(stale, c.if_index)] : t \in NewTimes(c, stale)}
        ELSE IF carriers = <<>> THEN {[w EXCEPT !.cs[k].ra_time = 0, !.gap = TRUE]}
        ELSE LET l == Head(carriers)
             IN  {[cs |-> [j \in DOMAIN w.cs |->
                              IF j = k THEN [c EXCEPT !.ra_time = t]
                              ELSE IF OnNet(l, w.cs[j]) THEN [w.cs[j] EXCEPT !.ra_time = 0] ELSE w.cs[j]],
                   targets |-> IF l.tentative THEN w.targets ELSE w.targets \o Target(l.name, l.if_index),
                   gap |-> w.gap] : t \in NewTimes(c, l.name)}

\* periodic_ra: serve overdue contexts until none is left (every delay is
\* positive, so each is served at most once).
periodic_ra(w0) ==
    FoldLeft(LAMBDA ws, c : UNION {IF Overdue(w.cs) = {} THEN {w} ELSE Serve(w) : w \in ws}, {w0}, w0.cs)

\* The timer of run_radv_loop; sleeping starts again from the next timer.
Wake ==
    /\ deadline <= now
    /\ \E w \in periodic_ra([cs |-> ctx, targets |-> <<>>, gap |-> gap]) :
       \E out \in {FoldLeft(send_ra_with_aliases, [cs |-> w.cs, sent |-> {}], w.targets)} :
          LET next == Pending(w.cs)
          IN  /\ ctx' = out.cs
              /\ lastRa' = out.sent
              /\ gap' = w.gap
              /\ deadline' = now + (IF next = {} THEN IdleDelay
                                    ELSE (CHOOSE m \in next : \A n \in next : m <= n) - now)
    /\ UNCHANGED <<ra, live, now>>

\* handle_icmp6_packet: the router solicitation of `source` on an interface;
\* other ICMPv6 messages and malformed options are dropped.
Solicited(name, source) ==
    LET i == nametoindex(name)
        mine == SelectSeq(ra.bridges, LAMBDA b : nametoindex(b.iface) # 0 /\ name \in b.aliases)
        owner == IF mine = <<>> THEN name ELSE Head(mine).iface
    IN  /\ i # 0 /\ MayAdvertise(name)
        /\ \E b \in {build_ra_for_interface(ctx, owner, nametoindex(owner))} :
             /\ ctx' = b.cs
             /\ lastRa' = IF b.packet = NoIface THEN {}
                          ELSE {[on |-> i, to |-> IF mine = <<>> THEN source ELSE NoIface, of |-> nametoindex(owner),
                                 ra |-> b.packet]}
        /\ UNCHANGED <<ra, live, now, deadline, gap>>

\* The kernel's addresses come and go, and time passes; the loop runs before
\* the next second when it is due.
LinkChange(lives) == /\ live' \in lives /\ lastRa' = {}
                     /\ gap' = (gap \/ \E c \in ToSet(ctx) : ~Has(c, "TEMPLATE") /\ c.ra_time = 0)
                     /\ UNCHANGED <<ra, ctx, now, deadline>>
RadvSecond == /\ now < MaxNow /\ deadline > now /\ now' = now + 1 /\ lastRa' = {}
              /\ UNCHANGED <<ra, live, ctx, deadline, gap>>

\* ra_start_unsolicited_all, at the start of the loop: every context that is
\* not a template is due within a few seconds.
Started(cs) ==
    {[k \in DOMAIN cs |-> IF Has(cs[k], "TEMPLATE") THEN cs[k]
                          ELSE [cs[k] EXCEPT !.ra_time = now + d[k], !.short_start = now]] :
        d \in [DOMAIN cs -> StartDelays]}

----------------------------------------------------------------------------

Separate == \A j, k \in DOMAIN ctx : j # k => ~is_same_net6(ctx[j].start6, ctx[k].start6, ctx[k].prefix)

Scheduled(name) == \E c \in ToSet(ctx) : c.ra_time # 0 /\ \E l \in ToSet(live) : l.name = name /\ OnNet(l, c)

\* Unsolicited RAs never stop: as long as every due context found its
\* interface, and no two contexts share a subnet, an interface on a context's
\* network has a context with a timer, and the task sleeps past no timer,
\* however solicitations and link changes come in between (periodic_ra,
\* add_prefix_for_addr, run_radv_loop).
AdvertisingGoesOn ==
    /\ \A t \in Pending(ctx) : deadline <= t
    /\ (Separate /\ ~gap) =>
          \A l \in ToSet(live) :
             (\E c \in ToSet(ctx) : ~Has(c, "TEMPLATE") /\ Carriers(c) # <<>> /\ Head(Carriers(c)) = l)
                => Scheduled(l.name)

\* What run_radv_loop is documented to do: unsolicited RAs go out "on their
\* scheduled interval" for every context whose interface is there.
UnsolicitedGoOn ==
    ~gap => \A l \in ToSet(live) :
        (\E c \in ToSet(ctx) : ~Has(c, "TEMPLATE") /\ Carriers(c) # <<>> /\ Head(Carriers(c)) = l)
            => Scheduled(l.name)

=============================================================================
